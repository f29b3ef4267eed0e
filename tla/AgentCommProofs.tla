-------------------------- MODULE AgentCommProofs --------------------------
(***************************************************************************)
(* For any groups, agents, scopes and messages: types, and that            *)
(* overlapping locks are forced although nothing keeps two commands from   *)
(* rewriting the lock list at once; that what commands reported is kept    *)
(* unless two of them rewrite one file at once; that messages are tracked  *)
(* until they are acknowledged unless their mailbox is made twice.         *)
(***************************************************************************)
EXTENDS AgentComm, SequenceTheorems, TLAPS

-----------------------------------------------------------------------------
(***************************************************************************)
(* Where a command may be.                                                 *)
(***************************************************************************)
\* The data of the JSON files.
Data == Seq(Lock) \cup SUBSET Agents

Report == [agents : SUBSET (Groups \X Agents), locks : Nat]

Inits == [step : {"init-locks", "init-group", "init-agents"}, g : Groups]

Beats == [step : {"first-heartbeat"}, g : Groups, a : Agents]

\* After the mailboxes of main comes the rest of init, after those of an agent its heartbeat.
AfterTouch == {Idle} \cup [step : {"init-locks"}, g : Groups] \cup Beats

Touches == [step : {"touch", "empty"}, g : Groups, boxes : Seq(Boxes), next : AfterTouch]

AfterWrite == {Idle} \cup Inits \cup Touches

Writes == [step : {"truncate", "flush"}, f : Files, data : Data, next : AfterWrite, report : Report]

Mails == [step : {"outbox"}, message : Message, copy : BOOLEAN] \cup [step : {"copy"}, message : Message]
           \cup [step : {"deliver"}, message : Message, to : SUBSET People]

\* Data of the kind of the file.
Fits(f, data) ==
  /\ f = LocksFile => data \in Seq(Lock)
  /\ \A g \in Groups : f = AgentsFile(g) => data \in SUBSET Agents

TouchOK(j) == j \in Touches /\ (j.step = "empty" => j.boxes # << >>)
WriteOK(j) == j \in Writes /\ Fits(j.f, j.data) /\ (j.next \in Touches => j.next.step = "touch")

JobOK(j) == j = Idle \/ j \in Inits \/ j \in Beats \/ TouchOK(j) \/ WriteOK(j) \/ j \in Mails

FileOK ==
  /\ file \in [Files -> [state : {"absent", "torn", "whole"}, data : Data]]
  /\ \A f \in Files : Fits(f, file[f].data)

TypeInv ==
  /\ now \in 0..MaxNow /\ sent \in 0..MaxMessages
  /\ FileOK
  /\ rows \in SUBSET Row /\ made \in SUBSET (Groups \X Boxes)
  /\ told \in Report
  /\ DOMAIN job = Procs /\ \A p \in Procs : JobOK(job[p])

\* What a command at one of its steps looks like.
LEMMA Shapes ==
  ASSUME NEW j, JobOK(j)
  PROVE  /\ j.step \in {"truncate", "flush"} => WriteOK(j)
         /\ j.step \in {"touch", "empty"} => TouchOK(j)
         /\ j.step \in {"init-locks", "init-group", "init-agents"} => j \in Inits
         /\ j.step \in {"outbox", "copy", "deliver"} => j \in Mails
         /\ j.step = "first-heartbeat" => j \in Beats
<1>1. j = Idle => j.step = "idle"
  BY DEF Idle
<1>2. j \in Inits => j.step \in {"init-locks", "init-group", "init-agents"}
  BY DEF Inits
<1>3. TouchOK(j) => j.step \in {"touch", "empty"}
  BY DEF TouchOK, Touches
<1>4. WriteOK(j) => j.step \in {"truncate", "flush"}
  BY DEF WriteOK, Writes
<1>5. j \in Mails => j.step \in {"outbox", "copy", "deliver"}
  BY DEF Mails
<1>6. j \in Beats => j.step = "first-heartbeat"
  BY DEF Beats
<1> QED
  BY <1>1, <1>2, <1>3, <1>4, <1>5, <1>6 DEF JobOK

LEMMA FilesDiffer ==
  /\ LocksFile \in Files
  /\ \A g \in Groups : GroupFile(g) \in Files /\ AgentsFile(g) \in Files
                         /\ LocksFile # GroupFile(g) /\ LocksFile # AgentsFile(g)
  /\ \A g \in Groups, a \in Agents : HeartbeatFile(g, a) \in Files /\ HeartbeatFile(g, a) # LocksFile
  /\ \A g, h \in Groups : GroupFile(g) # AgentsFile(h) /\ (AgentsFile(g) = AgentsFile(h) => g = h)
                            /\ (GroupFile(g) = GroupFile(h) => g = h)
  /\ \A g, h \in Groups, a \in Agents :
       HeartbeatFile(h, a) # AgentsFile(g) /\ HeartbeatFile(h, a) # GroupFile(g)
<1>1. \A g \in Groups : LocksFile # GroupFile(g) /\ LocksFile # AgentsFile(g)
  BY DEF LocksFile, GroupFile, AgentsFile
<1>2. \A g \in Groups, a \in Agents : HeartbeatFile(g, a) # LocksFile
  BY DEF LocksFile, HeartbeatFile
<1>3. \A g, h \in Groups : GroupFile(g) # AgentsFile(h) /\ (AgentsFile(g) = AgentsFile(h) => g = h)
                            /\ (GroupFile(g) = GroupFile(h) => g = h)
  BY DEF GroupFile, AgentsFile
<1>4. \A g, h \in Groups, a \in Agents :
       HeartbeatFile(h, a) # AgentsFile(g) /\ HeartbeatFile(h, a) # GroupFile(g)
  BY DEF HeartbeatFile, AgentsFile, GroupFile
<1>5. /\ LocksFile \in Files
      /\ \A g \in Groups : GroupFile(g) \in Files /\ AgentsFile(g) \in Files
      /\ \A g \in Groups, a \in Agents : HeartbeatFile(g, a) \in Files
  BY DEF Files
<1> QED
  BY <1>1, <1>2, <1>3, <1>4, <1>5

\* A command that moves on leaves the others where they are.
LEMMA Moves ==
  ASSUME NEW p \in Procs, NEW next, Goto(p, next), DOMAIN job = Procs
  PROVE  /\ DOMAIN job' = Procs /\ job'[p] = next
         /\ \A q \in Procs \ {p} : job'[q] = job[q]
  BY DEF Goto

LEMMA JobsStayOK ==
  ASSUME TypeInv, NEW p \in Procs, NEW next, Goto(p, next), JobOK(next)
  PROVE  DOMAIN job' = Procs /\ \A q \in Procs : JobOK(job'[q])
  BY Moves DEF TypeInv

\* What commands read of the files.
LEMMA Reading ==
  ASSUME FileOK
  PROVE  Locks \in Seq(Lock) /\ \A g \in Groups : Registered(g) \in SUBSET Agents
  BY FilesDiffer DEF FileOK, Fits, Locks, Registered

\* The boxes there are.
LEMMA BoxesAre ==
  /\ \A a \in People : Outbox(a) \in Boxes /\ Inbox(a) \in Boxes
  /\ \A a \in Agents : Artifacts(a) \in Boxes
  /\ Broadcasts \in Boxes /\ "main" \in People /\ Agents \subseteq People
  BY DEF Boxes, People

\* Beginning to rewrite a file.
LEMMA RewritingOK ==
  ASSUME NEW f \in Files, NEW data \in Data, Fits(f, data),
         NEW next \in AfterWrite, next \in Touches => next.step = "touch", NEW report \in Report
  PROVE  JobOK(Rewriting(f, data, next, report))
<1>1. Rewriting(f, data, next, report) \in Writes
  BY DEF Writes, Rewriting
<1> QED
  BY <1>1 DEF JobOK, WriteOK, Rewriting

LEMMA TouchingOK ==
  ASSUME NEW g \in Groups, NEW boxes \in Seq(Boxes), NEW next \in AfterTouch
  PROVE  /\ Touching(g, boxes, next) \in Touches /\ Touching(g, boxes, next).step = "touch"
         /\ JobOK(Touching(g, boxes, next))
  BY DEF JobOK, TouchOK, Touches, Touching

LEMMA NothingIsReport == Nothing \in Report
  BY DEF Nothing, Report

\* Job steps without a file of their own.
LEMMA SimpleJobs ==
  /\ JobOK(Idle) /\ Idle \in AfterWrite /\ Idle \in AfterTouch /\ Idle \notin Touches
  /\ \A g \in Groups, s \in {"init-locks", "init-group", "init-agents"} :
       [step |-> s, g |-> g] \in Inits /\ JobOK([step |-> s, g |-> g]) /\ [step |-> s, g |-> g] \notin Touches
       /\ [step |-> s, g |-> g] \in AfterWrite
  /\ \A g \in Groups : [step |-> "init-locks", g |-> g] \in AfterTouch
  /\ AfterTouch \subseteq {Idle} \cup Inits \cup Beats
  /\ \A g \in Groups, a \in Agents : [step |-> "first-heartbeat", g |-> g, a |-> a] \in AfterTouch
<1>1. Idle \notin Touches
  BY DEF Idle, Touches
<1>2. \A g \in Groups, s \in {"init-locks", "init-group", "init-agents"} :
        [step |-> s, g |-> g] \in Inits /\ [step |-> s, g |-> g] \notin Touches
  BY DEF Inits, Touches
<1> QED
  BY <1>1, <1>2 DEF JobOK, AfterWrite, AfterTouch, Inits, Beats

-----------------------------------------------------------------------------
(***************************************************************************)
(* Types.                                                                  *)
(***************************************************************************)
LEMMA InitTyped == Init => TypeInv
<1> SUFFICES ASSUME Init PROVE TypeInv
  OBVIOUS
<1>1. now \in 0..MaxNow /\ sent \in 0..MaxMessages /\ rows \in SUBSET Row
  BY CommAssumption DEF Init
<1>2. FileOK
  <2>1. << >> \in Seq(Lock) /\ {} \in SUBSET Agents
    OBVIOUS
  <2>2. DOMAIN file = Files /\ \A f \in Files : /\ file[f].state \in {"absent", "torn", "whole"}
                                               /\ file[f].data = (IF f = LocksFile THEN << >> ELSE {})
                                               /\ DOMAIN file[f] = {"state", "data"}
    BY DEF Init
  <2>3. file \in [Files -> [state : {"absent", "torn", "whole"}, data : Data]]
    BY <2>1 DEF Init, Data
  <2>4. ASSUME NEW f \in Files PROVE Fits(f, file[f].data)
    BY <2>1, <2>2, FilesDiffer DEF Fits
  <2> QED
    BY <2>3, <2>4 DEF FileOK
<1>3. made \in SUBSET (Groups \X Boxes)
  BY CommAssumption, BoxesAre DEF Init
<1>4. told \in Report
  BY NothingIsReport DEF Init
<1>5. DOMAIN job = Procs /\ \A p \in Procs : JobOK(job[p])
  BY SimpleJobs DEF Init
<1> QED
  BY <1>1, <1>2, <1>3, <1>4, <1>5 DEF TypeInv

LEMMA MovingTyped ==
  ASSUME TypeInv, NEW p \in Procs, NEW next, JobOK(next), Goto(p, next),
         UNCHANGED <<now, file, made, rows, sent, told>>
  PROVE  TypeInv'
BY JobsStayOK DEF TypeInv, FileOK

LEMMA AppendTyped ==
  ASSUME TypeInv, NEW p \in Procs, NEW next, JobOK(next), Goto(p, next),
         NEW box \in Boxes, NEW message \in Message, AppendRow(box, message),
         sent' \in 0..MaxMessages, UNCHANGED <<now, file, told>>
  PROVE  TypeInv'
<1>1. DOMAIN job' = Procs /\ \A q \in Procs : JobOK(job'[q])
  BY JobsStayOK
<1>2. [box |-> box, message |-> message] \in Row /\ <<message.group, box>> \in Groups \X Boxes
  BY DEF Row, Message
<1>3. rows' \in SUBSET Row /\ made' \in SUBSET (Groups \X Boxes)
  BY <1>2 DEF TypeInv, AppendRow
<1> QED
  BY <1>1, <1>3 DEF TypeInv, FileOK

LEMMA TruncateTyped ==
  ASSUME TypeInv, NEW p \in Procs, Truncate(p)
  PROVE  TypeInv'
<1>0. PICK j : j = job[p]
  OBVIOUS
<1>1. WriteOK(j) /\ j.step = "truncate"
  BY <1>0, Shapes DEF Truncate, TypeInv
<1>2. PICK next : next = [j EXCEPT !.step = "flush"]
  OBVIOUS
<1>3. next \in Writes /\ next.f = j.f /\ next.data = j.data /\ next.next = j.next
  BY <1>1, <1>2 DEF WriteOK, Writes
<1>4. JobOK(next)
  BY <1>1, <1>3 DEF JobOK, WriteOK
<1>5. Goto(p, next) /\ UNCHANGED <<now, made, rows, sent, told>>
      /\ file' = [file EXCEPT ![j.f].state = "torn"]
  BY <1>0, <1>2 DEF Truncate
<1>6. DOMAIN job' = Procs /\ \A q \in Procs : JobOK(job'[q])
  BY <1>4, <1>5, JobsStayOK
<1>7. FileOK'
  <2>1. j.f \in Files
    BY <1>1 DEF WriteOK, Writes
  <2>2. \A f \in Files : file'[f].data = file[f].data
    BY <2>1, <1>5 DEF TypeInv, FileOK
  <2>3. file' \in [Files -> [state : {"absent", "torn", "whole"}, data : Data]]
    BY <2>1, <1>5 DEF TypeInv, FileOK
  <2> QED
    BY <2>2, <2>3 DEF TypeInv, FileOK
<1> QED
  BY <1>5, <1>6, <1>7 DEF TypeInv

\* What is written is as it was computed, and the command goes on.
LEMMA FlushDoes ==
  ASSUME TypeInv, NEW p \in Procs, Flush(p)
  PROVE  /\ WriteOK(job[p]) /\ job[p].step = "flush" /\ job[p].f \in Files /\ JobOK(job[p].next)
         /\ file'[job[p].f] = [state |-> "whole", data |-> job[p].data]
         /\ \A f \in Files \ {job[p].f} : file'[f] = file[f]
         /\ Goto(p, job[p].next)
<1>0. PICK j : j = job[p]
  OBVIOUS
<1>1. WriteOK(j) /\ j.step = "flush"
  BY <1>0, Shapes DEF Flush, TypeInv
<1>2. JobOK(j.next)
  BY <1>1, SimpleJobs DEF WriteOK, Writes, AfterWrite, JobOK, TouchOK
<1>3. j.f \in Files /\ Goto(p, j.next)
  BY <1>0, <1>1 DEF WriteOK, Writes, Flush
<1>4. /\ file'[j.f] = [state |-> "whole", data |-> j.data]
      /\ \A f \in Files \ {j.f} : file'[f] = file[f]
  BY <1>0, <1>3 DEF Flush, TypeInv, FileOK
<1> QED
  BY <1>0, <1>1, <1>2, <1>3, <1>4

LEMMA FlushTyped ==
  ASSUME TypeInv, NEW p \in Procs, Flush(p)
  PROVE  TypeInv'
<1>0. PICK j : j = job[p]
  OBVIOUS
<1>1. WriteOK(j) /\ j.f \in Files /\ JobOK(j.next) /\ Goto(p, j.next)
      /\ file' = [file EXCEPT ![j.f] = [state |-> "whole", data |-> j.data]]
      /\ told' = [agents |-> told.agents \cup j.report.agents, locks |-> told.locks + j.report.locks]
      /\ UNCHANGED <<now, made, rows, sent>>
  BY <1>0, FlushDoes DEF Flush
<1>2. j.data \in Data /\ j.report \in Report
  BY <1>1 DEF WriteOK, Writes
<1>3. [state |-> "whole", data |-> j.data] \in [state : {"absent", "torn", "whole"}, data : Data]
  BY <1>2
<1>4. file' \in [Files -> [state : {"absent", "torn", "whole"}, data : Data]]
  BY <1>1, <1>3 DEF TypeInv, FileOK
<1>5. \A f \in Files : Fits(f, file'[f].data)
  <2> TAKE f \in Files
  <2>1. CASE f = j.f
    BY <2>1, <1>1 DEF TypeInv, FileOK, WriteOK
  <2>2. CASE f # j.f
    BY <2>2, <1>1 DEF TypeInv, FileOK
  <2> QED
    BY <2>1, <2>2
<1>6. told' \in Report
  BY <1>1, <1>2 DEF TypeInv, Report
<1>7. DOMAIN job' = Procs /\ \A q \in Procs : JobOK(job'[q])
  BY <1>1, JobsStayOK
<1> QED
  BY <1>1, <1>4, <1>5, <1>6, <1>7 DEF TypeInv, FileOK

LEMMA TouchTyped ==
  ASSUME TypeInv, NEW p \in Procs, Touch(p) \/ EmptyBox(p)
  PROVE  TypeInv'
<1>0. PICK j : j = job[p]
  OBVIOUS
<1>1. j \in Touches /\ (j.step = "empty" => j.boxes # << >>)
  BY <1>0, Shapes DEF TypeInv, Touch, EmptyBox, TouchOK
<1>2. JobOK(j.next)
  BY <1>1, SimpleJobs DEF Touches, JobOK
<1>3. ASSUME j.boxes # << >>
      PROVE  /\ JobOK([j EXCEPT !.step = "touch", !.boxes = Tail(@)])
             /\ JobOK([j EXCEPT !.step = "empty"])
             /\ j.step = "touch" => JobOK([j EXCEPT !.boxes = Tail(@)])
             /\ <<j.g, Head(j.boxes)>> \in Groups \X Boxes
  <2>1. Tail(j.boxes) \in Seq(Boxes) /\ Head(j.boxes) \in Boxes
    BY <1>1, <1>3, HeadTailProperties DEF Touches
  <2>2. TouchOK([j EXCEPT !.step = "touch", !.boxes = Tail(@)])
    BY <1>1, <2>1 DEF Touches, TouchOK
  <2>3. TouchOK([j EXCEPT !.step = "empty"])
    BY <1>1, <1>3 DEF Touches, TouchOK
  <2>4. j.step = "touch" => TouchOK([j EXCEPT !.boxes = Tail(@)])
    BY <1>1, <2>1 DEF Touches, TouchOK
  <2> QED
    BY <1>1, <2>1, <2>2, <2>3, <2>4 DEF JobOK, Touches
<1>4. CASE Touch(p)
  <2>1. j.step = "touch" /\ UNCHANGED <<now, file, made, rows, sent, told>>
        /\ Goto(p, IF j.boxes = << >> THEN j.next
                     ELSE IF <<j.g, Head(j.boxes)>> \in made THEN [j EXCEPT !.boxes = Tail(@)]
                     ELSE [j EXCEPT !.step = "empty"])
    BY <1>0, <1>4 DEF Touch
  <2>2. PICK next : Goto(p, next) /\ JobOK(next)
    BY <2>1, <1>2, <1>3
  <2> QED
    BY <2>1, <2>2, MovingTyped
<1>5. CASE EmptyBox(p)
  <2>1. PICK next : next = [j EXCEPT !.step = "touch", !.boxes = Tail(@)]
    OBVIOUS
  <2>2. JobOK(next) /\ Goto(p, next) /\ <<j.g, Head(j.boxes)>> \in Groups \X Boxes
    BY <1>0, <1>1, <1>3, <1>5, <2>1 DEF EmptyBox
  <2>3. made' = made \cup {<<j.g, Head(j.boxes)>>} /\ rows' \subseteq rows
        /\ UNCHANGED <<now, file, sent, told>>
    BY <1>0, <1>5 DEF EmptyBox
  <2> QED
    BY <2>2, <2>3, JobsStayOK DEF TypeInv, FileOK
<1> QED
  BY <1>4, <1>5

\* The commands that begin to rewrite a file, or to make mailboxes: where each of them goes.
LEMMA InitsMove ==
  ASSUME TypeInv, NEW p \in Procs
  PROVE  /\ \A g \in Groups : InitGroupFiles(p, g) =>
              \E boxes \in Seq(Boxes) :
                /\ boxes = <<Outbox("main"), Inbox("main"), Broadcasts>>
                /\ Goto(p, Touching(g, boxes, [step |-> "init-locks", g |-> g]))
                /\ JobOK(Touching(g, boxes, [step |-> "init-locks", g |-> g]))
         /\ InitLocks(p) =>
              LET next == [step |-> "init-group", g |-> job[p].g] IN
              /\ job[p] \in Inits
              /\ JobOK(next) /\ JobOK(Rewriting(LocksFile, << >>, next, Nothing))
              /\ Goto(p, IF file[LocksFile].state = "absent"
                           THEN Rewriting(LocksFile, << >>, next, Nothing) ELSE next)
         /\ InitGroup(p) =>
              LET next == Rewriting(GroupFile(job[p].g), {}, [step |-> "init-agents", g |-> job[p].g], Nothing) IN
              job[p] \in Inits /\ JobOK(next) /\ Goto(p, next)
         /\ InitAgents(p) =>
              /\ job[p] \in Inits
              /\ JobOK(Rewriting(AgentsFile(job[p].g), {}, Idle, Nothing))
              /\ Goto(p, IF file[AgentsFile(job[p].g)].state = "absent"
                           THEN Rewriting(AgentsFile(job[p].g), {}, Idle, Nothing) ELSE Idle)
<1>1. << >> \in Seq(Lock) /\ << >> \in Data /\ {} \in Data /\ {} \in SUBSET Agents
  BY DEF Data
<1>2. \A g \in Groups, f \in Files :
        /\ f # LocksFile => Fits(f, {})
        /\ f = LocksFile => Fits(f, << >>)
  BY <1>1, FilesDiffer DEF Fits
<1>3. ASSUME NEW g \in Groups, InitGroupFiles(p, g)
      PROVE  \E boxes \in Seq(Boxes) :
               /\ boxes = <<Outbox("main"), Inbox("main"), Broadcasts>>
               /\ Goto(p, Touching(g, boxes, [step |-> "init-locks", g |-> g]))
               /\ JobOK(Touching(g, boxes, [step |-> "init-locks", g |-> g]))
  <2>0. <<Outbox("main"), Inbox("main"), Broadcasts>> \in Seq(Boxes)
    BY BoxesAre
  <2>1. PICK boxes \in Seq(Boxes) : boxes = <<Outbox("main"), Inbox("main"), Broadcasts>>
    BY <2>0
  <2>2. JobOK(Touching(g, boxes, [step |-> "init-locks", g |-> g]))
    BY SimpleJobs, TouchingOK
  <2> QED
    BY <1>3, <2>1, <2>2 DEF InitGroupFiles
<1>4. ASSUME InitLocks(p)
      PROVE  LET next == [step |-> "init-group", g |-> job[p].g] IN
              /\ job[p] \in Inits
              /\ JobOK(next) /\ JobOK(Rewriting(LocksFile, << >>, next, Nothing))
              /\ Goto(p, IF file[LocksFile].state = "absent"
                           THEN Rewriting(LocksFile, << >>, next, Nothing) ELSE next)
  <2>1. job[p] \in Inits /\ job[p].g \in Groups
    BY <1>4, Shapes DEF InitLocks, TypeInv, Inits
  <2>2. PICK next : next = [step |-> "init-group", g |-> job[p].g]
    OBVIOUS
  <2>3. JobOK(next) /\ next \in AfterWrite /\ next \notin Touches
    BY <2>1, <2>2, SimpleJobs
  <2>4. JobOK(Rewriting(LocksFile, << >>, next, Nothing))
    BY <1>1, <1>2, <2>1, <2>3, FilesDiffer, NothingIsReport, RewritingOK
  <2> QED
    BY <1>4, <2>1, <2>2, <2>3, <2>4 DEF InitLocks
<1>5. ASSUME InitGroup(p)
      PROVE  LET next == Rewriting(GroupFile(job[p].g), {}, [step |-> "init-agents", g |-> job[p].g], Nothing) IN
             job[p] \in Inits /\ JobOK(next) /\ Goto(p, next)
  <2>1. job[p] \in Inits /\ job[p].g \in Groups
    BY <1>5, Shapes DEF InitGroup, TypeInv, Inits
  <2>2. PICK next : next = [step |-> "init-agents", g |-> job[p].g]
    OBVIOUS
  <2>3. next \in AfterWrite /\ next \notin Touches
    BY <2>1, <2>2, SimpleJobs
  <2>4. JobOK(Rewriting(GroupFile(job[p].g), {}, next, Nothing))
    BY <1>1, <1>2, <2>1, <2>3, FilesDiffer, NothingIsReport, RewritingOK
  <2> QED
    BY <1>5, <2>1, <2>2, <2>4 DEF InitGroup
<1>6. ASSUME InitAgents(p)
      PROVE  /\ job[p] \in Inits
             /\ JobOK(Rewriting(AgentsFile(job[p].g), {}, Idle, Nothing))
             /\ Goto(p, IF file[AgentsFile(job[p].g)].state = "absent"
                          THEN Rewriting(AgentsFile(job[p].g), {}, Idle, Nothing) ELSE Idle)
  <2>1. job[p] \in Inits /\ job[p].g \in Groups
    BY <1>6, Shapes DEF InitAgents, TypeInv, Inits
  <2>2. JobOK(Rewriting(AgentsFile(job[p].g), {}, Idle, Nothing))
    BY <1>1, <1>2, <2>1, SimpleJobs, FilesDiffer, NothingIsReport, RewritingOK
  <2> QED
    BY <1>6, <2>1, <2>2 DEF InitAgents
<1> QED
  BY <1>3, <1>4, <1>5, <1>6

\* The new lock, and the list with it.
NewLock(g, scope, lease, force) ==
  [group |-> g, scope |-> scope, status |-> "active", expires |-> now + lease, force |-> force]

\* The list in which the locks of g among the selection are released.
Released(g, selection) ==
  [i \in DOMAIN Locks |-> IF i \in selection /\ Locks[i].group = g
                            THEN [Locks[i] EXCEPT !.status = "released"] ELSE Locks[i]]

LEMMA ListsAreLists ==
  ASSUME TypeInv, NEW g \in Groups
  PROVE  /\ Locks \in Seq(Lock)
         /\ \A scope \in Scopes, lease \in Leases, force \in BOOLEAN :
              /\ NewLock(g, scope, lease, force) \in Lock
              /\ Append(Locks, NewLock(g, scope, lease, force)) \in Seq(Lock)
         /\ \A selection :
              /\ Released(g, selection) \in Seq(Lock)
              /\ DOMAIN Released(g, selection) = DOMAIN Locks
              /\ Len(Released(g, selection)) = Len(Locks)
<1>1. Locks \in Seq(Lock)
  BY Reading DEF TypeInv
<1>2. ASSUME NEW scope \in Scopes, NEW lease \in Leases, NEW force \in BOOLEAN
      PROVE  NewLock(g, scope, lease, force) \in Lock
  <2>1. now + lease \in Nat
    BY CommAssumption DEF TypeInv
  <2> QED
    BY <2>1 DEF NewLock, Lock
<1>3. ASSUME NEW selection
      PROVE  /\ Released(g, selection) \in Seq(Lock)
             /\ DOMAIN Released(g, selection) = DOMAIN Locks
             /\ Len(Released(g, selection)) = Len(Locks)
  <2>1. ASSUME NEW i \in 1..Len(Locks) PROVE Released(g, selection)[i] \in Lock
    <3>1. PICK lock \in Lock : lock = Locks[i]
      BY <1>1
    <3>2. [lock EXCEPT !.status = "released"] \in Lock
      BY DEF Lock
    <3>3. i \in DOMAIN Locks
      BY <1>1
    <3>4. Released(g, selection)[i] \in {Locks[i], [Locks[i] EXCEPT !.status = "released"]}
      BY <3>3 DEF Released
    <3> QED
      BY <3>1, <3>2, <3>4
  <2>2. Released(g, selection) = [i \in 1..Len(Locks) |-> Released(g, selection)[i]]
    BY <1>1 DEF Released
  <2>3. Released(g, selection) \in [1..Len(Locks) -> Lock]
    BY <2>1, <2>2
  <2>4. Released(g, selection) \in Seq(Lock)
    BY <1>1, <2>3, IsASeq, SeqDef
  <2> QED
    BY <1>1, <2>2, <2>3, <2>4
<1> QED
  BY <1>1, <1>2, <1>3, AppendProperties

\* The other commands of the writers.
LEMMA WritersMove ==
  ASSUME TypeInv, NEW p \in Procs, NEW g \in Groups
  PROVE  /\ \A a \in Agents : Register(p, g, a) =>
              \E next :
                /\ next = Rewriting(AgentsFile(g), Registered(g) \cup {a},
                                    Touching(g, <<Inbox(a), Outbox(a), Artifacts(a)>>,
                                             [step |-> "first-heartbeat", g |-> g, a |-> a]),
                                    [agents |-> {<<g, a>>}, locks |-> 0])
                /\ JobOK(next) /\ Goto(p, next)
         /\ \A a \in Agents : Heartbeat(p, g, a) =>
              \E next :
                /\ next = Rewriting(HeartbeatFile(g, a), {}, Idle, Nothing)
                /\ JobOK(next) /\ Goto(p, next)
         /\ \A scope \in Scopes, lease \in Leases, force \in BOOLEAN : LockAcquire(p, g, scope, lease, force) =>
              \E next :
                /\ next = Rewriting(LocksFile, Append(Locks, NewLock(g, scope, lease, force)),
                                    Idle, [agents |-> {}, locks |-> 1])
                /\ JobOK(next) /\ Goto(p, next)
         /\ \A selection : LockRelease(p, g, selection) =>
              \E next :
                /\ next = Rewriting(LocksFile, Released(g, selection), Idle, Nothing)
                /\ JobOK(next) /\ Goto(p, next)
<1>1. ASSUME NEW a \in Agents, Register(p, g, a)
      PROVE  \E next :
                /\ next = Rewriting(AgentsFile(g), Registered(g) \cup {a},
                                    Touching(g, <<Inbox(a), Outbox(a), Artifacts(a)>>,
                                             [step |-> "first-heartbeat", g |-> g, a |-> a]),
                                    [agents |-> {<<g, a>>}, locks |-> 0])
                /\ JobOK(next) /\ Goto(p, next)
  <2>0. <<Inbox(a), Outbox(a), Artifacts(a)>> \in Seq(Boxes)
    BY BoxesAre
  <2>1. PICK boxes \in Seq(Boxes) : boxes = <<Inbox(a), Outbox(a), Artifacts(a)>>
    BY <2>0
  <2>7. PICK last \in AfterTouch : last = [step |-> "first-heartbeat", g |-> g, a |-> a]
    BY SimpleJobs
  <2>2. Touching(g, boxes, last) \in AfterWrite /\ Touching(g, boxes, last).step = "touch"
    BY TouchingOK DEF AfterWrite
  <2>3. Registered(g) \cup {a} \in SUBSET Agents /\ Registered(g) \cup {a} \in Data
    BY Reading DEF TypeInv, Data
  <2>4. Fits(AgentsFile(g), Registered(g) \cup {a})
    BY <2>3, FilesDiffer DEF Fits
  <2>5. [agents |-> {<<g, a>>}, locks |-> 0] \in Report
    BY DEF Report
  <2>6. JobOK(Rewriting(AgentsFile(g), Registered(g) \cup {a}, Touching(g, boxes, last),
                        [agents |-> {<<g, a>>}, locks |-> 0]))
    BY <2>2, <2>3, <2>4, <2>5, FilesDiffer, RewritingOK
  <2> QED
    BY <1>1, <2>1, <2>6, <2>7 DEF Register
<1>2. ASSUME NEW a \in Agents, Heartbeat(p, g, a)
      PROVE  \E next :
                /\ next = Rewriting(HeartbeatFile(g, a), {}, Idle, Nothing)
                /\ JobOK(next) /\ Goto(p, next)
  <2>1. {} \in Data /\ Fits(HeartbeatFile(g, a), {})
    BY FilesDiffer DEF Fits, Data
  <2>2. JobOK(Rewriting(HeartbeatFile(g, a), {}, Idle, Nothing))
    BY <2>1, FilesDiffer, SimpleJobs, NothingIsReport, RewritingOK
  <2> QED
    BY <1>2, <2>2 DEF Heartbeat
<1>3. ASSUME NEW data \in Seq(Lock), NEW report \in Report
      PROVE  JobOK(Rewriting(LocksFile, data, Idle, report))
  <2>1. data \in Data /\ Fits(LocksFile, data)
    BY FilesDiffer DEF Fits, Data
  <2> QED
    BY <2>1, FilesDiffer, SimpleJobs, RewritingOK
<1>4. ASSUME NEW scope \in Scopes, NEW lease \in Leases, NEW force \in BOOLEAN,
             LockAcquire(p, g, scope, lease, force)
      PROVE  \E next :
                /\ next = Rewriting(LocksFile, Append(Locks, NewLock(g, scope, lease, force)),
                                    Idle, [agents |-> {}, locks |-> 1])
                /\ JobOK(next) /\ Goto(p, next)
  <2>1. [agents |-> {}, locks |-> 1] \in Report
    BY DEF Report
  <2>2. JobOK(Rewriting(LocksFile, Append(Locks, NewLock(g, scope, lease, force)),
                        Idle, [agents |-> {}, locks |-> 1]))
    BY <1>3, <2>1, ListsAreLists
  <2> QED
    BY <1>4, <2>2 DEF LockAcquire, NewLock
<1>5. ASSUME NEW selection, LockRelease(p, g, selection)
      PROVE  \E next :
                /\ next = Rewriting(LocksFile, Released(g, selection), Idle, Nothing)
                /\ JobOK(next) /\ Goto(p, next)
  <2>1. JobOK(Rewriting(LocksFile, Released(g, selection), Idle, Nothing))
    BY <1>3, NothingIsReport, ListsAreLists
  <2> QED
    BY <1>5, <2>1 DEF LockRelease, Released
<1> QED
  BY <1>1, <1>2, <1>4, <1>5

\* After its mailboxes are made, register writes the first heartbeat or is done.
LEMMA BeatMoves ==
  ASSUME TypeInv, NEW p \in Procs, RegisterHeartbeat(p)
  PROVE  \E next :
           /\ JobOK(next) /\ Goto(p, next)
           /\ next = Idle \/ (next.step = "truncate" /\ \E g \in Groups, a \in Agents :
                                next = Rewriting(HeartbeatFile(g, a), {}, Idle, Nothing))
<1>1. PICK j : j = job[p]
  OBVIOUS
<1>2. j \in Beats
  BY <1>1, Shapes DEF RegisterHeartbeat, TypeInv
<1>3. PICK g \in Groups, a \in Agents : j.g = g /\ j.a = a
  BY <1>2 DEF Beats
<1>4. {} \in Data /\ Fits(HeartbeatFile(g, a), {})
  BY FilesDiffer DEF Fits, Data
<1>5. PICK write : write = Rewriting(HeartbeatFile(g, a), {}, Idle, Nothing)
  OBVIOUS
<1>6. JobOK(write) /\ write.step = "truncate"
  BY <1>4, <1>5, FilesDiffer, SimpleJobs, NothingIsReport, RewritingOK DEF Rewriting
<1>7. Goto(p, write) \/ Goto(p, Idle)
  BY <1>1, <1>3, <1>5 DEF RegisterHeartbeat
<1> QED
  BY <1>5, <1>6, <1>7, SimpleJobs

\* A command among the mailboxes, or none.
MailJob(j) == JobOK(j) /\ j.step \in {"idle", "outbox", "copy", "deliver"}

LEMMA MailJobs ==
  ASSUME NEW message \in Message
  PROVE  /\ MailJob(Idle) /\ MailJob([step |-> "copy", message |-> message])
         /\ \A copy \in BOOLEAN : MailJob([step |-> "outbox", message |-> message, copy |-> copy])
         /\ \A to \in SUBSET People : MailJob(Delivering(message, to))
<1>1. MailJob(Idle)
  BY DEF MailJob, JobOK, Idle
<1>2. [step |-> "copy", message |-> message] \in Mails
  BY DEF Mails
<1>3. \A copy \in BOOLEAN : [step |-> "outbox", message |-> message, copy |-> copy] \in Mails
  BY DEF Mails
<1>4. \A to \in SUBSET People : [step |-> "deliver", message |-> message, to |-> to] \in Mails
  BY DEF Mails
<1> QED
  BY <1>1, <1>2, <1>3, <1>4 DEF MailJob, JobOK, Delivering

\* The commands of the mailboxes have their types, add mailboxes at most, and touch no file.
LEMMA MailKeeps ==
  ASSUME TypeInv, NEW p \in Procs, Mail(p)
  PROVE  /\ TypeInv' /\ made \subseteq made' /\ UNCHANGED <<now, file, told>>
         /\ \E next : MailJob(next) /\ (Goto(p, next) \/ UNCHANGED job)
<1>1. ASSUME NEW next, MailJob(next), Goto(p, next), NEW box \in Boxes, NEW message \in Message,
             AppendRow(box, message), sent' \in 0..MaxMessages, UNCHANGED <<now, file, told>>
      PROVE  /\ TypeInv' /\ made \subseteq made' /\ UNCHANGED <<now, file, told>>
             /\ \E new : MailJob(new) /\ (Goto(p, new) \/ UNCHANGED job)
  BY <1>1, AppendTyped DEF MailJob, AppendRow
<1>2. ASSUME NEW g \in Groups, NEW from \in People, NEW to \in People \cup {"*"}, NEW needs \in BOOLEAN,
             NEW acks \in 0..sent, CanSend(p, g)
      PROVE  NewMessage(g, from, to, needs, acks) \in Message /\ sent + 1 \in 0..MaxMessages
  <2>1. sent + 1 \in 1..MaxMessages /\ acks \in 0..MaxMessages
    BY <1>2, CommAssumption DEF CanSend, TypeInv
  <2> QED
    BY <2>1 DEF NewMessage, Message
<1>3. ASSUME NEW g \in Groups, NEW from \in People, NEW to \in People \cup {"*"}, NEW needs \in BOOLEAN,
             NEW acks \in 0..sent, Post(p, g, from, to, needs, acks)
      PROVE  /\ TypeInv' /\ made \subseteq made' /\ UNCHANGED <<now, file, told>>
             /\ \E next : MailJob(next) /\ (Goto(p, next) \/ UNCHANGED job)
  <2>1. PICK message : message = NewMessage(g, from, to, needs, acks)
    OBVIOUS
  <2>2. message \in Message /\ sent' \in 0..MaxMessages
    BY <1>2, <1>3, <2>1 DEF Post
  <2>3. {to} \ {"*"} \in SUBSET People
    OBVIOUS
  <2>4. MailJob(Delivering(message, {to} \ {"*"}))
    BY <2>2, <2>3, MailJobs
  <2>5. AppendRow(Outbox(from), message) /\ Goto(p, Delivering(message, {to} \ {"*"}))
        /\ UNCHANGED <<now, file, told>>
    BY <1>3, <2>1 DEF Post
  <2> QED
    BY <1>1, <2>2, <2>4, <2>5, BoxesAre
<1>4. ASSUME NEW g \in Groups, NEW from \in Agents, Artifact(p, g, from)
      PROVE  /\ TypeInv' /\ made \subseteq made' /\ UNCHANGED <<now, file, told>>
             /\ \E next : MailJob(next) /\ (Goto(p, next) \/ UNCHANGED job)
  <2>1. PICK message : message = NewMessage(g, from, from, FALSE, 0)
    OBVIOUS
  <2>2. 0 \in 0..sent /\ CanSend(p, g) /\ from \in People
    BY <1>4, BoxesAre DEF Artifact, TypeInv
  <2>3. message \in Message /\ sent' \in 0..MaxMessages
    BY <1>2, <1>4, <2>1, <2>2 DEF Artifact
  <2>4. AppendRow(Artifacts(from), message) /\ UNCHANGED <<now, file, job, told>>
    BY <1>4, <2>1 DEF Artifact
  <2>5. [box |-> Artifacts(from), message |-> message] \in Row
        /\ <<message.group, Artifacts(from)>> \in Groups \X Boxes
    BY <2>3, BoxesAre DEF Row, Message
  <2>6. TypeInv'
    BY <2>3, <2>4, <2>5 DEF TypeInv, FileOK, AppendRow
  <2> QED
    BY <2>3, <2>4, <2>6, MailJobs DEF AppendRow
<1>5. ASSUME NEW g \in Groups, NEW from \in People, NEW needs \in BOOLEAN, NEW copy \in BOOLEAN,
             Broadcast(p, g, from, needs, copy)
      PROVE  /\ TypeInv' /\ made \subseteq made' /\ UNCHANGED <<now, file, told>>
             /\ \E next : MailJob(next) /\ (Goto(p, next) \/ UNCHANGED job)
  <2>1. PICK message : message = NewMessage(g, from, "*", needs, 0)
    OBVIOUS
  <2>2. 0 \in 0..sent /\ CanSend(p, g)
    BY <1>5 DEF Broadcast, TypeInv
  <2>3. message \in Message /\ sent' \in 0..MaxMessages
    BY <1>2, <1>5, <2>1, <2>2 DEF Broadcast
  <2>4. AppendRow(Broadcasts, message) /\ UNCHANGED <<now, file, told>>
        /\ Goto(p, [step |-> "outbox", message |-> message, copy |-> copy])
    BY <1>5, <2>1 DEF Broadcast
  <2> QED
    BY <1>1, <2>3, <2>4, BoxesAre, MailJobs
<1>6. ASSUME BroadcastOutbox(p)
      PROVE  /\ TypeInv' /\ made \subseteq made' /\ UNCHANGED <<now, file, told>>
             /\ \E next : MailJob(next) /\ (Goto(p, next) \/ UNCHANGED job)
  <2>1. PICK j : j = job[p]
    OBVIOUS
  <2>2. j \in Mails /\ j.step = "outbox"
    BY <1>6, <2>1, Shapes DEF BroadcastOutbox, TypeInv
  <2>3. j.message \in Message /\ j.message.from \in People
    BY <2>2 DEF Mails, Message
  <2>4. PICK next : next = IF j.copy THEN [step |-> "copy", message |-> j.message] ELSE Idle
    OBVIOUS
  <2>5. MailJob(next)
    BY <2>3, <2>4, MailJobs
  <2>6. AppendRow(Outbox(j.message.from), j.message) /\ Goto(p, next) /\ UNCHANGED <<now, file, sent, told>>
    BY <1>6, <2>1, <2>4 DEF BroadcastOutbox
  <2>7. sent' \in 0..MaxMessages
    BY <2>6 DEF TypeInv
  <2> QED
    BY <1>1, <2>3, <2>5, <2>6, <2>7, BoxesAre
<1>7. ASSUME BroadcastCopies(p)
      PROVE  /\ TypeInv' /\ made \subseteq made' /\ UNCHANGED <<now, file, told>>
             /\ \E next : MailJob(next) /\ (Goto(p, next) \/ UNCHANGED job)
  <2>1. job[p] \in Mails /\ job[p].step = "copy"
    BY <1>7, Shapes DEF BroadcastCopies, TypeInv
  <2>2. job[p].message \in Message /\ job[p].message.group \in Groups
    BY <2>1 DEF Mails, Message
  <2>3. Registered(job[p].message.group) \in SUBSET People
    BY <2>2, Reading, BoxesAre DEF TypeInv
  <2>4. PICK next : next = Delivering(job[p].message, Registered(job[p].message.group))
    OBVIOUS
  <2>5. MailJob(next)
    BY <2>2, <2>3, <2>4, MailJobs
  <2>6. Goto(p, next) /\ UNCHANGED <<now, file, made, rows, sent, told>>
    BY <1>7, <2>4 DEF BroadcastCopies
  <2> QED
    BY <2>5, <2>6, MovingTyped DEF MailJob
<1>8. ASSUME Deliver(p)
      PROVE  /\ TypeInv' /\ made \subseteq made' /\ UNCHANGED <<now, file, told>>
             /\ \E next : MailJob(next) /\ (Goto(p, next) \/ UNCHANGED job)
  <2>1. PICK j : j = job[p]
    OBVIOUS
  <2>2. j \in Mails /\ j.step = "deliver"
    BY <1>8, <2>1, Shapes DEF Deliver, TypeInv
  <2>3. j.message \in Message /\ j.to \in SUBSET People
    BY <2>2 DEF Mails
  <2>4. PICK a \in j.to : 
          /\ AppendRow(Inbox(a), IF j.message.to = "*" THEN [j.message EXCEPT !.to = a] ELSE j.message)
          /\ Goto(p, Delivering(j.message, j.to \ {a}))
    BY <1>8, <2>1 DEF Deliver
  <2>5. PICK message : message = IF j.message.to = "*" THEN [j.message EXCEPT !.to = a] ELSE j.message
    OBVIOUS
  <2>6. message \in Message /\ a \in People
    BY <2>3, <2>5 DEF Message
  <2>7. MailJob(Delivering(j.message, j.to \ {a})) /\ sent' \in 0..MaxMessages
        /\ UNCHANGED <<now, file, told>>
    BY <1>8, <2>3, MailJobs DEF Deliver, TypeInv
  <2> QED
    BY <1>1, <2>4, <2>5, <2>6, <2>7, BoxesAre
<1> QED
  <2>1. 0 \in 0..sent /\ \A id \in 1..sent : id \in 0..sent
    BY DEF TypeInv
  <2> QED
    BY <2>1, <1>3, <1>4, <1>5, <1>6, <1>7, <1>8 DEF Mail

LEMMA RewriteTyped ==
  ASSUME TypeInv, NEW p \in Procs, Rewrite(p)
  PROVE  TypeInv'
<1>1. ASSUME NEW g \in Groups, InitGroupFiles(p, g) PROVE TypeInv'
  <2>1. PICK next : JobOK(next) /\ Goto(p, next)
    BY <1>1, InitsMove
  <2> QED
    BY <1>1, <2>1, MovingTyped DEF InitGroupFiles
<1>2. ASSUME InitLocks(p) \/ InitGroup(p) \/ InitAgents(p) PROVE TypeInv'
  <2>1. PICK next : JobOK(next) /\ Goto(p, next)
    <3>1. CASE InitLocks(p)
      BY <3>1, InitsMove
    <3>2. CASE InitGroup(p)
      BY <3>2, InitsMove
    <3>3. CASE InitAgents(p)
      BY <3>3, InitsMove, SimpleJobs
    <3> QED
      BY <1>2, <3>1, <3>2, <3>3
  <2>2. UNCHANGED <<now, file, made, rows, sent, told>>
    BY <1>2 DEF InitLocks, InitGroup, InitAgents
  <2> QED
    BY <2>1, <2>2, MovingTyped
<1>3. ASSUME NEW g \in Groups, NEW a \in Agents, Register(p, g, a) \/ Heartbeat(p, g, a) PROVE TypeInv'
  <2>1. PICK next : JobOK(next) /\ Goto(p, next)
    BY <1>3, WritersMove
  <2> QED
    BY <1>3, <2>1, MovingTyped DEF Register, Heartbeat
<1>4. ASSUME NEW g \in Groups, NEW scope \in Scopes, NEW lease \in Leases, NEW force \in BOOLEAN,
             LockAcquire(p, g, scope, lease, force)
      PROVE  TypeInv'
  <2>1. PICK next : JobOK(next) /\ Goto(p, next)
    BY <1>4, WritersMove
  <2> QED
    BY <1>4, <2>1, MovingTyped DEF LockAcquire
<1>5. ASSUME NEW g \in Groups, NEW selection, LockRelease(p, g, selection) PROVE TypeInv'
  <2>1. PICK next : JobOK(next) /\ Goto(p, next)
    BY <1>5, WritersMove
  <2> QED
    BY <1>5, <2>1, MovingTyped DEF LockRelease
<1>6. ASSUME RegisterHeartbeat(p) PROVE TypeInv'
  <2>1. PICK next : JobOK(next) /\ Goto(p, next)
    BY <1>6, BeatMoves
  <2> QED
    BY <1>6, <2>1, MovingTyped DEF RegisterHeartbeat
<1> QED
  BY <1>1, <1>2, <1>3, <1>4, <1>5, <1>6, TruncateTyped, FlushTyped, TouchTyped DEF Rewrite

LEMMA LeaveKeeps ==
  ASSUME TypeInv, NEW p \in Procs, Leave(p)
  PROVE  TypeInv' /\ Goto(p, Idle) /\ UNCHANGED <<now, file, made, rows, sent, told>>
BY SimpleJobs, MovingTyped DEF Leave

LEMMA TickKeeps ==
  ASSUME TypeInv, Tick
  PROVE  TypeInv' /\ now' = now + 1 /\ now \in Nat /\ UNCHANGED <<file, made, rows, sent, job, told>>
BY CommAssumption DEF TypeInv, FileOK, Tick

LEMMA StepTyped == TypeInv /\ [Next]_vars => TypeInv'
<1> SUFFICES ASSUME TypeInv, [Next]_vars PROVE TypeInv'
  OBVIOUS
<1>1. CASE UNCHANGED vars
  BY <1>1 DEF vars, TypeInv, FileOK
<1>2. ASSUME NEW p \in Writers, Rewrite(p) PROVE TypeInv'
  BY <1>2, CommAssumption, RewriteTyped
<1> QED
  BY <1>1, <1>2, TickKeeps, LeaveKeeps, MailKeeps DEF Next

LEMMA Typed == Spec => []TypeInv
BY InitTyped, StepTyped, PTL DEF Spec

\* Files and mailboxes hold what their commands write, whatever commands
\* interleave and wherever they die: no list is taken for a file of another
\* kind, and every message is one that was sent.
THEOREM TypeCorrect == Spec => []TypeOK
<1>1. TypeInv => TypeOK
  <2> SUFFICES ASSUME TypeInv PROVE TypeOK
    OBVIOUS
  <2>1. Locks \in Seq(Lock) /\ \A g \in Groups : Registered(g) \subseteq Agents
    BY Reading DEF TypeInv
  <2>2. DOMAIN file = Files /\ \A f \in Files : file[f].state \in {"absent", "torn", "whole"}
    BY DEF TypeInv, FileOK
  <2> QED
    BY <2>1, <2>2 DEF TypeInv, TypeOK
<1> QED
  BY <1>1, Typed, PTL

-----------------------------------------------------------------------------
(***************************************************************************)
(* Overlapping locks are forced.                                           *)
(***************************************************************************)
\* Of two live locks of different groups in a list the later one is forced.
Forced(list) ==
  \A i, j \in DOMAIN list :
    /\ i < j /\ list[i].group # list[j].group
    /\ LockIsActive(list[i]) /\ LockIsActive(list[j])
    /\ ScopesOverlap(list[i].scope, list[j].scope)
    => list[j].force

WritingLocks(j) == j.step \in {"truncate", "flush"} /\ j.f = LocksFile

\* It holds of the list in the file, and of each that a command is about to
\* write: what a command was granted depends only on the list it has read.
ForcedInv ==
  /\ TypeInv
  /\ Forced(Locks)
  /\ \A p \in Procs : WritingLocks(job[p]) => Forced(job[p].data)

LEMMA Later ==
  ASSUME NEW list \in Seq(Lock), Forced(list), now \in Nat, now' \in Nat, now' >= now
  PROVE  Forced(list)'
<1>1. \A i \in DOMAIN list : LockIsActive(list[i])' => LockIsActive(list[i])
  <2> SUFFICES ASSUME NEW i \in DOMAIN list, LockIsActive(list[i])' PROVE LockIsActive(list[i])
    OBVIOUS
  <2>1. list[i] \in Lock
    OBVIOUS
  <2>2. list[i].expires \in Nat
    BY <2>1 DEF Lock
  <2> QED
    BY <2>2 DEF LockIsActive
<1> QED
  BY <1>1 DEF Forced

LEMMA AcquireForced ==
  ASSUME TypeInv, Forced(Locks), NEW p \in Procs, NEW g \in Groups, NEW scope \in Scopes,
         NEW lease \in Leases, NEW force \in BOOLEAN, LockAcquire(p, g, scope, lease, force)
  PROVE  Forced(Append(Locks, NewLock(g, scope, lease, force)))
<1>1. PICK lock : lock = NewLock(g, scope, lease, force)
  OBVIOUS
<1>2. lock \in Lock /\ lock.group = g /\ lock.scope = scope /\ lock.force = force
  BY <1>1, ListsAreLists DEF NewLock
<1>3. PICK list : list = Append(Locks, lock)
  OBVIOUS
<1>4. PICK n \in Nat : n = Len(Locks)
  BY ListsAreLists
<1>5. /\ DOMAIN list = 1..(n + 1) /\ list[n + 1] = lock
      /\ DOMAIN Locks = 1..n /\ \A i \in 1..n : list[i] = Locks[i]
  BY <1>2, <1>3, <1>4, ListsAreLists
<1>6. SUFFICES ASSUME NEW i \in DOMAIN list, NEW j \in DOMAIN list, i < j, list[i].group # list[j].group,
                      LockIsActive(list[i]), LockIsActive(list[j]),
                      ScopesOverlap(list[i].scope, list[j].scope)
               PROVE  list[j].force
  BY <1>1, <1>3 DEF Forced
<1>7. CASE j \in 1..n
  <2>1. i \in 1..n
    BY <1>5, <1>6, <1>7
  <2> QED
    BY <1>5, <1>6, <1>7, <2>1 DEF Forced
<1>8. CASE j = n + 1
  <2>1. i \in 1..n
    BY <1>5, <1>6, <1>8
  <2>2. i \in LockConflicts(g, scope)
    BY <1>2, <1>5, <1>6, <1>8, <2>1 DEF LockConflicts
  <2>3. force
    BY <2>2 DEF LockAcquire
  <2> QED
    BY <1>2, <1>5, <1>8, <2>3
<1> QED
  BY <1>5, <1>7, <1>8

LEMMA ReleaseForced ==
  ASSUME TypeInv, Forced(Locks), NEW g \in Groups, NEW selection
  PROVE  Forced(Released(g, selection))
<1>1. PICK list : list = Released(g, selection)
  OBVIOUS
<1>2. DOMAIN list = DOMAIN Locks
  BY <1>1, ListsAreLists
<1>3. ASSUME NEW i \in DOMAIN Locks
      PROVE  /\ list[i].group = Locks[i].group /\ list[i].scope = Locks[i].scope
             /\ list[i].force = Locks[i].force
             /\ LockIsActive(list[i]) => LockIsActive(Locks[i])
  <2>1. PICK lock \in Lock : lock = Locks[i]
    BY ListsAreLists
  <2>2. PICK new : new = [lock EXCEPT !.status = "released"]
    OBVIOUS
  <2>3. /\ new.group = lock.group /\ new.scope = lock.scope /\ new.force = lock.force
        /\ new.status = "released"
    BY <2>1, <2>2 DEF Lock
  <2>4. list[i] \in {new, lock}
    BY <1>1, <2>1, <2>2 DEF Released
  <2>5. ~LockIsActive(new)
    BY <2>3 DEF LockIsActive
  <2> QED
    BY <2>1, <2>3, <2>4, <2>5
<1>4. Forced(list)
  BY <1>2, <1>3 DEF Forced
<1> QED
  BY <1>1, <1>4

\* A step that leaves the clock and the lock list alone.
LEMMA MovingForced ==
  ASSUME ForcedInv, TypeInv', NEW p \in Procs, NEW next, Goto(p, next) \/ UNCHANGED job,
         Locks' = Locks, UNCHANGED now, WritingLocks(next) => Forced(next.data)
  PROVE  ForcedInv'
<1>1. DOMAIN job = Procs
  BY DEF ForcedInv, TypeInv
<1>2. Forced(Locks)'
  BY DEF ForcedInv, Forced, LockIsActive
<1>3. ASSUME NEW q \in Procs, WritingLocks(job'[q]) PROVE Forced(job[q].data)'
  <2>1. job'[q] = job[q] \/ job'[q] = next
    BY <1>1, Moves
  <2>2. Forced(job'[q].data)
    BY <1>3, <2>1 DEF ForcedInv, WritingLocks
  <2> QED
    BY <2>2 DEF Forced, LockIsActive
<1> QED
  BY <1>2, <1>3 DEF ForcedInv, WritingLocks

LEMMA RewriteForced ==
  ASSUME ForcedInv, NEW p \in Procs, Rewrite(p)
  PROVE  ForcedInv'
<1>0. TypeInv /\ TypeInv' /\ Forced(Locks)
  BY RewriteTyped DEF ForcedInv
<1>1. ASSUME NEW next, Goto(p, next), WritingLocks(next) => Forced(next.data), UNCHANGED <<now, file>>
      PROVE  ForcedInv'
  BY <1>0, <1>1, MovingForced DEF Locks
<1>2. Forced(<< >>)
  BY DEF Forced
<1>3. ASSUME NEW f, NEW data, NEW next, NEW report
      PROVE  WritingLocks(Rewriting(f, data, next, report)) =>
               f = LocksFile /\ Rewriting(f, data, next, report).data = data
  BY DEF WritingLocks, Rewriting
<1>4. \A g, boxes, next : ~WritingLocks(Touching(g, boxes, next))
  BY DEF WritingLocks, Touching
<1>5. ~WritingLocks(Idle) /\ \A j \in Inits : ~WritingLocks(j)
  BY DEF WritingLocks, Idle, Inits
<1>6. ASSUME NEW g \in Groups, InitGroupFiles(p, g) PROVE ForcedInv'
  BY <1>1, <1>4, <1>6, InitsMove DEF InitGroupFiles
<1>7. ASSUME InitLocks(p) PROVE ForcedInv'
  <2>1. job[p].g \in Groups /\ UNCHANGED <<now, file>>
    BY <1>0, <1>7, InitsMove DEF Inits, InitLocks
  <2>2. PICK next : next = [step |-> "init-group", g |-> job[p].g]
    OBVIOUS
  <2>3. ~WritingLocks(next)
    BY <1>5, <2>1, <2>2, SimpleJobs
  <2>4. Goto(p, Rewriting(LocksFile, << >>, next, Nothing)) \/ Goto(p, next)
    BY <1>7, <2>2 DEF InitLocks
  <2>5. WritingLocks(Rewriting(LocksFile, << >>, next, Nothing)) =>
          Forced(Rewriting(LocksFile, << >>, next, Nothing).data)
    BY <1>2, <1>3
  <2> QED
    BY <1>1, <2>1, <2>3, <2>4, <2>5
<1>8. ASSUME InitGroup(p) \/ InitAgents(p) PROVE ForcedInv'
  <2>1. job[p].g \in Groups /\ UNCHANGED <<now, file>>
    BY <1>0, <1>8, InitsMove DEF Inits, InitGroup, InitAgents
  <2>2. PICK next : Goto(p, next) /\ ~WritingLocks(next)
    <3>1. CASE InitGroup(p)
      BY <1>3, <2>1, <3>1, FilesDiffer DEF InitGroup
    <3>2. CASE InitAgents(p)
      BY <1>3, <1>5, <2>1, <3>2, FilesDiffer DEF InitAgents
    <3> QED
      BY <1>8, <3>1, <3>2
  <2> QED
    BY <1>1, <2>1, <2>2
<1>9. ASSUME NEW g \in Groups, NEW a \in Agents, Register(p, g, a) \/ Heartbeat(p, g, a) PROVE ForcedInv'
  <2>1. PICK next : Goto(p, next) /\ ~WritingLocks(next)
    BY <1>3, <1>9, FilesDiffer DEF Register, Heartbeat
  <2> QED
    BY <1>1, <1>9, <2>1 DEF Register, Heartbeat
<1>10. ASSUME NEW g \in Groups, NEW scope \in Scopes, NEW lease \in Leases, NEW force \in BOOLEAN,
              LockAcquire(p, g, scope, lease, force)
       PROVE  ForcedInv'
  <2>1. PICK next : /\ next = Rewriting(LocksFile, Append(Locks, NewLock(g, scope, lease, force)),
                                        Idle, [agents |-> {}, locks |-> 1])
                    /\ Goto(p, next)
    BY <1>0, <1>10, WritersMove
  <2>2. next.data = Append(Locks, NewLock(g, scope, lease, force))
    BY <2>1 DEF Rewriting
  <2>3. Forced(next.data)
    BY <1>0, <1>10, <2>2, AcquireForced
  <2> QED
    BY <1>1, <1>10, <2>1, <2>3 DEF LockAcquire
<1>11. ASSUME NEW g \in Groups, NEW selection, LockRelease(p, g, selection) PROVE ForcedInv'
  <2>1. PICK next : /\ next = Rewriting(LocksFile, Released(g, selection), Idle, Nothing)
                    /\ Goto(p, next)
    BY <1>0, <1>11, WritersMove
  <2>2. next.data = Released(g, selection)
    BY <2>1 DEF Rewriting
  <2>3. Forced(next.data)
    BY <1>0, <2>2, ReleaseForced
  <2> QED
    BY <1>1, <1>11, <2>1, <2>3 DEF LockRelease
<1>15. ASSUME RegisterHeartbeat(p) PROVE ForcedInv'
  <2>1. PICK next : Goto(p, next) /\ ~WritingLocks(next)
    BY <1>0, <1>3, <1>5, <1>15, BeatMoves, FilesDiffer
  <2> QED
    BY <1>1, <1>15, <2>1 DEF RegisterHeartbeat
<1>12. ASSUME Truncate(p) PROVE ForcedInv'
  <2>1. WriteOK(job[p]) /\ job[p].step = "truncate"
    BY <1>0, <1>12, Shapes DEF Truncate, TypeInv
  <2>2. PICK next : next = [job[p] EXCEPT !.step = "flush"]
    OBVIOUS
  <2>3. next.f = job[p].f /\ next.data = job[p].data /\ Goto(p, next)
    BY <1>12, <2>1, <2>2 DEF Truncate, WriteOK, Writes
  <2>4. WritingLocks(next) => Forced(next.data)
    BY <2>1, <2>3 DEF ForcedInv, WritingLocks
  <2>5. Locks' = Locks /\ UNCHANGED now
    BY <1>0, <1>12, FilesDiffer DEF Truncate, Locks, TypeInv, FileOK
  <2> QED
    BY <1>0, <2>3, <2>4, <2>5, MovingForced
<1>13. ASSUME Flush(p) PROVE ForcedInv'
  <2>1. PICK j : j = job[p]
    OBVIOUS
  <2>2. /\ WriteOK(j) /\ j.step = "flush" /\ JobOK(j.next) /\ Goto(p, j.next)
        /\ (j.f = LocksFile => Locks' = j.data)
        /\ (j.f # LocksFile => Locks' = Locks)
    <3>1. /\ WriteOK(j) /\ j.step = "flush" /\ JobOK(j.next) /\ Goto(p, j.next)
          /\ file'[j.f] = [state |-> "whole", data |-> j.data]
          /\ \A f \in Files \ {j.f} : file'[f] = file[f]
      BY <1>0, <1>13, <2>1, FlushDoes
    <3>2. j.f = LocksFile => Locks' = j.data
      BY <3>1 DEF Locks
    <3>3. j.f # LocksFile => Locks' = Locks
      BY <3>1, FilesDiffer DEF Locks
    <3> QED
      BY <3>1, <3>2, <3>3
  <2>3. ~WritingLocks(j.next)
    BY <2>2 DEF WriteOK, Writes, AfterWrite, Idle, Inits, Touches, WritingLocks
  <2>4. DOMAIN job = Procs /\ UNCHANGED now
    BY <1>0, <1>13 DEF TypeInv, Flush
  <2>5. Forced(Locks')
    BY <1>0, <2>1, <2>2 DEF ForcedInv, WritingLocks
  <2>6. Forced(Locks)'
    BY <2>4, <2>5 DEF Forced, LockIsActive
  <2>7. ASSUME NEW q \in Procs, WritingLocks(job'[q]) PROVE Forced(job[q].data)'
    <3>1. job'[q] = job[q]
      BY <2>2, <2>3, <2>4, <2>7, Moves
    <3>2. Forced(job'[q].data)
      BY <2>7, <3>1 DEF ForcedInv
    <3> QED
      BY <2>4, <3>2 DEF Forced, LockIsActive
  <2> QED
    BY <1>0, <2>6, <2>7 DEF ForcedInv, WritingLocks
<1>14. ASSUME Touch(p) \/ EmptyBox(p) PROVE ForcedInv'
  <2>1. TouchOK(job[p])
    BY <1>0, <1>14, Shapes DEF Touch, EmptyBox, TypeInv
  <2>2. PICK next : Goto(p, next) /\ next.step \notin {"truncate", "flush"}
    <3>1. job[p] \in Touches /\ job[p].next.step \notin {"truncate", "flush"}
      BY <2>1 DEF TouchOK, Touches, AfterTouch, Beats, Idle
    <3>2. /\ [job[p] EXCEPT !.step = "touch", !.boxes = Tail(@)].step = "touch"
          /\ [job[p] EXCEPT !.step = "empty"].step = "empty"
          /\ job[p].step = "touch" => [job[p] EXCEPT !.boxes = Tail(@)].step = "touch"
      BY <3>1 DEF Touches
    <3> QED
      BY <1>14, <3>1, <3>2 DEF Touch, EmptyBox
  <2> QED
    BY <1>1, <1>14, <2>2 DEF Touch, EmptyBox, WritingLocks
<1> QED
  BY <1>6, <1>7, <1>8, <1>9, <1>10, <1>11, <1>12, <1>13, <1>14, <1>15 DEF Rewrite

LEMMA StepForced == ForcedInv /\ [Next]_vars => ForcedInv'
<1> SUFFICES ASSUME ForcedInv, [Next]_vars PROVE ForcedInv'
  OBVIOUS
<1>0. TypeInv /\ TypeInv'
  BY StepTyped DEF ForcedInv
<1>1. CASE UNCHANGED vars
  BY <1>0, <1>1 DEF vars, ForcedInv, Forced, LockIsActive, WritingLocks, Locks
<1>2. CASE Tick
  <2>1. now \in Nat /\ now' \in Nat /\ now' >= now /\ UNCHANGED <<file, job>>
    BY <1>0, <1>2, TickKeeps
  <2>2. PICK list : list = Locks
    OBVIOUS
  <2>3. list \in Seq(Lock) /\ Forced(list)
    BY <1>0, <2>2, Reading DEF TypeInv, ForcedInv
  <2>4. Forced(Locks)'
    <3>1. Forced(list)'
      BY <2>1, <2>3, Later
    <3>2. Locks' = list
      BY <2>1, <2>2 DEF Locks
    <3> QED
      BY <3>1, <3>2 DEF Forced, LockIsActive
  <2>5. ASSUME NEW q \in Procs, WritingLocks(job[q]) PROVE Forced(job[q].data)'
    <3>1. PICK data : data = job[q].data
      OBVIOUS
    <3>2. data \in Seq(Lock) /\ Forced(data)
      BY <1>0, <2>5, <3>1, Shapes DEF TypeInv, ForcedInv, WritingLocks, WriteOK, Fits
    <3>3. Forced(data)'
      BY <2>1, <3>2, Later
    <3>4. job'[q].data = data
      BY <2>1, <3>1
    <3> QED
      BY <3>3, <3>4 DEF Forced, LockIsActive
  <2> QED
    BY <1>0, <2>1, <2>4, <2>5 DEF ForcedInv, WritingLocks
<1>3. ASSUME NEW p \in Procs, Mail(p) PROVE ForcedInv'
  <2>1. PICK next : MailJob(next) /\ (Goto(p, next) \/ UNCHANGED job)
    BY <1>0, <1>3, MailKeeps
  <2>2. ~WritingLocks(next)
    BY <2>1 DEF MailJob, WritingLocks
  <2>3. Locks' = Locks /\ UNCHANGED now
    BY <1>0, <1>3, MailKeeps DEF Locks
  <2> QED
    BY <1>0, <2>1, <2>2, <2>3, MovingForced
<1>4. ASSUME NEW p \in Procs, Leave(p) PROVE ForcedInv'
  <2>1. Goto(p, Idle) /\ Locks' = Locks /\ UNCHANGED now
    BY <1>0, <1>4, LeaveKeeps DEF Locks
  <2>2. ~WritingLocks(Idle)
    BY DEF WritingLocks, Idle
  <2> QED
    BY <1>0, <2>1, <2>2, MovingForced
<1> QED
  BY <1>1, <1>2, <1>3, <1>4, RewriteForced, CommAssumption DEF Next

\* Two live locks of different groups that overlap are there because the later
\* one was forced, however many commands rewrite the lock list at once, and
\* although they overwrite each other: none of them ever writes another list.
THEOREM OverlapsForced == Spec => []OverlapsAreForced
<1>1. Init => ForcedInv
  <2> SUFFICES ASSUME Init PROVE ForcedInv
    OBVIOUS
  <2>1. Locks = << >>
    BY FilesDiffer DEF Init, Locks
  <2>2. \A p \in Procs : ~WritingLocks(job[p])
    BY DEF Init, Idle, WritingLocks
  <2> QED
    BY <2>1, <2>2, InitTyped DEF ForcedInv, Forced
<1>2. ForcedInv => OverlapsAreForced
  <2> SUFFICES ASSUME Forced(Locks) PROVE OverlapsAreForced
    BY DEF ForcedInv
  <2>1. ASSUME NEW pair \in LockConflictPairs PROVE Locks[pair[2]].force
    BY <2>1 DEF LockConflictPairs, Forced
  <2> QED
    BY <2>1 DEF OverlapsAreForced
<1> QED
  BY <1>1, <1>2, StepForced, PTL DEF Spec

-----------------------------------------------------------------------------
(***************************************************************************)
(* What commands reported is kept, unless two rewrite one file at once.    *)
(***************************************************************************)
Rewrites(p, f) == job[p].step \in {"truncate", "flush"} /\ job[p].f = f

\* No file has two commands between their reading it and their having written it.
NoneOvertaken ==
  \A p, q \in Procs : \A f \in Files : Rewrites(p, f) /\ Rewrites(q, f) => p = q

MainBoxes == {Outbox("main"), Inbox("main"), Broadcasts}

HasMail(g) == \A box \in MainBoxes : <<g, box>> \in made

Exists(f) == file[f].state # "absent"

\* What a command is about to write keeps what was told and adds what it will
\* tell, and it writes the file of a group after the mailboxes.
WriteKept(j) ==
  /\ j.f = LocksFile => told.locks + j.report.locks <= Len(j.data)
  /\ j.f # LocksFile => j.report.locks = 0
  /\ \A g \in Groups, a \in Agents :
       /\ <<g, a>> \in j.report.agents => j.f = AgentsFile(g) /\ Exists(GroupFile(g))
       /\ j.f = AgentsFile(g) /\ <<g, a>> \in told.agents \cup j.report.agents => a \in j.data
  /\ \A g \in Groups : j.f = GroupFile(g) => HasMail(g)
  /\ j.next.step \in {"init-locks", "init-group"} => HasMail(j.next.g)
  /\ j.next.step = "touch" => j.next.next.step # "init-locks"

\* Of the mailboxes of main those that do not exist are still to be made.
TouchKept(j) ==
  \/ j.next.step # "init-locks"
  \/ /\ j.next.g = j.g
     /\ \A box \in MainBoxes : <<j.g, box>> \in made \/ \E i \in 1..Len(j.boxes) : j.boxes[i] = box

JobKept(j) ==
  /\ j.step \in {"truncate", "flush"} => WriteKept(j)
  /\ j.step \in {"touch", "empty"} => TouchKept(j)
  /\ j.step \in {"init-locks", "init-group"} => HasMail(j.g)

ToldKept ==
  /\ told.locks <= Len(Locks)
  /\ ~Exists(LocksFile) => told.locks = 0
  /\ \A g \in Groups, a \in Agents :
       <<g, a>> \in told.agents => a \in Registered(g) /\ Exists(GroupFile(g)) /\ Exists(AgentsFile(g))
  /\ \A g \in Groups : Exists(GroupFile(g)) => HasMail(g)

KeptInv ==
  /\ TypeInv
  /\ ToldKept
  /\ \A p \in Procs : JobKept(job[p])

LEMMA InitKept == Init => KeptInv
<1> SUFFICES ASSUME Init PROVE KeptInv
  OBVIOUS
<1>1. TypeInv /\ told.locks = 0 /\ told.agents = {} /\ Locks \in Seq(Lock)
  BY InitTyped, Reading DEF Init, Nothing, TypeInv
<1>2. ASSUME NEW g \in Groups, Exists(GroupFile(g)) PROVE HasMail(g)
  <2>1. GroupFile(g) \in {LocksFile} \cup {GroupFile(h) : h \in Founded} \cup {AgentsFile(h) : h \in Founded}
    BY <1>2, FilesDiffer DEF Init, Exists
  <2>2. g \in Founded
    BY <2>1, FilesDiffer, CommAssumption
  <2> QED
    BY <2>2 DEF Init, HasMail, MainBoxes
<1>3. ASSUME NEW p \in Procs PROVE JobKept(job[p])
  BY DEF Init, Idle, JobKept
<1> QED
  BY <1>1, <1>2, <1>3 DEF KeptInv, ToldKept

\* No file and no mailbox disappears, and no data changes.
OnlyAdds ==
  /\ \A f \in Files : file'[f].data = file[f].data /\ (Exists(f) => Exists(f)')
  /\ made \subseteq made' /\ told' = told

LEMMA JobStaysKept ==
  ASSUME OnlyAdds, NEW j, JobKept(j)
  PROVE  JobKept(j)'
<1>1. \A g \in Groups : (HasMail(g) => HasMail(g)') /\ (Exists(GroupFile(g)) => Exists(GroupFile(g))')
  BY FilesDiffer DEF OnlyAdds, HasMail
<1>2. \A g : HasMail(g) => HasMail(g)'
  BY DEF OnlyAdds, HasMail
<1>3. WriteKept(j) => WriteKept(j)'
  BY <1>1, <1>2 DEF OnlyAdds, WriteKept
<1>4. TouchKept(j) => TouchKept(j)'
  BY DEF OnlyAdds, TouchKept
<1> QED
  BY <1>2, <1>3, <1>4 DEF JobKept

\* A step that only adds.
LEMMA MovingKept ==
  ASSUME KeptInv, TypeInv', OnlyAdds, NEW p \in Procs, NEW next, Goto(p, next) \/ UNCHANGED job,
         JobKept(next) \/ JobKept(next)',
         \A g \in Groups : Exists(GroupFile(g))' => Exists(GroupFile(g)) \/ HasMail(g)
  PROVE  KeptInv'
<1>1. DOMAIN job = Procs
  BY DEF KeptInv, TypeInv
<1>2. Locks' = Locks /\ \A g \in Groups : Registered(g)' = Registered(g)
  BY FilesDiffer DEF OnlyAdds, Locks, Registered
<1>3. ToldKept'
  <2>1. \A g \in Groups : Exists(GroupFile(g))' => HasMail(g)'
    BY DEF KeptInv, ToldKept, OnlyAdds, HasMail
  <2>2. ~Exists(LocksFile)' => ~Exists(LocksFile)
    BY FilesDiffer DEF OnlyAdds
  <2>3. \A g \in Groups : (Exists(GroupFile(g)) => Exists(GroupFile(g))')
                            /\ (Exists(AgentsFile(g)) => Exists(AgentsFile(g))')
    BY FilesDiffer DEF OnlyAdds
  <2> QED
    BY <1>2, <2>1, <2>2, <2>3 DEF KeptInv, ToldKept, OnlyAdds
<1>4. JobKept(next)'
  BY JobStaysKept
<1>5. ASSUME NEW q \in Procs PROVE JobKept(job[q])'
  <2>1. CASE job'[q] = job[q]
    <3>1. PICK j : j = job[q]
      OBVIOUS
    <3>2. JobKept(j)'
      BY <3>1, JobStaysKept DEF KeptInv
    <3>3. job'[q] = j
      BY <2>1, <3>1
    <3>4. JobKept(job[q])'
      BY <3>2, <3>3 DEF JobKept, WriteKept, TouchKept
    <3> QED
      BY <3>4
  <2>2. CASE q = p /\ job'[q] = next
    BY <1>4, <2>2 DEF JobKept, WriteKept, TouchKept
  <2> QED
    BY <1>1, <2>1, <2>2, Moves
<1> QED
  BY <1>3, <1>5 DEF KeptInv

LEMMA FlushKept ==
  ASSUME NoneOvertaken, KeptInv, NEW p \in Writers, Flush(p)
  PROVE  KeptInv'
<1>0. p \in Procs /\ TypeInv /\ TypeInv' /\ DOMAIN job = Procs
  BY FlushTyped, CommAssumption DEF KeptInv, TypeInv
<1>1. PICK j : j = job[p]
  OBVIOUS
<1>2. /\ WriteOK(j) /\ j.step = "flush" /\ j.f \in Files /\ Goto(p, j.next)
      /\ file'[j.f] = [state |-> "whole", data |-> j.data]
      /\ \A f \in Files \ {j.f} : file'[f] = file[f]
  BY <1>0, <1>1, FlushDoes
<1>3. WriteKept(j) /\ j.report \in Report /\ told \in Report /\ j.data \in Data
  BY <1>0, <1>1, <1>2 DEF KeptInv, JobKept, WriteOK, Writes, TypeInv
<1>4. told'.agents = told.agents \cup j.report.agents /\ told'.locks = told.locks + j.report.locks
      /\ UNCHANGED made
  BY <1>1 DEF Flush
<1>5. /\ Exists(j.f)' /\ (\A f \in Files : Exists(f) => Exists(f)')
      /\ \A f \in Files \ {j.f} : Exists(f)' = Exists(f)
  BY <1>2 DEF Exists
<1>6. told'.locks <= Len(Locks') /\ (~Exists(LocksFile)' => told'.locks = 0)
  <2>1. CASE j.f = LocksFile
    BY <1>2, <1>3, <1>4, <1>5, <2>1 DEF WriteKept, Locks
  <2>2. CASE j.f # LocksFile
    <3>1. Locks' = Locks /\ Exists(LocksFile)' = Exists(LocksFile)
      BY <1>2, <1>5, <2>2, FilesDiffer DEF Locks
    <3>2. told'.locks = told.locks
      BY <1>3, <1>4, <2>2 DEF WriteKept, Report
    <3> QED
      BY <3>1, <3>2 DEF KeptInv, ToldKept
  <2> QED
    BY <2>1, <2>2
<1>7. ASSUME NEW g \in Groups, NEW a \in Agents, <<g, a>> \in told'.agents
      PROVE  a \in Registered(g)' /\ Exists(GroupFile(g))' /\ Exists(AgentsFile(g))'
  <2>1. <<g, a>> \in told.agents \/ <<g, a>> \in j.report.agents
    BY <1>4, <1>7
  <2>2. CASE j.f = AgentsFile(g)
    <3>1. a \in j.data
      BY <1>3, <2>1, <2>2 DEF WriteKept
    <3>2. Exists(GroupFile(g))
      BY <1>3, <2>1 DEF WriteKept, KeptInv, ToldKept
    <3> QED
      BY <1>2, <1>5, <2>2, <3>1, <3>2, FilesDiffer DEF Registered
  <2>3. CASE j.f # AgentsFile(g)
    <3>1. <<g, a>> \in told.agents
      BY <1>3, <2>1, <2>3 DEF WriteKept
    <3>2. a \in Registered(g) /\ Exists(GroupFile(g)) /\ Exists(AgentsFile(g))
      BY <3>1 DEF KeptInv, ToldKept
    <3> QED
      BY <1>2, <1>5, <2>3, <3>2, FilesDiffer DEF Registered
  <2> QED
    BY <2>2, <2>3
<1>8. ASSUME NEW g \in Groups, Exists(GroupFile(g))' PROVE HasMail(g)'
  <2>1. HasMail(g)
    BY <1>3, <1>5, <1>8, FilesDiffer DEF WriteKept, KeptInv, ToldKept
  <2> QED
    BY <1>4, <2>1 DEF HasMail
<1>9. JobKept(j.next)'
  <2>1. j.next.step \in {"idle", "init-locks", "init-group", "init-agents", "touch"}
    BY <1>2 DEF WriteOK, Writes, AfterWrite, Idle, Inits, Touches
  <2>2. j.next.step \in {"init-locks", "init-group"} => HasMail(j.next.g)
    BY <1>3 DEF WriteKept
  <2>3. j.next.step = "touch" => j.next.next.step # "init-locks"
    BY <1>3 DEF WriteKept
  <2> QED
    BY <1>4, <2>1, <2>2, <2>3 DEF JobKept, TouchKept, HasMail
<1>10. ASSUME NEW q \in Procs PROVE JobKept(job[q])'
  <2>1. CASE q = p
    <3>1. job'[q] = j.next
      BY <1>0, <1>2, <2>1, Moves
    <3> QED
      BY <1>9, <2>1, <3>1 DEF JobKept, WriteKept, TouchKept
  <2>2. CASE q # p
    <3>1. PICK k : k = job[q]
      OBVIOUS
    <3>2. job'[q] = k /\ JobKept(k)
      BY <1>0, <1>2, <2>2, <3>1, Moves DEF KeptInv
    <3>3. k.step \in {"truncate", "flush"} => k.f # j.f
      BY <1>0, <1>1, <1>2, <2>2, <3>1 DEF NoneOvertaken, Rewrites
    <3>4. k.step \in {"truncate", "flush"} => WriteKept(k)'
      <4> SUFFICES ASSUME WriteKept(k), k.f # j.f PROVE WriteKept(k)'
        BY <3>2, <3>3 DEF JobKept
      <4>1. k.f = LocksFile => told'.locks = told.locks
        BY <1>3, <1>4 DEF WriteKept, Report
      <4>2. \A g \in Groups, a \in Agents :
              k.f = AgentsFile(g) /\ <<g, a>> \in told'.agents => <<g, a>> \in told.agents
        BY <1>3, <1>4 DEF WriteKept
      <4>3. \A g \in Groups : Exists(GroupFile(g)) => Exists(GroupFile(g))'
        BY <1>5, FilesDiffer
      <4>4. \A g : HasMail(g)' = HasMail(g)
        BY <1>4 DEF HasMail
      <4> QED
        BY <4>1, <4>2, <4>3, <4>4 DEF WriteKept
    <3>5. (TouchKept(k) => TouchKept(k)') /\ (HasMail(k.g) => HasMail(k.g)')
      BY <1>4 DEF TouchKept, HasMail
    <3>6. JobKept(k)'
      BY <3>2, <3>4, <3>5 DEF JobKept
    <3> QED
      BY <3>2, <3>6 DEF JobKept, WriteKept, TouchKept
  <2> QED
    BY <2>1, <2>2
<1> QED
  BY <1>0, <1>6, <1>7, <1>8, <1>10 DEF KeptInv, ToldKept

LEMMA TouchesKept ==
  ASSUME KeptInv, NEW p \in Writers, Touch(p) \/ EmptyBox(p)
  PROVE  KeptInv'
<1>0. p \in Procs /\ TypeInv /\ TypeInv'
  BY TouchTyped, CommAssumption DEF KeptInv
<1>1. PICK j : j = job[p]
  OBVIOUS
<1>2. j \in Touches /\ TouchKept(j) /\ (j.step = "empty" => j.boxes # << >>) /\ j.step \in {"touch", "empty"}
  BY <1>0, <1>1, Shapes DEF KeptInv, TypeInv, JobKept, Touch, EmptyBox, TouchOK
<1>3. OnlyAdds /\ UNCHANGED file
  BY <1>0 DEF Touch, EmptyBox, OnlyAdds, Exists
<1>4. \A g \in Groups : Exists(GroupFile(g))' => Exists(GroupFile(g))
  BY <1>3 DEF Exists
<1>5. ASSUME NEW next, next = [j EXCEPT !.step = "touch", !.boxes = Tail(@)], j.boxes # << >>,
             <<j.g, Head(j.boxes)>> \in made'
      PROVE  JobKept(next)'
  <2>1. next.step = "touch" /\ next.g = j.g /\ next.next = j.next /\ next.boxes = Tail(j.boxes)
    BY <1>2, <1>5 DEF Touches
  <2>2. j.boxes \in Seq(Boxes)
    BY <1>2 DEF Touches
  <2>3. ASSUME NEW box, NEW i \in 1..Len(j.boxes), j.boxes[i] = box, <<j.g, box>> \notin made'
        PROVE  \E k \in 1..Len(next.boxes) : next.boxes[k] = box
    <3>1. i # 1
      BY <1>5, <2>2, <2>3
    <3>2. i - 1 \in 1..Len(Tail(j.boxes)) /\ Tail(j.boxes)[i - 1] = j.boxes[i]
      BY <1>5, <2>2, <2>3, <3>1, HeadTailProperties
    <3> QED
      BY <2>1, <2>3, <3>2
  <2>4. TouchKept(next)'
    BY <1>2, <1>3, <2>1, <2>3 DEF TouchKept, OnlyAdds
  <2> QED
    BY <2>1, <2>4 DEF JobKept
<1>6. CASE EmptyBox(p)
  <2>1. PICK next : next = [j EXCEPT !.step = "touch", !.boxes = Tail(@)]
    OBVIOUS
  <2>2. Goto(p, next) /\ <<j.g, Head(j.boxes)>> \in made' /\ j.boxes # << >>
    BY <1>1, <1>2, <1>6, <2>1 DEF EmptyBox
  <2>3. JobKept(next)'
    BY <1>5, <2>1, <2>2
  <2> QED
    BY <1>0, <1>3, <1>4, <2>2, <2>3, MovingKept
<1>7. CASE Touch(p)
  <2>0. j.step = "touch" /\ UNCHANGED made
    BY <1>1, <1>7 DEF Touch
  <2>1. CASE j.boxes = << >>
    <3>1. Goto(p, j.next)
      BY <1>1, <1>7, <2>1 DEF Touch
    <3>2. j.next.step # "init-locks" \/ (j.next.g = j.g /\ HasMail(j.g))
      BY <1>2, <2>1 DEF TouchKept, HasMail
    <3>3. j.next.step \in {"idle", "init-locks", "first-heartbeat"}
      BY <1>2 DEF Touches, AfterTouch, Beats, Idle
    <3>4. JobKept(j.next)
      BY <3>2, <3>3 DEF JobKept
    <3> QED
      BY <1>0, <1>3, <1>4, <3>1, <3>4, MovingKept
  <2>2. CASE j.boxes # << >> /\ <<j.g, Head(j.boxes)>> \in made
    <3>1. PICK next : next = [j EXCEPT !.boxes = Tail(@)]
      OBVIOUS
    <3>2. next = [j EXCEPT !.step = "touch", !.boxes = Tail(@)]
      BY <1>2, <2>0, <3>1 DEF Touches
    <3>3. Goto(p, next)
      BY <1>1, <1>7, <2>2, <3>1 DEF Touch
    <3>4. JobKept(next)'
      BY <1>5, <2>0, <2>2, <3>2
    <3> QED
      BY <1>0, <1>3, <1>4, <3>3, <3>4, MovingKept
  <2>3. CASE j.boxes # << >> /\ <<j.g, Head(j.boxes)>> \notin made
    <3>1. PICK next : next = [j EXCEPT !.step = "empty"]
      OBVIOUS
    <3>2. next.step = "empty" /\ next.g = j.g /\ next.next = j.next /\ next.boxes = j.boxes
      BY <1>2, <3>1 DEF Touches
    <3>3. Goto(p, next)
      BY <1>1, <1>7, <2>3, <3>1 DEF Touch
    <3>4. JobKept(next)
      BY <1>2, <3>2 DEF JobKept, TouchKept
    <3> QED
      BY <1>0, <1>3, <1>4, <3>3, <3>4, MovingKept
  <2> QED
    BY <2>1, <2>2, <2>3
<1> QED
  BY <1>6, <1>7

\* What a command may begin to write over f.
MayWrite(f, data, next, report) ==
  /\ next.step \in {"idle", "init-locks", "init-group", "init-agents"} 
       \/ (next.step = "touch" /\ next.next.step # "init-locks")
  /\ f = LocksFile => told.locks + report.locks <= Len(data)
  /\ f # LocksFile => report.locks = 0
  /\ \A g \in Groups, a \in Agents :
       /\ <<g, a>> \in report.agents => f = AgentsFile(g) /\ Exists(GroupFile(g))
       /\ f = AgentsFile(g) /\ <<g, a>> \in told.agents \cup report.agents => a \in data
  /\ \A g \in Groups : f = GroupFile(g) => HasMail(g)

LEMMA RewritingKept ==
  ASSUME NEW f, NEW data, NEW next, NEW report, JobKept(next), MayWrite(f, data, next, report)
  PROVE  JobKept(Rewriting(f, data, next, report))
<1>1. PICK j : j = Rewriting(f, data, next, report)
  OBVIOUS
<1>2. j.step = "truncate" /\ j.f = f /\ j.data = data /\ j.next = next /\ j.report = report
  BY <1>1 DEF Rewriting
<1>3. next.step \in {"init-locks", "init-group"} => HasMail(next.g)
  BY DEF JobKept
<1>4. WriteKept(j)
  BY <1>2, <1>3 DEF WriteKept, MayWrite
<1>5. JobKept(j)
  BY <1>2, <1>4 DEF JobKept
<1> QED
  BY <1>1, <1>5

LEMMA CommandsKept ==
  ASSUME KeptInv, NEW p \in Writers, Rewrite(p), ~Truncate(p), ~Flush(p), ~Touch(p), ~EmptyBox(p)
  PROVE  KeptInv'
<1>0. p \in Procs /\ TypeInv /\ TypeInv' /\ Locks \in Seq(Lock) /\ told \in Report /\ told.locks \in Nat
  BY RewriteTyped, Reading, CommAssumption DEF KeptInv, TypeInv, Report
<1>1. ASSUME UNCHANGED <<file, made, told>>, NEW next, Goto(p, next), JobKept(next) PROVE KeptInv'
  <2>1. OnlyAdds /\ \A g \in Groups : Exists(GroupFile(g))' => Exists(GroupFile(g))
    BY <1>1 DEF OnlyAdds, Exists
  <2> QED
    BY <1>0, <1>1, <2>1, MovingKept
<1>2. JobKept(Idle) /\ Idle.step = "idle" /\ Nothing.locks = 0 /\ Nothing.agents = {}
  BY DEF JobKept, Idle, Nothing
<1>3. ASSUME NEW g \in Groups, InitGroupFiles(p, g) PROVE KeptInv'
  <2>1. PICK boxes \in Seq(Boxes) :
          /\ boxes = <<Outbox("main"), Inbox("main"), Broadcasts>>
          /\ Goto(p, Touching(g, boxes, [step |-> "init-locks", g |-> g]))
    BY <1>0, <1>3, InitsMove
  <2>2. \A box \in MainBoxes : \E i \in 1..Len(boxes) : boxes[i] = box
    <3>1. Len(boxes) = 3 /\ boxes[1] = Outbox("main") /\ boxes[2] = Inbox("main") /\ boxes[3] = Broadcasts
      BY <2>1
    <3>2. 1 \in 1..Len(boxes) /\ 2 \in 1..Len(boxes) /\ 3 \in 1..Len(boxes)
      BY <3>1
    <3> QED
      BY <3>1, <3>2 DEF MainBoxes
  <2>3. JobKept(Touching(g, boxes, [step |-> "init-locks", g |-> g]))
    BY <2>2 DEF JobKept, TouchKept, Touching
  <2> QED
    BY <1>1, <1>3, <2>1, <2>3 DEF InitGroupFiles
<1>4. ASSUME InitLocks(p) PROVE KeptInv'
  <2>1. PICK g \in Groups : g = job[p].g
    BY <1>0, <1>4, InitsMove DEF Inits
  <2>2. PICK next : next = [step |-> "init-group", g |-> g]
    OBVIOUS
  <2>3. HasMail(g) /\ next.step = "init-group" /\ next.g = g
    BY <1>0, <1>4, <2>1, <2>2 DEF KeptInv, JobKept, InitLocks
  <2>4. JobKept(next)
    BY <2>3 DEF JobKept
  <2>5. CASE Exists(LocksFile)
    <3>1. Goto(p, next)
      BY <1>4, <2>1, <2>2, <2>5 DEF InitLocks, Exists
    <3> QED
      BY <1>1, <1>4, <2>4, <3>1 DEF InitLocks
  <2>6. CASE ~Exists(LocksFile)
    <3>1. Goto(p, Rewriting(LocksFile, << >>, next, Nothing))
      BY <1>4, <2>1, <2>2, <2>6 DEF InitLocks, Exists
    <3>2. told.locks + Nothing.locks <= Len(<< >>)
      BY <1>2, <2>6 DEF KeptInv, ToldKept
    <3>3. JobKept(Rewriting(LocksFile, << >>, next, Nothing))
      <4>1. MayWrite(LocksFile, << >>, next, Nothing)
        BY <1>2, <2>3, <2>4, <3>2, FilesDiffer DEF MayWrite
      <4> QED
        BY <2>4, <4>1, RewritingKept
    <3> QED
      BY <1>1, <1>4, <3>1, <3>3 DEF InitLocks
  <2> QED
    BY <2>5, <2>6
<1>5. ASSUME InitGroup(p) PROVE KeptInv'
  <2>1. PICK g \in Groups : g = job[p].g
    BY <1>0, <1>5, InitsMove DEF Inits
  <2>2. PICK next : next = [step |-> "init-agents", g |-> g]
    OBVIOUS
  <2>3. JobKept(next) /\ next.step = "init-agents" /\ HasMail(g)
    BY <1>0, <1>5, <2>1, <2>2 DEF KeptInv, JobKept, InitGroup
  <2>4. JobKept(Rewriting(GroupFile(g), {}, next, Nothing))
    <3>1. MayWrite(GroupFile(g), {}, next, Nothing)
      BY <1>2, <2>3, FilesDiffer DEF MayWrite
    <3> QED
      BY <2>3, <3>1, RewritingKept
  <2>5. Goto(p, Rewriting(GroupFile(g), {}, next, Nothing))
    BY <1>5, <2>1, <2>2 DEF InitGroup
  <2> QED
    BY <1>1, <1>5, <2>4, <2>5 DEF InitGroup
<1>6. ASSUME InitAgents(p) PROVE KeptInv'
  <2>1. PICK g \in Groups : g = job[p].g
    BY <1>0, <1>6, InitsMove DEF Inits
  <2>2. CASE Exists(AgentsFile(g))
    <3>1. Goto(p, Idle)
      BY <1>6, <2>1, <2>2 DEF InitAgents, Exists
    <3> QED
      BY <1>1, <1>2, <1>6, <3>1 DEF InitAgents
  <2>3. CASE ~Exists(AgentsFile(g))
    <3>1. Goto(p, Rewriting(AgentsFile(g), {}, Idle, Nothing))
      BY <1>6, <2>1, <2>3 DEF InitAgents, Exists
    <3>2. \A h \in Groups, a \in Agents : AgentsFile(g) = AgentsFile(h) => <<h, a>> \notin told.agents
      BY <2>3, FilesDiffer DEF KeptInv, ToldKept
    <3>3. JobKept(Rewriting(AgentsFile(g), {}, Idle, Nothing))
      <4>1. MayWrite(AgentsFile(g), {}, Idle, Nothing)
        BY <1>2, <3>2, FilesDiffer DEF MayWrite
      <4> QED
        BY <1>2, <4>1, RewritingKept
    <3> QED
      BY <1>1, <1>6, <3>1, <3>3 DEF InitAgents
  <2> QED
    BY <2>2, <2>3
<1>7. ASSUME NEW g \in Groups, NEW a \in Agents, Register(p, g, a) PROVE KeptInv'
  <2>0. PICK last : last = [step |-> "first-heartbeat", g |-> g, a |-> a]
    OBVIOUS
  <2>1. PICK next : next = Touching(g, <<Inbox(a), Outbox(a), Artifacts(a)>>, last)
    OBVIOUS
  <2>2. JobKept(next) /\ next.step = "touch" /\ next.next.step # "init-locks"
    BY <2>0, <2>1 DEF Touching, JobKept, TouchKept
  <2>3. PICK report : report = [agents |-> {<<g, a>>}, locks |-> 0]
    OBVIOUS
  <2>4. report.agents = {<<g, a>>} /\ report.locks = 0
    BY <2>3
  <2>5. Exists(GroupFile(g))
    BY <1>7 DEF Register, IsWhole, Exists
  <2>6. \A h \in Groups, b \in Agents :
          /\ <<h, b>> \in report.agents => AgentsFile(g) = AgentsFile(h) /\ Exists(GroupFile(h))
          /\ AgentsFile(g) = AgentsFile(h) /\ <<h, b>> \in told.agents \cup report.agents
               => b \in Registered(g) \cup {a}
    BY <2>4, <2>5, FilesDiffer DEF KeptInv, ToldKept
  <2>7. JobKept(Rewriting(AgentsFile(g), Registered(g) \cup {a}, next, report))
    <3>1. MayWrite(AgentsFile(g), Registered(g) \cup {a}, next, report)
      BY <2>2, <2>4, <2>6, FilesDiffer DEF MayWrite
    <3> QED
      BY <2>2, <3>1, RewritingKept
  <2>8. Goto(p, Rewriting(AgentsFile(g), Registered(g) \cup {a}, next, report))
    BY <1>7, <2>0, <2>1, <2>3 DEF Register
  <2> QED
    BY <1>1, <1>7, <2>7, <2>8 DEF Register
<1>8. ASSUME NEW g \in Groups, NEW a \in Agents, Heartbeat(p, g, a) PROVE KeptInv'
  <2>1. JobKept(Rewriting(HeartbeatFile(g, a), {}, Idle, Nothing))
    <3>1. MayWrite(HeartbeatFile(g, a), {}, Idle, Nothing)
      BY <1>2, FilesDiffer DEF MayWrite
    <3> QED
      BY <1>2, <3>1, RewritingKept
  <2> QED
    BY <1>1, <1>8, <2>1 DEF Heartbeat
<1>11. ASSUME RegisterHeartbeat(p) PROVE KeptInv'
  <2>1. PICK next : /\ Goto(p, next)
                    /\ next = Idle \/ \E g \in Groups, a \in Agents :
                                        next = Rewriting(HeartbeatFile(g, a), {}, Idle, Nothing)
    BY <1>0, <1>11, BeatMoves
  <2>2. ASSUME NEW g \in Groups, NEW a \in Agents
        PROVE  JobKept(Rewriting(HeartbeatFile(g, a), {}, Idle, Nothing))
    <3>1. MayWrite(HeartbeatFile(g, a), {}, Idle, Nothing)
      BY <1>2, FilesDiffer DEF MayWrite
    <3> QED
      BY <1>2, <3>1, RewritingKept
  <2>3. JobKept(next)
    BY <1>2, <2>1, <2>2
  <2> QED
    BY <1>1, <1>11, <2>1, <2>3 DEF RegisterHeartbeat
<1>9. ASSUME NEW g \in Groups, NEW scope \in Scopes, NEW lease \in Leases, NEW force \in BOOLEAN,
             LockAcquire(p, g, scope, lease, force)
      PROVE  KeptInv'
  <2>1. PICK data : data = Append(Locks, NewLock(g, scope, lease, force))
    OBVIOUS
  <2>2. Len(data) = Len(Locks) + 1
    BY <1>0, <2>1, ListsAreLists
  <2>3. PICK report : report = [agents |-> {}, locks |-> 1]
    OBVIOUS
  <2>4. report.agents = {} /\ told.locks + report.locks <= Len(data)
    BY <1>0, <2>2, <2>3 DEF KeptInv, ToldKept
  <2>5. JobKept(Rewriting(LocksFile, data, Idle, report))
    <3>1. MayWrite(LocksFile, data, Idle, report)
      BY <1>2, <2>4, FilesDiffer DEF MayWrite
    <3> QED
      BY <1>2, <3>1, RewritingKept
  <2>6. Goto(p, Rewriting(LocksFile, data, Idle, report))
    BY <1>9, <2>1, <2>3 DEF LockAcquire, NewLock
  <2> QED
    BY <1>1, <1>9, <2>5, <2>6 DEF LockAcquire
<1>10. ASSUME NEW g \in Groups, NEW selection, LockRelease(p, g, selection) PROVE KeptInv'
  <2>1. PICK data : data = Released(g, selection)
    OBVIOUS
  <2>2. told.locks + Nothing.locks <= Len(data)
    BY <1>0, <1>2, <2>1, ListsAreLists DEF KeptInv, ToldKept
  <2>3. JobKept(Rewriting(LocksFile, data, Idle, Nothing))
    <3>1. MayWrite(LocksFile, data, Idle, Nothing)
      BY <1>2, <2>2, FilesDiffer DEF MayWrite
    <3> QED
      BY <1>2, <3>1, RewritingKept
  <2>4. Goto(p, Rewriting(LocksFile, data, Idle, Nothing))
    BY <1>10, <2>1 DEF LockRelease, Released
  <2> QED
    BY <1>1, <1>10, <2>3, <2>4 DEF LockRelease
<1> QED
  BY <1>3, <1>4, <1>5, <1>6, <1>7, <1>8, <1>9, <1>10, <1>11 DEF Rewrite

LEMMA TruncateKept ==
  ASSUME KeptInv, NEW p \in Writers, Truncate(p)
  PROVE  KeptInv'
<1>0. p \in Procs /\ TypeInv /\ TypeInv'
  BY TruncateTyped, CommAssumption DEF KeptInv
<1>1. PICK j : j = job[p]
  OBVIOUS
<1>2. WriteOK(j) /\ WriteKept(j) /\ j.f \in Files
  BY <1>0, <1>1, Shapes DEF Truncate, KeptInv, JobKept, TypeInv, WriteOK, Writes
<1>3. PICK next : next = [j EXCEPT !.step = "flush"]
  OBVIOUS
<1>4. /\ next.step = "flush" /\ next.f = j.f /\ next.data = j.data /\ next.next = j.next
      /\ next.report = j.report
  BY <1>2, <1>3 DEF WriteOK, Writes
<1>5. JobKept(next)
  BY <1>2, <1>4 DEF JobKept, WriteKept
<1>6. Goto(p, next) /\ file' = [file EXCEPT ![j.f].state = "torn"] /\ UNCHANGED <<made, told>>
  BY <1>1, <1>3 DEF Truncate
<1>7. /\ \A f \in Files : file'[f].data = file[f].data /\ (Exists(f) => Exists(f)')
      /\ \A f \in Files \ {j.f} : file'[f] = file[f]
  BY <1>0, <1>2, <1>6 DEF TypeInv, FileOK, Exists
<1>8. \A g \in Groups : Exists(GroupFile(g))' => Exists(GroupFile(g)) \/ HasMail(g)
  BY <1>2, <1>7, FilesDiffer DEF WriteKept, Exists
<1> QED
  BY <1>0, <1>5, <1>6, <1>7, <1>8, MovingKept DEF OnlyAdds

LEMMA StepKept == NoneOvertaken /\ KeptInv /\ [Next]_vars => KeptInv'
<1> SUFFICES ASSUME NoneOvertaken, KeptInv, [Next]_vars PROVE KeptInv'
  OBVIOUS
<1>0. TypeInv /\ TypeInv' /\ DOMAIN job = Procs
  BY StepTyped DEF KeptInv, TypeInv
<1>1. CASE UNCHANGED <<file, made, told, job>>
  <2>1. OnlyAdds
    BY <1>1 DEF OnlyAdds, Exists
  <2>2. ToldKept'
    BY <1>1 DEF KeptInv, ToldKept, Exists, HasMail, Locks, Registered
  <2>3. ASSUME NEW q \in Procs PROVE JobKept(job[q])'
    <3>1. PICK j : j = job[q]
      OBVIOUS
    <3>2. JobKept(j)' /\ job'[q] = j
      BY <1>1, <2>1, <3>1, JobStaysKept DEF KeptInv
    <3>3. JobKept(job[q])'
      BY <3>2 DEF JobKept, WriteKept, TouchKept
    <3> QED
      BY <3>3
  <2> QED
    BY <1>0, <2>2, <2>3 DEF KeptInv
<1>2. ASSUME NEW p \in Writers, Rewrite(p) PROVE KeptInv'
  BY <1>2, CommandsKept, TruncateKept, FlushKept, TouchesKept
<1>3. ASSUME NEW p \in Procs, NEW next, JobKept(next),
             Goto(p, next) \/ UNCHANGED job, UNCHANGED <<file, told>>, made \subseteq made'
      PROVE  KeptInv'
  <2>1. OnlyAdds /\ \A g \in Groups : Exists(GroupFile(g))' => Exists(GroupFile(g))
    BY <1>3 DEF OnlyAdds, Exists
  <2> QED
    BY <1>0, <1>3, <2>1, MovingKept
<1>4. ASSUME NEW p \in Procs, Mail(p) PROVE KeptInv'
  <2>1. PICK next : MailJob(next) /\ (Goto(p, next) \/ UNCHANGED job)
    BY <1>0, <1>4, MailKeeps
  <2>2. JobKept(next)
    BY <2>1 DEF MailJob, JobKept
  <2>3. UNCHANGED <<file, told>> /\ made \subseteq made'
    BY <1>0, <1>4, MailKeeps
  <2> QED
    BY <1>3, <2>1, <2>2, <2>3
<1>5. ASSUME NEW p \in Procs, Leave(p) PROVE KeptInv'
  <2>1. JobKept(Idle)
    BY DEF Idle, JobKept
  <2>2. Goto(p, Idle) /\ UNCHANGED <<file, told>> /\ made \subseteq made'
    BY <1>0, <1>5, LeaveKeeps
  <2> QED
    BY <1>3, <2>1, <2>2
<1> QED
  BY <1>1, <1>2, <1>4, <1>5 DEF Next, Tick, vars

\* However many commands run at once and wherever they die: while no command
\* rewrites a file that another has read and not yet written, no lock and no
\* registration that a command reported disappears, and validate misses no file
\* of a group that took one.  The lists get lost by overtaking on one file and in
\* no other way; commands on different files, senders and deaths cost nothing.
THEOREM ReportsAreKept == Spec /\ []NoneOvertaken => []ReportedIsKept
<1>1. KeptInv => ReportedIsKept
  <2> SUFFICES ASSUME KeptInv PROVE ReportedIsKept
    OBVIOUS
  <2>1. ASSUME NEW g \in Groups, NEW a \in Agents, <<g, a>> \in told.agents
        PROVE  a \in Registered(g) /\ MissingFiles(g) = {}
    <3>1. a \in Registered(g) /\ Exists(GroupFile(g)) /\ Exists(AgentsFile(g)) /\ HasMail(g)
      BY <2>1 DEF KeptInv, ToldKept
    <3> QED
      BY <3>1 DEF MissingFiles, Exists, HasMail, MainBoxes
  <2>2. ASSUME NEW g \in Groups, MissingFiles(g) = {}, NEW error \in ValidationErrors(g)
        PROVE  error[1] # "missing"
    <3>1. error = <<"report", g>> \/ \E pair : error = <<"lock conflict", pair>>
      BY <2>2 DEF ValidationErrors
    <3>2. CASE error = <<"report", g>>
      BY <3>2
    <3>3. CASE \E pair : error = <<"lock conflict", pair>>
      <4>1. PICK pair : error = <<"lock conflict", pair>>
        BY <3>3
      <4> QED
        BY <4>1
    <3> QED
      BY <3>1, <3>2, <3>3
  <2>3. IsWhole(LocksFile) => Len(Locks) >= told.locks
    <3>1. Len(Locks) \in Nat /\ told.locks \in Nat /\ told.locks <= Len(Locks)
      BY Reading DEF KeptInv, ToldKept, TypeInv, Report
    <3> QED
      BY <3>1
  <2> QED
    BY <2>1, <2>2, <2>3 DEF ReportedIsKept
<1> QED
  BY <1>1, InitKept, StepKept, PTL DEF Spec

-----------------------------------------------------------------------------
(***************************************************************************)
(* What waits for an ack is known, unless a line is lost with a mailbox    *)
(* that is emptied as it is made.                                          *)
(***************************************************************************)
\* No mailbox that a command has found missing and is about to make has got lines.
NoneMadeTwice ==
  \A p \in Procs : job[p].step = "empty" => <<job[p].g, Head(job[p].boxes)>> \notin made

\* The sender's outbox has the message, or the broadcast it is a copy of.
InOutbox(m) ==
  \E r \in rows : /\ r.box = Outbox(m.from) /\ r.message.group = m.group /\ r.message.id = m.id
                  /\ r.message.needs = m.needs /\ r.message.acks = m.acks

\* A row is of no concern to acks, in the broadcasts or tracked by its sender's outbox.
Tracked(r) ==
  (~r.message.needs /\ r.message.acks = 0) \/ r.box = Broadcasts \/ InOutbox(r.message)

\* Rows are in mailboxes that exist, and what is delivered has been sent.
MailInv ==
  /\ TypeInv
  /\ \A r \in rows : <<r.message.group, r.box>> \in made /\ Tracked(r)
  /\ \A p \in Procs : job[p].step \in {"copy", "deliver"} => InOutbox(job[p].message)

LEMMA RowsStayTracked ==
  ASSUME rows \subseteq rows'
  PROVE  /\ \A m : InOutbox(m) => InOutbox(m)'
         /\ \A r : Tracked(r) => Tracked(r)'
BY DEF InOutbox, Tracked

\* A step that loses no row.
LEMMA MovingMail ==
  ASSUME MailInv, TypeInv', NEW p \in Procs, NEW next, Goto(p, next) \/ UNCHANGED job,
         rows \subseteq rows', made \subseteq made',
         \A r \in rows' \ rows : <<r.message.group, r.box>> \in made' /\ Tracked(r)',
         next.step \in {"copy", "deliver"} => InOutbox(next.message)'
  PROVE  MailInv'
<1>1. DOMAIN job = Procs
  BY DEF MailInv, TypeInv
<1>2. \A r \in rows' : <<r.message.group, r.box>> \in made' /\ Tracked(r)'
  BY RowsStayTracked DEF MailInv
<1>3. ASSUME NEW q \in Procs, job'[q].step \in {"copy", "deliver"} PROVE InOutbox(job[q].message)'
  <2>1. PICK j : j = job'[q]
    OBVIOUS
  <2>2. j = next \/ j = job[q]
    BY <1>1, <2>1, Moves
  <2>3. j = job[q] => InOutbox(j.message)
    BY <1>3, <2>1 DEF MailInv
  <2>4. InOutbox(j.message)'
    BY <1>3, <2>1, <2>2, <2>3, RowsStayTracked
  <2> QED
    BY <2>1, <2>4 DEF InOutbox
<1> QED
  BY <1>2, <1>3 DEF MailInv, Tracked, InOutbox

\* One row more, of a message that its sender's outbox has from now on.
LEMMA AppendMail ==
  ASSUME MailInv, TypeInv', NEW p \in Procs, NEW next, Goto(p, next),
         NEW box, NEW message, AppendRow(box, message),
         box = Outbox(message.from) \/ InOutbox(message) \/ box = Broadcasts,
         next.step \in {"copy", "deliver"} =>
           /\ next.message.group = message.group /\ next.message.from = message.from
           /\ next.message.id = message.id /\ next.message.needs = message.needs
           /\ next.message.acks = message.acks
           /\ (box = Outbox(message.from) \/ InOutbox(message))
  PROVE  MailInv'
<1>1. PICK row : row = [box |-> box, message |-> message]
  OBVIOUS
<1>2. row.box = box /\ row.message = message /\ rows' = rows \cup {row}
      /\ made' = made \cup {<<message.group, box>>}
  BY <1>1 DEF AppendRow
<1>3. box = Outbox(message.from) \/ InOutbox(message) => InOutbox(message)'
  BY <1>2 DEF InOutbox
<1>4. Tracked(row)'
  BY <1>2, <1>3 DEF Tracked
<1>5. next.step \in {"copy", "deliver"} => InOutbox(next.message)'
  BY <1>3 DEF InOutbox
<1> QED
  BY <1>2, <1>4, <1>5, MovingMail

LEMMA SendingMail ==
  ASSUME MailInv, NEW p \in Procs, Mail(p)
  PROVE  MailInv'
<1>0. TypeInv /\ TypeInv'
  BY MailKeeps DEF MailInv
<1>1. ASSUME NEW message, NEW to
      PROVE  LET next == Delivering(message, to) IN
             next.step \in {"idle", "deliver"} /\ (next.step = "deliver" => next.message = message)
  BY DEF Delivering, Idle
<1>2. ASSUME NEW g \in Groups, NEW from \in People, NEW to \in People \cup {"*"}, NEW needs \in BOOLEAN,
             NEW acks, Post(p, g, from, to, needs, acks)
      PROVE  MailInv'
  <2>1. PICK message : message = NewMessage(g, from, to, needs, acks)
    OBVIOUS
  <2>2. PICK next : next = Delivering(message, {to} \ {"*"})
    OBVIOUS
  <2>3. AppendRow(Outbox(message.from), message) /\ Goto(p, next)
    BY <1>2, <2>1, <2>2 DEF Post, NewMessage
  <2>4. next.step \in {"idle", "deliver"} /\ (next.step = "deliver" => next.message = message)
    BY <1>1, <2>2
  <2> QED
    BY <1>0, <2>3, <2>4, AppendMail
<1>3. ASSUME NEW g \in Groups, NEW from \in Agents, Artifact(p, g, from) PROVE MailInv'
  <2>1. PICK row : row = [box |-> Artifacts(from), message |-> NewMessage(g, from, from, FALSE, 0)]
    OBVIOUS
  <2>2. /\ rows' = rows \cup {row} /\ made' = made \cup {<<row.message.group, row.box>>}
        /\ UNCHANGED job
    BY <1>3, <2>1 DEF Artifact, AppendRow
  <2>3. ~row.message.needs /\ row.message.acks = 0
    BY <2>1 DEF NewMessage
  <2>4. \A r \in rows' \ rows : <<r.message.group, r.box>> \in made' /\ Tracked(r)'
    BY <2>2, <2>3 DEF Tracked
  <2>5. Idle.step = "idle"
    BY DEF Idle
  <2> QED
    BY <1>0, <2>2, <2>4, <2>5, MovingMail
<1>4. ASSUME NEW g \in Groups, NEW from \in People, NEW needs \in BOOLEAN, NEW copy \in BOOLEAN,
             Broadcast(p, g, from, needs, copy)
      PROVE  MailInv'
  <2>1. PICK message : message = NewMessage(g, from, "*", needs, 0)
    OBVIOUS
  <2>2. PICK next : next = [step |-> "outbox", message |-> message, copy |-> copy]
    OBVIOUS
  <2>3. AppendRow(Broadcasts, message) /\ Goto(p, next) /\ next.step = "outbox"
    BY <1>4, <2>1, <2>2 DEF Broadcast
  <2> QED
    BY <1>0, <2>3, AppendMail
<1>5. ASSUME BroadcastOutbox(p) PROVE MailInv'
  <2>1. PICK j : j = job[p]
    OBVIOUS
  <2>2. PICK next : next = IF j.copy THEN [step |-> "copy", message |-> j.message] ELSE Idle
    OBVIOUS
  <2>3. AppendRow(Outbox(j.message.from), j.message) /\ Goto(p, next)
    BY <1>5, <2>1, <2>2 DEF BroadcastOutbox
  <2>4. next.step \in {"idle", "copy"} /\ (next.step = "copy" => next.message = j.message)
    BY <2>2 DEF Idle
  <2> QED
    BY <1>0, <2>3, <2>4, AppendMail
<1>6. ASSUME BroadcastCopies(p) PROVE MailInv'
  <2>1. PICK message : message = job[p].message
    OBVIOUS
  <2>2. PICK next : next = Delivering(message, Registered(message.group))
    OBVIOUS
  <2>3. Goto(p, next) /\ UNCHANGED <<made, rows>> /\ InOutbox(message)
    BY <1>6, <2>1, <2>2 DEF BroadcastCopies, MailInv
  <2>4. next.step \in {"idle", "deliver"} /\ (next.step = "deliver" => next.message = message)
    BY <1>1, <2>2
  <2>5. InOutbox(message)'
    BY <2>3, RowsStayTracked
  <2>6. next.step \in {"copy", "deliver"} => InOutbox(next.message)'
    BY <2>4, <2>5
  <2> QED
    BY <1>0, <2>3, <2>4, <2>6, MovingMail
<1>7. ASSUME Deliver(p) PROVE MailInv'
  <2>1. PICK j : j = job[p]
    OBVIOUS
  <2>2. j \in Mails /\ j.step = "deliver" /\ InOutbox(j.message)
    BY <1>0, <1>7, <2>1, Shapes DEF Deliver, TypeInv, MailInv
  <2>3. j.message \in Message
    BY <2>2 DEF Mails
  <2>4. PICK a \in j.to :
          /\ AppendRow(Inbox(a), IF j.message.to = "*" THEN [j.message EXCEPT !.to = a] ELSE j.message)
          /\ Goto(p, Delivering(j.message, j.to \ {a}))
    BY <1>7, <2>1 DEF Deliver
  <2>5. PICK message : message = IF j.message.to = "*" THEN [j.message EXCEPT !.to = a] ELSE j.message
    OBVIOUS
  <2>6. /\ message.group = j.message.group /\ message.from = j.message.from /\ message.id = j.message.id
        /\ message.needs = j.message.needs /\ message.acks = j.message.acks
    BY <2>3, <2>5 DEF Message
  <2>7. InOutbox(message)
    BY <2>2, <2>6 DEF InOutbox
  <2>8. PICK next : next = Delivering(j.message, j.to \ {a})
    OBVIOUS
  <2>9. next.step \in {"idle", "deliver"} /\ (next.step = "deliver" => next.message = j.message)
    BY <1>1, <2>8
  <2>10. AppendRow(Inbox(a), message) /\ Goto(p, next)
    BY <2>4, <2>5, <2>8
  <2> QED
    BY <1>0, <2>6, <2>7, <2>9, <2>10, AppendMail
<1> QED
  BY <1>2, <1>3, <1>4, <1>5, <1>6, <1>7 DEF Mail

LEMMA RewritingMail ==
  ASSUME NoneMadeTwice, MailInv, NEW p \in Procs, Rewrite(p)
  PROVE  MailInv'
<1>0. TypeInv /\ TypeInv'
  BY RewriteTyped DEF MailInv
<1>1. ASSUME NEW next, Goto(p, next), UNCHANGED <<made, rows>>, next.step \notin {"copy", "deliver"}
      PROVE  MailInv'
  BY <1>0, <1>1, MovingMail
<1>2. CASE EmptyBox(p)
  <2>1. PICK j : j = job[p]
    OBVIOUS
  <2>2. j \in Touches /\ j.step = "empty" /\ <<j.g, Head(j.boxes)>> \notin made
    BY <1>0, <1>2, <2>1, Shapes DEF EmptyBox, TypeInv, TouchOK, NoneMadeTwice
  <2>3. rows' = rows /\ made \subseteq made'
    <3>1. \A r \in rows : r.box # Head(j.boxes) \/ r.message.group # j.g
      BY <2>2 DEF MailInv
    <3>2. rows' = {r \in rows : r.box # Head(j.boxes) \/ r.message.group # j.g}
          /\ made' = made \cup {<<j.g, Head(j.boxes)>>}
      BY <1>2, <2>1 DEF EmptyBox
    <3> QED
      BY <3>1, <3>2
  <2>4. PICK next : next = [j EXCEPT !.step = "touch", !.boxes = Tail(@)]
    OBVIOUS
  <2>5. next.step = "touch" /\ Goto(p, next)
    BY <1>2, <2>1, <2>2, <2>4 DEF EmptyBox, Touches
  <2> QED
    BY <1>0, <2>3, <2>5, MovingMail
<1>3. CASE Touch(p)
  <2>1. PICK j : j = job[p]
    OBVIOUS
  <2>2. j \in Touches /\ j.step = "touch" /\ UNCHANGED <<made, rows>>
    BY <1>0, <1>3, <2>1, Shapes DEF Touch, TypeInv, TouchOK
  <2>3. CASE j.boxes = << >>
    <3>1. Goto(p, j.next) /\ j.next.step \in {"idle", "init-locks", "first-heartbeat"}
      BY <1>3, <2>1, <2>2, <2>3 DEF Touch, Touches, AfterTouch, Beats, Idle
    <3> QED
      BY <1>1, <2>2, <3>1
  <2>4. CASE j.boxes # << >> /\ <<j.g, Head(j.boxes)>> \in made
    <3>1. PICK next : next = [j EXCEPT !.boxes = Tail(@)]
      OBVIOUS
    <3>2. Goto(p, next) /\ next.step = "touch"
      BY <1>3, <2>1, <2>2, <2>4, <3>1 DEF Touch, Touches
    <3> QED
      BY <1>1, <2>2, <3>2
  <2>5. CASE j.boxes # << >> /\ <<j.g, Head(j.boxes)>> \notin made
    <3>1. PICK next : next = [j EXCEPT !.step = "empty"]
      OBVIOUS
    <3>2. Goto(p, next) /\ next.step = "empty"
      BY <1>3, <2>1, <2>2, <2>5, <3>1 DEF Touch, Touches
    <3> QED
      BY <1>1, <2>2, <3>2
  <2> QED
    BY <2>3, <2>4, <2>5
<1>4. CASE Truncate(p)
  <2>1. job[p] \in Writes
    BY <1>0, <1>4, Shapes DEF Truncate, TypeInv, WriteOK
  <2>2. [job[p] EXCEPT !.step = "flush"].step = "flush"
    BY <2>1 DEF Writes
  <2> QED
    BY <1>1, <1>4, <2>2 DEF Truncate
<1>5. CASE Flush(p)
  <2>1. PICK j : j = job[p]
    OBVIOUS
  <2>2. WriteOK(j) /\ Goto(p, j.next) /\ UNCHANGED <<made, rows>>
    BY <1>0, <1>5, <2>1, FlushDoes DEF Flush
  <2>3. j.next.step \notin {"copy", "deliver"}
    BY <2>2 DEF WriteOK, Writes, AfterWrite, Idle, Inits, Touches
  <2> QED
    BY <1>1, <2>2, <2>3
<1>6. ASSUME NEW f, NEW data, NEW next, NEW report
      PROVE  Rewriting(f, data, next, report).step \notin {"copy", "deliver"}
  BY DEF Rewriting
<1>7. Idle.step \notin {"copy", "deliver"}
  BY DEF Idle
<1>8. ASSUME NEW g \in Groups, InitGroupFiles(p, g) PROVE MailInv'
  <2>1. PICK next : Goto(p, next) /\ next.step = "touch"
    BY <1>8 DEF InitGroupFiles, Touching
  <2> QED
    BY <1>1, <1>8, <2>1 DEF InitGroupFiles
<1>9. CASE InitLocks(p)
  <2>1. PICK next : next = [step |-> "init-group", g |-> job[p].g]
    OBVIOUS
  <2>2. Goto(p, next) \/ Goto(p, Rewriting(LocksFile, << >>, next, Nothing))
    BY <1>9, <2>1 DEF InitLocks
  <2>3. next.step = "init-group" /\ UNCHANGED <<made, rows>>
    BY <1>9, <2>1 DEF InitLocks
  <2> QED
    BY <1>1, <1>6, <2>2, <2>3
<1>10. CASE InitGroup(p) \/ InitAgents(p)
  BY <1>1, <1>6, <1>7, <1>10 DEF InitGroup, InitAgents
<1>11. ASSUME NEW g \in Groups, NEW a \in Agents, Register(p, g, a) \/ Heartbeat(p, g, a) PROVE MailInv'
  BY <1>1, <1>6, <1>11 DEF Register, Heartbeat
<1>12. ASSUME NEW g \in Groups, NEW scope \in Scopes, NEW lease \in Leases, NEW force \in BOOLEAN,
              LockAcquire(p, g, scope, lease, force)
       PROVE  MailInv'
  BY <1>1, <1>6, <1>12 DEF LockAcquire
<1>13. ASSUME NEW g \in Groups, NEW selection, LockRelease(p, g, selection) PROVE MailInv'
  BY <1>1, <1>6, <1>13 DEF LockRelease
<1>14. CASE RegisterHeartbeat(p)
  <2>1. PICK next : Goto(p, next) /\ next.step \in {"idle", "truncate"}
    BY <1>0, <1>7, <1>14, BeatMoves DEF Idle
  <2> QED
    BY <1>1, <1>14, <2>1 DEF RegisterHeartbeat
<1> QED
  BY <1>2, <1>3, <1>4, <1>5, <1>8, <1>9, <1>10, <1>11, <1>12, <1>13, <1>14 DEF Rewrite

LEMMA StepMail == NoneMadeTwice /\ MailInv /\ [Next]_vars => MailInv'
<1> SUFFICES ASSUME NoneMadeTwice, MailInv, [Next]_vars PROVE MailInv'
  OBVIOUS
<1>0. TypeInv /\ TypeInv'
  BY StepTyped DEF MailInv
<1>1. CASE UNCHANGED <<made, rows, job>>
  BY <1>0, <1>1 DEF MailInv, Tracked, InOutbox
<1>2. ASSUME NEW p \in Procs, Leave(p) PROVE MailInv'
  <2>1. Goto(p, Idle) /\ UNCHANGED <<made, rows>>
    BY <1>0, <1>2, LeaveKeeps
  <2>2. Idle.step = "idle"
    BY DEF Idle
  <2> QED
    BY <1>0, <2>1, <2>2, MovingMail
<1> QED
  BY <1>1, <1>2, SendingMail, RewritingMail, CommAssumption DEF Next, Tick, vars

\* What is tracked by its sender's outbox or in the broadcasts is seen by report.
LEMMA TrackedIsSeen ==
  ASSUME TypeInv, NEW g \in Groups, NEW r \in rows, Tracked(r),
         r.message.group = g, r.message.from \in {"main"} \cup Registered(g)
  PROVE  r.message.needs \/ r.message.acks # 0 =>
           \E m \in Visible(g) : m.id = r.message.id /\ m.needs = r.message.needs /\ m.acks = r.message.acks
<1>1. ASSUME NEW s \in rows, s.message.group = g, s.box \in VisibleBoxes(g) PROVE s.message \in Visible(g)
  BY <1>1 DEF Visible
<1>2. Outbox(r.message.from) \in VisibleBoxes(g) /\ Broadcasts \in VisibleBoxes(g)
  BY DEF VisibleBoxes
<1>3. CASE r.box = Broadcasts
  BY <1>1, <1>2, <1>3
<1>4. CASE InOutbox(r.message)
  BY <1>1, <1>2, <1>4 DEF InOutbox
<1> QED
  BY <1>3, <1>4 DEF Tracked

\* However many commands run at once and wherever they die: whatever a known sender
\* wants acknowledged is a warning of validate as soon as anyone has received it,
\* until an ack is recorded, and not after a known sender has recorded one, while
\* no mailbox gets its first line between an init or register that finds it missing
\* and makes it.  No other overlap of commands and no death loses track of a
\* message whose sender is registered.
THEOREM AcksAreAwaited == Spec /\ []NoneMadeTwice => []WarnsUntilAcked
<1>1. Init => MailInv
  <2>1. Init => rows = {} /\ \A p \in Procs : job[p].step = "idle"
    BY DEF Init, Idle
  <2> QED
    BY <2>1, InitTyped DEF MailInv
<1>2. MailInv => WarnsUntilAcked
  <2> SUFFICES ASSUME MailInv, NEW g \in Groups, NEW r \in rows, ~ReportFails(g),
                      r.message.group = g, r.message.from \in {"main"} \cup Registered(g)
               PROVE  /\ r.message.needs =>
                           \/ <<"awaiting ack", r.message.id>> \in ValidationWarnings(g)
                           \/ \E s \in rows : s.message.acks = r.message.id
                      /\ r.message.acks # 0 =>
                           <<"awaiting ack", r.message.acks>> \notin ValidationWarnings(g)
    BY DEF WarnsUntilAcked
  <2>1. r.message.needs \/ r.message.acks # 0 =>
          \E m \in Visible(g) : m.id = r.message.id /\ m.needs = r.message.needs /\ m.acks = r.message.acks
    BY TrackedIsSeen DEF MailInv
  <2>2. \A id : <<"awaiting ack", id>> \in ValidationWarnings(g) <=> id \in Unacked(g)
    <3>1. \A id, a : <<"awaiting ack", id>> # <<"no heartbeat", a>>
      OBVIOUS
    <3> QED
      BY <3>1 DEF ValidationWarnings
  <2>3. ASSUME r.message.needs, r.message.id \notin Unacked(g)
        PROVE  \E s \in rows : s.message.acks = r.message.id
    <3>1. PICK m \in Visible(g) : m.acks = r.message.id
      BY <2>1, <2>3 DEF Unacked
    <3> QED
      BY <3>1 DEF Visible
  <2>4. r.message.acks # 0 => r.message.acks \notin Unacked(g)
    BY <2>1 DEF Unacked
  <2> QED
    BY <2>2, <2>3, <2>4
<1> QED
  BY <1>1, <1>2, StepMail, PTL DEF Spec
=============================================================================
