----------------------------- MODULE AgentComm -----------------------------
(***************************************************************************)
(* The file bus of src/ai_client_governance/agents/comm.py: groups of      *)
(* agents, their mailboxes and the write locks between groups.             *)
(*                                                                         *)
(* Group, agent and lock lists are JSON files that a command reads whole   *)
(* and rewrites whole, with no lock around it: write_text first truncates  *)
(* the file and then writes it, so another command may find it empty, and  *)
(* the death of the writer leaves it so.  Mailboxes are files to which one *)
(* line is appended at a time.  A command may die between any two steps.   *)
(***************************************************************************)
EXTENDS Integers, Sequences, FiniteSets, SequencesExt

CONSTANTS
  Procs,       \* command processes that may run at the same time
  Writers,     \* those that run init, register and lock; the others send and ack
  Groups, Agents,
  Founded,     \* groups that have been initialised before
  Scopes,      \* normalised scopes, as sequences of path segments
  Leases,      \* values of --lease-minutes, in ticks
  MaxNow,      \* bound on the clock
  MaxLocks,    \* bound on the lock list, which only grows
  MaxMessages  \* bound on the messages sent

ASSUME CommAssumption ==
  /\ Writers \subseteq Procs
  /\ Founded \subseteq Groups
  /\ Leases \subseteq Nat \ {0}
  /\ {MaxNow, MaxLocks, MaxMessages} \subseteq Nat
  /\ "main" \notin Agents

VARIABLES
  now,
  file,   \* per JSON file: absent, torn (truncated) or whole, and its data
  made,   \* the mailboxes that exist, each with its group
  rows,   \* the lines of all mailboxes
  sent,   \* the number of message ids given out
  job,    \* per process: how far its command is
  told    \* history: the registrations, and how many locks, that commands reported

vars == <<now, file, made, rows, sent, job, told>>

People == Agents \cup {"main"}

LocksFile == <<"locks">>
GroupFile(g) == <<"group", g>>
AgentsFile(g) == <<"agents", g>>
HeartbeatFile(g, a) == <<"heartbeat", g, a>>
Files == {LocksFile} \cup {GroupFile(g) : g \in Groups} \cup {AgentsFile(g) : g \in Groups}
           \cup {HeartbeatFile(g, a) : g \in Groups, a \in Agents}

Lock == [group : Groups, scope : Scopes, status : {"active", "released"},
         expires : Nat, force : BOOLEAN]

Outbox(a) == <<"outbox", a>>
Inbox(a) == <<"inbox", a>>
Broadcasts == <<"broadcasts">>
Artifacts(a) == <<"artifacts", a>>
Boxes == {Outbox(a) : a \in People} \cup {Inbox(a) : a \in People} \cup {Broadcasts}
           \cup {Artifacts(a) : a \in Agents}

\* acks is the id acknowledged, or 0.
Message == [group : Groups, id : 1..MaxMessages, from : People, to : People \cup {"*"},
            needs : BOOLEAN, acks : 0..MaxMessages]
Row == [box : Boxes, message : Message]

Idle == [step |-> "idle"]

IsWhole(f) == file[f].state = "whole"
Readable(f) == file[f].state # "torn"
Locks == file[LocksFile].data
Registered(g) == file[AgentsFile(g)].data

ScopesOverlap(left, right) ==
  left = right \/ (left # << >> /\ right # << >> /\ (IsPrefix(left, right) \/ IsPrefix(right, left)))

LockIsActive(lock) == lock.status = "active" /\ lock.expires > now

\* Fault: only a lock on the scope itself or above it conflicts.
LockConflicts_OneWay(g, scope) ==
  {i \in DOMAIN Locks :
     /\ LockIsActive(Locks[i])
     /\ Locks[i].group # g
     /\ IsPrefix(Locks[i].scope, scope)}

LockConflicts(g, scope) ==
  {i \in DOMAIN Locks :
     /\ LockIsActive(Locks[i])
     /\ Locks[i].group # g
     /\ ScopesOverlap(Locks[i].scope, scope)}

-----------------------------------------------------------------------------
\* The steps commands are made of.

Goto(p, next) == job' = [job EXCEPT ![p] = next]

\* Where a command is that is about to rewrite file f, and then goes to next.
Rewriting(f, data, next, report) ==
  [step |-> "truncate", f |-> f, data |-> data, next |-> next, report |-> report]

Nothing == [agents |-> {}, locks |-> 0]

Truncate(p) ==
  /\ job[p].step = "truncate"
  /\ file' = [file EXCEPT ![job[p].f].state = "torn"]
  /\ Goto(p, [job[p] EXCEPT !.step = "flush"])
  /\ UNCHANGED <<now, made, rows, sent, told>>

Flush(p) ==
  LET j == job[p] IN
  /\ j.step = "flush"
  /\ file' = [file EXCEPT ![j.f] = [state |-> "whole", data |-> j.data]]
  /\ told' = [agents |-> told.agents \cup j.report.agents, locks |-> told.locks + j.report.locks]
  /\ Goto(p, j.next)
  /\ UNCHANGED <<now, made, rows, sent>>

\* Appending to a mailbox makes it if need be.
AppendRow(box, message) ==
  /\ rows' = rows \cup {[box |-> box, message |-> message]}
  /\ made' = made \cup {<<message.group, box>>}

\* Where a command is that is about to make those of the boxes that do not
\* exist, and then goes to next.
Touching(g, boxes, next) == [step |-> "touch", g |-> g, boxes |-> boxes, next |-> next]

Touch(p) ==
  LET j == job[p] IN
  /\ j.step = "touch"
  /\ Goto(p, IF j.boxes = << >> THEN j.next
               ELSE IF <<j.g, Head(j.boxes)>> \in made THEN [j EXCEPT !.boxes = Tail(@)]
               ELSE [j EXCEPT !.step = "empty"])
  /\ UNCHANGED <<now, file, made, rows, sent, told>>

\* What was appended since the mailbox was found missing is lost.
EmptyBox(p) ==
  LET j == job[p] IN
  /\ j.step = "empty"
  /\ made' = made \cup {<<j.g, Head(j.boxes)>>}
  /\ rows' = {r \in rows : r.box # Head(j.boxes) \/ r.message.group # j.g}
  /\ Goto(p, [j EXCEPT !.step = "touch", !.boxes = Tail(@)])
  /\ UNCHANGED <<now, file, sent, told>>

\* A refusal on the way, or the death of the process.
Leave(p) ==
  /\ job[p] # Idle
  /\ Goto(p, Idle)
  /\ UNCHANGED <<now, file, made, rows, sent, told>>

Tick ==
  /\ now < MaxNow
  /\ now' = now + 1
  /\ UNCHANGED <<file, made, rows, sent, job, told>>

-----------------------------------------------------------------------------
\* init: mailboxes of main, the lock list and the agent list are written if they
\* do not exist, the group always.

InitGroupFiles(p, g) ==
  /\ job[p] = Idle
  /\ Goto(p, Touching(g, <<Outbox("main"), Inbox("main"), Broadcasts>>,
                      [step |-> "init-locks", g |-> g]))
  /\ UNCHANGED <<now, file, made, rows, sent, told>>

\* Fault: an existing lock list is written anew.
InitLocks_Reset(p) ==
  /\ job[p].step = "init-locks"
  /\ Goto(p, Rewriting(LocksFile, << >>, [step |-> "init-group", g |-> job[p].g], Nothing))
  /\ UNCHANGED <<now, file, made, rows, sent, told>>

InitLocks(p) ==
  LET next == [step |-> "init-group", g |-> job[p].g] IN
  /\ job[p].step = "init-locks"
  /\ Goto(p, IF file[LocksFile].state = "absent"
               THEN Rewriting(LocksFile, << >>, next, Nothing) ELSE next)
  /\ UNCHANGED <<now, file, made, rows, sent, told>>

InitGroup(p) ==
  LET g == job[p].g IN
  /\ job[p].step = "init-group"
  /\ Readable(GroupFile(g))
  /\ Goto(p, Rewriting(GroupFile(g), {}, [step |-> "init-agents", g |-> g], Nothing))
  /\ UNCHANGED <<now, file, made, rows, sent, told>>

InitAgents(p) ==
  LET g == job[p].g IN
  /\ job[p].step = "init-agents"
  /\ Goto(p, IF file[AgentsFile(g)].state = "absent"
               THEN Rewriting(AgentsFile(g), {}, Idle, Nothing) ELSE Idle)
  /\ UNCHANGED <<now, file, made, rows, sent, told>>

\* The mailboxes of main exist since the group does; the agent's and its first
\* heartbeat are made after the list is written, if they do not exist.
Register(p, g, a) ==
  /\ job[p] = Idle
  /\ IsWhole(GroupFile(g))
  /\ Readable(AgentsFile(g))
  /\ Goto(p, Rewriting(AgentsFile(g), Registered(g) \cup {a},
                       Touching(g, <<Inbox(a), Outbox(a), Artifacts(a)>>,
                                [step |-> "first-heartbeat", g |-> g, a |-> a]),
                       [agents |-> {<<g, a>>}, locks |-> 0]))
  /\ UNCHANGED <<now, file, made, rows, sent, told>>

RegisterHeartbeat(p) ==
  LET j == job[p] IN
  /\ j.step = "first-heartbeat"
  /\ Goto(p, IF file[HeartbeatFile(j.g, j.a)].state = "absent"
               THEN Rewriting(HeartbeatFile(j.g, j.a), {}, Idle, Nothing) ELSE Idle)
  /\ UNCHANGED <<now, file, made, rows, sent, told>>

LockAcquire(p, g, scope, lease, force) ==
  /\ job[p] = Idle
  /\ IsWhole(GroupFile(g))
  /\ Readable(LocksFile)
  /\ Len(Locks) < MaxLocks
  /\ LockConflicts(g, scope) = {} \/ force
  /\ Goto(p, Rewriting(LocksFile,
                       Append(Locks, [group |-> g, scope |-> scope, status |-> "active",
                                      expires |-> now + lease, force |-> force]),
                       Idle, [agents |-> {}, locks |-> 1]))
  /\ UNCHANGED <<now, file, made, rows, sent, told>>

\* The heartbeat of an agent, registered or not, is written anew each time.
Heartbeat(p, g, a) ==
  /\ job[p] = Idle
  /\ IsWhole(GroupFile(g))
  /\ Goto(p, Rewriting(HeartbeatFile(g, a), {}, Idle, Nothing))
  /\ UNCHANGED <<now, file, made, rows, sent, told>>

\* What --lock-id, --scope or neither selects; --owner selects among these.
ReleaseSelections == {DOMAIN Locks} \cup {{i} : i \in DOMAIN Locks}
                       \cup {{i \in DOMAIN Locks : Locks[i].scope = scope} : scope \in Scopes}

\* Only locks of the group, the expired ones included.
LockRelease(p, g, selection) ==
  /\ job[p] = Idle
  /\ IsWhole(GroupFile(g))
  /\ Readable(LocksFile)
  /\ Goto(p, Rewriting(LocksFile,
                       [i \in DOMAIN Locks |->
                          IF i \in selection /\ Locks[i].group = g
                            THEN [Locks[i] EXCEPT !.status = "released"] ELSE Locks[i]],
                       Idle, Nothing))
  /\ UNCHANGED <<now, file, made, rows, sent, told>>

-----------------------------------------------------------------------------
\* send, ack and broadcast: the sender's outbox first, then the recipients.

\* Where a command is that has the inboxes of `to' still to write.
Delivering(message, to) ==
  IF to = {} THEN Idle ELSE [step |-> "deliver", message |-> message, to |-> to]

NewMessage(g, from, to, needs, acks) ==
  [group |-> g, id |-> sent + 1, from |-> from, to |-> to, needs |-> needs, acks |-> acks]

CanSend(p, g) ==
  /\ job[p] = Idle
  /\ IsWhole(GroupFile(g))
  /\ sent < MaxMessages

\* Fault: the recipient's inbox first.
Post_InboxFirst(p, g, from, to, needs, acks) ==
  LET message == NewMessage(g, from, to, needs, acks) IN
  /\ CanSend(p, g)
  /\ to # "*"
  /\ sent' = sent + 1
  /\ AppendRow(Inbox(to), message)
  /\ Goto(p, [step |-> "outbox", message |-> message, copy |-> FALSE])
  /\ UNCHANGED <<now, file, told>>

\* Fault: "*" is taken for the name of an agent.
Post_StarInbox(p, g, from, to, needs, acks) ==
  LET message == NewMessage(g, from, to, needs, acks) IN
  /\ CanSend(p, g)
  /\ sent' = sent + 1
  /\ AppendRow(Outbox(from), message)
  /\ Goto(p, Delivering(message, {to}))
  /\ UNCHANGED <<now, file, told>>

\* An ack is a message that names another one; a retry is a message of its own.
Post(p, g, from, to, needs, acks) ==
  LET message == NewMessage(g, from, to, needs, acks) IN
  /\ CanSend(p, g)
  /\ sent' = sent + 1
  /\ AppendRow(Outbox(from), message)
  /\ Goto(p, Delivering(message, {to} \ {"*"}))
  /\ UNCHANGED <<now, file, told>>

\* An artifact is a line in a file of the agent's own, which has an id like a
\* message but is none.
Artifact(p, g, a) ==
  /\ CanSend(p, g)
  /\ sent' = sent + 1
  /\ AppendRow(Artifacts(a), NewMessage(g, a, a, FALSE, 0))
  /\ UNCHANGED <<now, file, job, told>>

Broadcast(p, g, from, needs, copy) ==
  LET message == NewMessage(g, from, "*", needs, 0) IN
  /\ CanSend(p, g)
  /\ sent' = sent + 1
  /\ AppendRow(Broadcasts, message)
  /\ Goto(p, [step |-> "outbox", message |-> message, copy |-> copy])
  /\ UNCHANGED <<now, file, told>>

BroadcastOutbox(p) ==
  LET j == job[p] IN
  /\ j.step = "outbox"
  /\ AppendRow(Outbox(j.message.from), j.message)
  /\ Goto(p, IF j.copy THEN [step |-> "copy", message |-> j.message] ELSE Idle)
  /\ UNCHANGED <<now, file, sent, told>>

\* The copies go to the agents registered by now.
BroadcastCopies(p) ==
  LET message == job[p].message IN
  /\ job[p].step = "copy"
  /\ Readable(AgentsFile(message.group))
  /\ Goto(p, Delivering(message, Registered(message.group)))
  /\ UNCHANGED <<now, file, made, rows, sent, told>>

Deliver(p) ==
  LET j == job[p] IN
  /\ j.step = "deliver"
  /\ \E a \in j.to :
       /\ AppendRow(Inbox(a), IF j.message.to = "*" THEN [j.message EXCEPT !.to = a] ELSE j.message)
       /\ Goto(p, Delivering(j.message, j.to \ {a}))
  /\ UNCHANGED <<now, file, sent, told>>

-----------------------------------------------------------------------------
Init ==
  /\ now = 0
  /\ file = [f \in Files |->
       [state |-> IF Founded # {} /\ f \in {LocksFile} \cup {GroupFile(g) : g \in Founded}
                                               \cup {AgentsFile(g) : g \in Founded}
                    THEN "whole" ELSE "absent",
        data |-> IF f = LocksFile THEN << >> ELSE {}]]
  /\ made = Founded \X {Outbox("main"), Inbox("main"), Broadcasts}
  /\ rows = {}
  /\ sent = 0
  /\ job = [p \in Procs |-> Idle]
  /\ told = Nothing

\* The commands that rewrite a JSON file.
Rewrite(p) ==
  \/ \E g \in Groups :
       \/ InitGroupFiles(p, g)
       \/ \E a \in Agents : Register(p, g, a) \/ Heartbeat(p, g, a)
       \/ \E scope \in Scopes, lease \in Leases, force \in BOOLEAN :
            LockAcquire(p, g, scope, lease, force)
       \/ \E selection \in ReleaseSelections : LockRelease(p, g, selection)
  \/ InitLocks(p) \/ InitGroup(p) \/ InitAgents(p) \/ RegisterHeartbeat(p)
  \/ Truncate(p) \/ Flush(p) \/ Touch(p) \/ EmptyBox(p)

\* The commands that append to mailboxes.
Mail(p) ==
  \/ \E g \in Groups, from \in People :
       \/ \E to \in People \cup {"*"} :
            \/ \E needs \in BOOLEAN : Post(p, g, from, to, needs, 0)
            \/ \E id \in 1..sent : Post(p, g, from, to, FALSE, id)
       \/ \E needs, copy \in BOOLEAN : Broadcast(p, g, from, needs, copy)
       \/ from \in Agents /\ Artifact(p, g, from)
  \/ BroadcastOutbox(p) \/ BroadcastCopies(p)
  \/ Deliver(p)

Next ==
  \/ Tick
  \/ \E p \in Writers : Rewrite(p)
  \/ \E p \in Procs : Mail(p) \/ Leave(p)

Spec == Init /\ [][Next]_vars

-----------------------------------------------------------------------------
\* What report, validate and lock status tell of a group.

VisibleBoxes(g) ==
  {Broadcasts, Outbox("main"), Inbox("main")}
    \cup {Outbox(a) : a \in Registered(g)} \cup {Inbox(a) : a \in Registered(g)}

Visible(g) == {r.message : r \in {s \in rows : s.message.group = g /\ s.box \in VisibleBoxes(g)}}

Unacked(g) ==
  {m.id : m \in {n \in Visible(g) : n.needs}} \ {m.acks : m \in Visible(g)}

\* The pairs of live locks of two groups that overlap, the earlier one first.
LockConflictPairs ==
  {pair \in (DOMAIN Locks) \X (DOMAIN Locks) :
     LET left == Locks[pair[1]]  right == Locks[pair[2]] IN
     /\ pair[1] < pair[2] /\ left.group # right.group
     /\ LockIsActive(left) /\ LockIsActive(right)
     /\ ScopesOverlap(left.scope, right.scope)}

\* report, and with it validate, fails on a file that it finds truncated.
ReportFails(g) ==
  \/ ~IsWhole(GroupFile(g))
  \/ ~Readable(AgentsFile(g)) \/ ~Readable(LocksFile)
  \/ \E a \in Registered(g) : ~Readable(HeartbeatFile(g, a))

\* The files and mailboxes of a group that validate misses.
MissingFiles(g) ==
  {f \in {GroupFile(g), AgentsFile(g)} : file[f].state = "absent"}
    \cup {box \in {Outbox("main"), Inbox("main"), Broadcasts} : <<g, box>> \notin made}

\* What validate reports as an error of a group: what it misses, a report that
\* fails or, when it does not, the lock conflicts in it.
ValidationErrors(g) ==
  {<<"missing", f>> : f \in MissingFiles(g)}
    \cup (IF ReportFails(g) THEN {<<"report", g>>}
          ELSE {<<"lock conflict", pair>> :
                  pair \in {q \in LockConflictPairs : \E i \in {1, 2} : Locks[q[i]].group = g}})

\* What it warns of, out of the report: messages that wait for an ack, and
\* agents without a heartbeat.
ValidationWarnings(g) ==
  IF ReportFails(g) THEN {}
  ELSE {<<"awaiting ack", id>> : id \in Unacked(g)}
         \cup {<<"no heartbeat", a>> :
                 a \in {b \in Registered(g) : file[HeartbeatFile(g, b)].state = "absent"}}

-----------------------------------------------------------------------------
\* Properties.

\* Every variable has its type.
TypeOK ==
  /\ now \in 0..MaxNow
  /\ DOMAIN file = Files
  /\ \A f \in Files : file[f].state \in {"absent", "torn", "whole"}
  /\ Locks \in Seq(Lock)
  /\ \A g \in Groups : Registered(g) \subseteq Agents
  /\ rows \subseteq Row
  /\ made \subseteq Groups \X Boxes
  /\ sent \in 0..MaxMessages

\* Where report does not fail, what a registered agent or main has sent and wants
\* acknowledged is a warning of validate as soon as anyone has received it and until an ack is recorded,
\* whether the recipient is registered or not and wherever the sender died; and
\* once a registered agent or main has recorded an ack it is a warning no more,
\* although the ack may never reach the one it is sent to.
WarnsUntilAcked ==
  \A g \in Groups : \A r \in rows :
    ~ReportFails(g) /\ r.message.group = g /\ r.message.from \in {"main"} \cup Registered(g) =>
      /\ r.message.needs =>
           \/ <<"awaiting ack", r.message.id>> \in ValidationWarnings(g)
           \/ \E s \in rows : s.message.acks = r.message.id
      /\ r.message.acks # 0 =>
           <<"awaiting ack", r.message.acks>> \notin ValidationWarnings(g)

\* Two live locks of different groups that overlap are there by --force, so
\* every lock conflict that validate reports was wanted by the later one.
OverlapsAreForced ==
  IsWhole(LocksFile) => \A pair \in LockConflictPairs : Locks[pair[2]].force

\* The lists hold what commands reported: no lock that was granted and no agent
\* that was registered disappears, when groups are initialised again as well; and
\* validate misses no file of a group that took a registration, although the
\* init of the group may have died anywhere.
ReportedIsKept ==
  /\ IsWhole(LocksFile) => Len(Locks) >= told.locks
  /\ \A g \in Groups : IsWhole(AgentsFile(g)) =>
       \A a \in Agents : <<g, a>> \in told.agents =>
         /\ a \in Registered(g)
         /\ \A error \in ValidationErrors(g) : error[1] # "missing"

=============================================================================
