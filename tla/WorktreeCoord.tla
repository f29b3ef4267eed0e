--------------------------- MODULE WorktreeCoord ---------------------------
(***************************************************************************)
(* The coordination store of src/ai_client_governance/worktree/coord.py:   *)
(* sessions, write locks and the integration queue that every linked       *)
(* worktree of a repository shares through one SQLite database.            *)
(*                                                                         *)
(* Each command is a process that opens a connection, takes the guard      *)
(* (BEGIN IMMEDIATE), reads the JSON document, edits its copy, writes the  *)
(* copy and an event back on that connection, and commits.  Every          *)
(* exception, and a kill, ends in a rollback.  Leases are compared with    *)
(* the wall clock, which runs between any two of those steps.              *)
(***************************************************************************)
EXTENDS Integers, Sequences, FiniteSets, SequencesExt

CONSTANTS
  Procs,       \* command processes that may run at the same time
  SessionIds,  \* session identifiers
  Worktrees,   \* directories a session can be registered from
  Scopes,      \* normalised scopes, as sequences of path segments; <<>> is "."
  ItemIds,     \* identifiers of integration queue items
  Leases,      \* values of --lease-minutes, in ticks; zero is legal
  MaxNow,      \* bound on the clock, and on the end of a lock's lease
  MaxLocks,    \* bound on the length of the lock list, which only grows
  MaxItems     \* bound on the length of the queue, which only grows

ASSUME CoordAssumption ==
  /\ Leases \subseteq Int
  /\ MaxNow \in Nat
  /\ MaxLocks \in Nat
  /\ MaxItems \in Nat
  /\ \A scope \in Scopes : scope \in Seq(STRING)

VARIABLES
  now,   \* the wall clock
  db,    \* the committed document and event table
  pc,    \* per process: "idle", "begun" (guard taken) or "staged" (written)
  view   \* per process: the document on its connection, its own edits included

vars == <<now, db, pc, view>>

-----------------------------------------------------------------------------
(***************************************************************************)
(* Records of the document.  "active" stands for active, integrating and   *)
(* waiting, of the queue "pending" for pending, integrating and blocked    *)
(* and "done" for done and abandoned: no comparison that a command makes   *)
(* before it writes tells those apart.                                     *)
(***************************************************************************)
SessionStatuses == {"active", "closed", "stale_or_missing_worktree",
                    "closed_by_closeout"}
LockStatuses == {"active", "released", "released_missing_worktree",
                 "released_by_closeout"}
QueueStatuses == {"pending", "done"}

Session == [status : SessionStatuses, worktree : Worktrees, expires : Int]
Lock == [session : SessionIds, scope : Scopes, status : LockStatuses, expires : Int]
Item == [id : ItemIds, status : QueueStatuses]

(***************************************************************************)
(* sessions is a dictionary: its domain holds the ids present.  locks and  *)
(* queue are lists; a lock's position stands for its lock_id.  announced   *)
(* holds the lock ids that the lock.acquire events of the table name.      *)
(***************************************************************************)
IsDocument(d) ==
  /\ d = [sessions |-> d.sessions, locks |-> d.locks,
          queue |-> d.queue, announced |-> d.announced]
  /\ DOMAIN d.sessions \subseteq SessionIds
  /\ d.sessions \in [DOMAIN d.sessions -> Session]
  /\ d.locks \in Seq(Lock)
  /\ d.queue \in Seq(Item)
  /\ d.announced \subseteq Nat

EmptyDocument == [sessions |-> [s \in {} |-> {}], locks |-> << >>,
                  queue |-> << >>, announced |-> {}]

ScopesOverlap(left, right) == IsPrefix(left, right) \/ IsPrefix(right, left)

\* Fault: the lease is not looked at.
IsActiveRecord_NoLease(r, t) == r.status = "active"

IsActiveRecord(r, t) == r.status = "active" /\ r.expires > t

ActiveLocks(d, t) == {i \in DOMAIN d.locks : IsActiveRecord(d.locks[i], t)}

\* Fault: any session that exists will do.
SessionIsActive_Exists(d, s, t) == s \in DOMAIN d.sessions

SessionIsActive(d, s, t) ==
  s \in DOMAIN d.sessions /\ IsActiveRecord(d.sessions[s], t)

\* Fault: a lock below the requested scope is not seen.
Conflicts_OneWay(d, s, requested, t) ==
  {i \in ActiveLocks(d, t) :
     /\ d.locks[i].session # s
     /\ \E k \in DOMAIN requested : IsPrefix(d.locks[i].scope, requested[k])}

\* The locks of other sessions that stand in the way of a request.
Conflicts(d, s, requested, t) ==
  {i \in ActiveLocks(d, t) :
     /\ d.locks[i].session # s
     /\ \E k \in DOMAIN requested :
          ScopesOverlap(d.locks[i].scope, requested[k])}

\* One or two --scope options, in the order given.
Requests == {<<a>> : a \in Scopes} \cup {<<a, b>> : a, b \in Scopes}

Put(dict, key, value) ==
  [k \in DOMAIN dict \cup {key} |-> IF k = key THEN value ELSE dict[k]]

\* The lock list after the active locks at the positions in chosen get status.
Relabel(locks, chosen, status) ==
  [i \in DOMAIN locks |->
     IF i \in chosen /\ locks[i].status = "active"
       THEN [locks[i] EXCEPT !.status = status]
       ELSE locks[i]]

OwnedBy(d, s) == {i \in DOMAIN d.locks : d.locks[i].session = s}

NewLocks(s, requested, expires) ==
  [k \in DOMAIN requested |->
     [session |-> s, scope |-> requested[k],
      status |-> "active", expires |-> expires]]

\* Positions a release command can select: --all, --lock-id, --scope, or the
\* union of the last two.
ReleaseSelections(d) ==
  {DOMAIN d.locks}
    \cup {ids \cup {i \in DOMAIN d.locks : d.locks[i].scope \in S} :
            ids \in {{}} \cup {{i} : i \in DOMAIN d.locks}, S \in SUBSET Scopes}

\* The positions of the queue that hold the item.
Entries(d, item) == {i \in DOMAIN d.queue : d.queue[i].id = item}

-----------------------------------------------------------------------------
\* The edits of a document that commands of other components make as well.

Registered(d, s, w, expires) ==
  [d EXCEPT !.sessions = Put(@, s, [status |-> "active", worktree |-> w, expires |-> expires])]

\* Fault: a closed session is deleted, the locks it keeps are not.
Closed_Delete(d, s, status, locks) ==
  [d EXCEPT !.sessions = [t \in DOMAIN @ \ {s} |-> @[t]], !.locks = locks]

Closed(d, s, status, locks) ==
  [d EXCEPT !.sessions[s].status = status, !.locks = locks]

Acquired(d, s, requested, expires) ==
  [d EXCEPT
     !.locks = @ \o NewLocks(s, requested, expires),
     !.announced = @ \cup {Len(d.locks) + k : k \in DOMAIN requested}]

-----------------------------------------------------------------------------
\* The guard, and the end of a transaction.

Begin(p) ==
  /\ \A q \in Procs : pc[q] = "idle"
  /\ pc' = [pc EXCEPT ![p] = "begun"]
  /\ view' = [view EXCEPT ![p] = db]
  /\ UNCHANGED <<now, db>>

\* A command's body: the edits made on the connection, not yet committed.
Stage(p, edited) ==
  /\ pc[p] = "begun"
  /\ pc' = [pc EXCEPT ![p] = "staged"]
  /\ view' = [view EXCEPT ![p] = edited]
  /\ UNCHANGED <<now, db>>

Commit(p) ==
  /\ pc[p] = "staged"
  /\ db' = view[p]
  /\ pc' = [pc EXCEPT ![p] = "idle"]
  /\ view' = [view EXCEPT ![p] = EmptyDocument]
  /\ UNCHANGED now

\* Fault: a command that raises before it has written keeps the guard.
Rollback_OnlyStaged(p) ==
  /\ pc[p] = "staged"
  /\ pc' = [pc EXCEPT ![p] = "idle"]
  /\ view' = [view EXCEPT ![p] = EmptyDocument]
  /\ UNCHANGED <<now, db>>

\* An exception out of the with-block, or the death of the process.
Rollback(p) ==
  /\ pc[p] # "idle"
  /\ pc' = [pc EXCEPT ![p] = "idle"]
  /\ view' = [view EXCEPT ![p] = EmptyDocument]
  /\ UNCHANGED <<now, db>>

Tick ==
  /\ now < MaxNow
  /\ now' = now + 1
  /\ UNCHANGED <<db, pc, view>>

-----------------------------------------------------------------------------
\* The commands.

SessionRegister(p, s, w, lease, force) ==
  /\ s \in DOMAIN view[p].sessions => force
  /\ Stage(p, Registered(view[p], s, w, now + lease))

\* Fault: a heartbeat renews the leases of the session's locks as well, those
\* that have run out included.
SessionHeartbeat_Locks(p, s, reactivate, lease) ==
  /\ s \in DOMAIN view[p].sessions
  /\ Stage(p, [view[p] EXCEPT
       !.sessions[s].expires = now + lease,
       !.locks = [i \in DOMAIN @ |-> IF @[i].session = s
                                       THEN [@[i] EXCEPT !.expires = now + lease]
                                       ELSE @[i]]])

\* Without --status a session keeps its own, so that a closed one stays
\* closed; its lease is renewed all the same, and the leases of its locks never.
SessionHeartbeat(p, s, reactivate, lease) ==
  /\ s \in DOMAIN view[p].sessions
  /\ Stage(p, [view[p] EXCEPT
       !.sessions[s].status = IF reactivate THEN "active" ELSE @,
       !.sessions[s].expires = now + lease])

SessionClose(p, s, keepLocks) ==
  /\ s \in DOMAIN view[p].sessions
  /\ Stage(p, Closed(view[p], s, "closed",
                    IF keepLocks THEN view[p].locks
                      ELSE Relabel(view[p].locks, OwnedBy(view[p], s), "released")))

LockAcquire(p, s, requested, lease) ==
  LET d == view[p] IN
  /\ Len(d.locks) + Len(requested) <= MaxLocks
  /\ now + lease <= MaxNow
  /\ SessionIsActive(d, s, now)
  /\ Conflicts(d, s, requested, now) = {}
  /\ Stage(p, Acquired(d, s, requested, now + lease))

\* Fault: the event is appended before the conflict is noticed.
LockConflict_Announced(p, s, requested) ==
  /\ SessionIsActive(view[p], s, now)
  /\ Conflicts(view[p], s, requested, now) # {}
  /\ Stage(p, [view[p] EXCEPT !.announced = @ \cup {Len(view[p].locks) + 1}])

\* Exit code 2: the with-block returns normally, so an empty transaction is
\* committed.
LockConflict(p, s, requested) ==
  /\ SessionIsActive(view[p], s, now)
  /\ Conflicts(view[p], s, requested, now) # {}
  /\ Stage(p, view[p])

\* owners is SessionIds when --session-id is not given.
LockRelease(p, owners, selection) ==
  Stage(p, [view[p] EXCEPT !.locks =
    Relabel(@, {i \in selection : view[p].locks[i].session \in owners}, "released")])

\* Fault: an item may be added again once the first one is no longer pending.
QueueAdd_PendingOnly(p, item) ==
  /\ Len(view[p].queue) < MaxItems
  /\ {i \in Entries(view[p], item) : view[p].queue[i].status = "pending"} = {}
  /\ Stage(p, [view[p] EXCEPT !.queue = Append(@, [id |-> item, status |-> "pending"])])

QueueAdd(p, item) ==
  /\ Len(view[p].queue) < MaxItems
  /\ Entries(view[p], item) = {}
  /\ Stage(p, [view[p] EXCEPT !.queue = Append(@, [id |-> item, status |-> "pending"])])

\* The first entry with the id is marked.
QueueMark(p, item, status) ==
  \E i \in Entries(view[p], item) :
    /\ \A j \in Entries(view[p], item) : i <= j
    /\ Stage(p, [view[p] EXCEPT !.queue[i].status = status])

-----------------------------------------------------------------------------
Init ==
  /\ now = 0
  /\ db = EmptyDocument
  /\ pc = [p \in Procs |-> "idle"]
  /\ view = [p \in Procs |-> EmptyDocument]

SessionCommand(p) ==
  \E s \in SessionIds, lease \in Leases, option \in BOOLEAN :
    \/ \E w \in Worktrees : SessionRegister(p, s, w, lease, option)
    \/ SessionHeartbeat(p, s, option, lease)
    \/ SessionClose(p, s, option)

LockCommand(p) ==
  \/ \E s \in SessionIds, requested \in Requests :
       \/ \E lease \in Leases : LockAcquire(p, s, requested, lease)
       \/ LockConflict(p, s, requested)
  \/ \E owners \in {SessionIds} \cup {{s} : s \in SessionIds},
        selection \in ReleaseSelections(view[p]) :
       LockRelease(p, owners, selection)

QueueCommand(p) ==
  \E item \in ItemIds :
    \/ QueueAdd(p, item)
    \/ \E status \in QueueStatuses : QueueMark(p, item, status)

Command(p) == SessionCommand(p) \/ LockCommand(p) \/ QueueCommand(p)

Next ==
  \/ Tick
  \/ \E p \in Procs : Begin(p) \/ Command(p) \/ Commit(p) \/ Rollback(p)

Spec == Init /\ [][Next]_vars

(***************************************************************************)
(* The clock runs, and a process inside the guard does bounded local work: *)
(* it ends in a commit or in a rollback.  Nothing is assumed about the     *)
(* scheduling of new commands.                                             *)
(***************************************************************************)
Fairness ==
  /\ WF_vars(Tick)
  /\ \A p \in Procs : WF_vars(Commit(p) \/ Rollback(p))

FairSpec == Spec /\ Fairness

-----------------------------------------------------------------------------
\* Safety.

\* Every variable has its type: the committed document and each connection's
\* view hold the JSON shape that validate_state expects.
TypeOK ==
  /\ now \in Int
  /\ IsDocument(db)
  /\ pc \in [Procs -> {"idle", "begun", "staged"}]
  /\ view = [p \in Procs |-> view[p]]
  /\ \A p \in Procs : IsDocument(view[p])

Exclusive(d, t) ==
  \A i, j \in ActiveLocks(d, t) :
    d.locks[i].session # d.locks[j].session =>
      ~ScopesOverlap(d.locks[i].scope, d.locks[j].scope)

\* No two live locks of different sessions cover overlapping scopes, whatever
\* commands run at the same time, die half-way, or expire in between.
NoLockConflict == Exclusive(db, now)

\* What validate reports as an error: two live locks that overlap, a lock marked
\* active whose session is missing, a queue item with an unknown status.  That a
\* session lacks its worktree or an item its branch is a matter of their types.
ValidationErrors(d, t) ==
  {<<"active locks overlap across sessions", {pair[1], pair[2]}>> :
     pair \in {ij \in ActiveLocks(d, t) \X ActiveLocks(d, t) :
        /\ d.locks[ij[1]].session # d.locks[ij[2]].session
        /\ ScopesOverlap(d.locks[ij[1]].scope, d.locks[ij[2]].scope)}}
    \cup {<<"active lock references missing session", {i}>> :
           i \in {k \in DOMAIN d.locks : /\ d.locks[k].status = "active"
                                        /\ d.locks[k].session \notin DOMAIN d.sessions}}
    \cup {<<"queue item has invalid status", {i}>> :
           i \in {k \in DOMAIN d.queue : d.queue[k].status \notin QueueStatuses}}

\* worktree-coord validate never reports an error, whenever it is run: what is
\* committed is consistent across sessions, locks and queue, whatever commands
\* run at the same time, die half-way, or expire in between.
ValidatesClean == ValidationErrors(db, now) = {}

\* append_event and write share the guard's transaction: the event table
\* announces a lock exactly when the document holds it, after any crash.
AuditMatchesLocks == db.announced = DOMAIN db.locks

\* No command loses or moves a queue item that another one committed, and none
\* adds an id that is in the queue: the whole document is written back, and the
\* duplicate check is made on it, so this rests on reading it inside the guard.
QueueOnlyGrows ==
  [][/\ Len(db.queue) <= Len(db'.queue)
     /\ \A i \in DOMAIN db.queue : db'.queue[i].id = db.queue[i].id
     /\ \A i \in DOMAIN db'.queue \ DOMAIN db.queue :
          Entries(db', db'.queue[i].id) = {i}]_db

\* A lock that was released or has run out is never live again, and no lock
\* disappears from the list: neither a heartbeat nor a forced re-registration
\* brings back what another session may hold by now.
LockNeverRevives ==
  [][/\ DOMAIN db.locks \subseteq DOMAIN db'.locks
     /\ \A i \in DOMAIN db.locks :
          i \in ActiveLocks(db', now') => i \in ActiveLocks(db, now)]_<<db, now>>

\* A session that was closed when a command committed gained no lock by it:
\* the check of lock acquire is not out of date when its locks appear.
ClosedGainsNothing ==
  [][\A s \in DOMAIN db.sessions :
       db.sessions[s].status # "active" => OwnedBy(db', s) \subseteq OwnedBy(db, s)]_<<db, now>>

\* Two transactions are never open at once, one that has not written shows the
\* committed document, and one that has written would commit exclusive locks.
GuardInvariant ==
  \A p \in Procs :
    /\ pc[p] # "idle" => \A q \in Procs \ {p} : pc[q] = "idle"
    /\ pc[p] = "begun" => view[p] = db
    /\ pc[p] = "staged" => Exclusive(view[p], now)

\* The inductive invariant behind NoLockConflict.
IInv == TypeOK /\ NoLockConflict /\ GuardInvariant

-----------------------------------------------------------------------------
\* Liveness.

\* A process that took the guard gives it back, by a commit or by a rollback:
\* nobody is shut out for ever by a command that died.
GuardIsReturned ==
  \A p \in Procs : pc[p] # "idle" ~> \A q \in Procs : pc[q] = "idle"

\* A lock whose owner never comes back stops standing in the way: its lease
\* runs out, because no command renews the lease of a lock.
LocksLapse ==
  \A i \in 1..MaxLocks : i \in ActiveLocks(db, now) ~> i \notin ActiveLocks(db, now)

-----------------------------------------------------------------------------
\* Refinement: the live locks of the committed document are what is held.

Held == {[owner |-> db.locks[i].session, scope |-> db.locks[i].scope] :
           i \in ActiveLocks(db, now)}

Promise == INSTANCE LeaseLock
             WITH Owners <- SessionIds, Overlap <- ScopesOverlap, held <- Held

\* Every commit and every tick of the clock grants or drops scopes the way
\* LeaseLock allows; in particular nothing is granted on the strength of a
\* check that another commit has overtaken.
ImplementsLeaseLock == Promise!Spec
=============================================================================
