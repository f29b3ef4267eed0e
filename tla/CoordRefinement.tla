-------------------------- MODULE CoordRefinement --------------------------
(***************************************************************************)
(* For any number of processes, sessions, scopes and locks: every step of  *)
(* the store is a step of LeaseLock, and what one commit may never do to   *)
(* the locks, the events and the queue another one has committed.          *)
(***************************************************************************)
EXTENDS WorktreeCoordProofs

-----------------------------------------------------------------------------
(***************************************************************************)
(* What one command makes of a document.                                   *)
(***************************************************************************)
\* No lock is lost, changed or made active; either none is added, or those that
\* are belong to one owner, in nobody's way, and all others stay as they are.
LocksSucceed(d, e, t) ==
  /\ DOMAIN d.locks \subseteq DOMAIN e.locks
  /\ \A i \in DOMAIN d.locks :
       /\ e.locks[i].session = d.locks[i].session
       /\ e.locks[i].scope = d.locks[i].scope
       /\ e.locks[i].expires = d.locks[i].expires
       /\ e.locks[i].status = "active" => d.locks[i].status = "active"
  /\ \/ DOMAIN e.locks = DOMAIN d.locks
     \/ \E owner \in SessionIds :
          /\ \A i \in DOMAIN d.locks : e.locks[i] = d.locks[i]
          /\ \A i \in DOMAIN e.locks \ DOMAIN d.locks :
               /\ e.locks[i].session = owner
               /\ \A j \in ActiveLocks(d, t) : d.locks[j].session # owner =>
                    ~ScopesOverlap(d.locks[j].scope, e.locks[i].scope)

EventsSucceed(d, e) == d.announced = DOMAIN d.locks => e.announced = DOMAIN e.locks

ClosedSucceed(d, e) ==
  \A s \in DOMAIN d.sessions :
    d.sessions[s].status # "active" => OwnedBy(e, s) \subseteq OwnedBy(d, s)

QueueSucceed(d, e) ==
  /\ Len(d.queue) <= Len(e.queue)
  /\ \A i \in DOMAIN d.queue : e.queue[i].id = d.queue[i].id
  /\ \A i \in DOMAIN e.queue \ DOMAIN d.queue : Entries(e, e.queue[i].id) = {i}

Succeeds(d, e, t) ==
  LocksSucceed(d, e, t) /\ EventsSucceed(d, e) /\ ClosedSucceed(d, e) /\ QueueSucceed(d, e)

\* The guard as it is used here: what is staged succeeds what is committed.
StagedSucceeds == \A p \in Procs : pc[p] = "staged" => Succeeds(db, view[p], now)

-----------------------------------------------------------------------------
(***************************************************************************)
(* The edits.                                                              *)
(***************************************************************************)
\* A queue that stays succeeds itself.
LEMMA SameQueue ==
  ASSUME NEW d, IsDocument(d), NEW e, e.queue = d.queue
  PROVE  QueueSucceed(d, e)
<1>1. Len(d.queue) \in Nat
  BY DEF IsDocument
<1> QED
  BY <1>1 DEF QueueSucceed

\* So does a document of which only the sessions are edited.
LEMMA SameLocks ==
  ASSUME NEW d, IsDocument(d), NEW e, NEW t, e.locks = d.locks, e.announced = d.announced
  PROVE  LocksSucceed(d, e, t) /\ EventsSucceed(d, e) /\ ClosedSucceed(d, e)
BY DEF LocksSucceed, EventsSucceed, ClosedSucceed, OwnedBy

\* Releasing locks takes nothing else along.
LEMMA ReleasedSucceeds ==
  ASSUME NEW d, IsDocument(d), NEW e, NEW t, NEW chosen,
         NEW status \in LockStatuses \ {"active"},
         e.locks = Relabel(d.locks, chosen, status),
         e.queue = d.queue, e.announced = d.announced
  PROVE  Succeeds(d, e, t)
<1>1. d.locks \in Seq(Lock)
  BY DEF IsDocument
<1>2. /\ DOMAIN e.locks = DOMAIN d.locks
      /\ \A i \in DOMAIN d.locks :
           /\ e.locks[i].session = d.locks[i].session
           /\ e.locks[i].scope = d.locks[i].scope
           /\ e.locks[i].expires = d.locks[i].expires
           /\ e.locks[i].status \in {d.locks[i].status, status}
  BY <1>1, RelabelType
<1>3. LocksSucceed(d, e, t)
  BY <1>2 DEF LocksSucceed
<1>4. EventsSucceed(d, e) /\ ClosedSucceed(d, e)
  BY <1>2 DEF EventsSucceed, ClosedSucceed, OwnedBy
<1> QED
  BY <1>3, <1>4, SameQueue DEF Succeeds

\* A granted request adds its locks at the end, and announces those alone.
LEMMA AcquiredSucceeds ==
  ASSUME NEW d, IsDocument(d), NEW s \in SessionIds, NEW requested \in Requests,
         NEW expires \in Int, NEW t, NEW e,
         SessionIsActive(d, s, t), Conflicts(d, s, requested, t) = {},
         e.locks = d.locks \o NewLocks(s, requested, expires),
         e.announced = d.announced \cup {Len(d.locks) + k : k \in DOMAIN requested},
         e.queue = d.queue
  PROVE  Succeeds(d, e, t)
<1> DEFINE n == Len(d.locks)
           m == Len(requested)
           new == NewLocks(s, requested, expires)
<1>1. d.locks \in Seq(Lock) /\ n \in Nat /\ DOMAIN d.locks = 1..n
  BY DEF IsDocument
<1>2. /\ requested \in Seq(Scopes) /\ new \in Seq(Lock)
      /\ DOMAIN new = DOMAIN requested /\ Len(new) = m
      /\ \A k \in DOMAIN new : new[k].session = s /\ new[k].scope = requested[k]
  BY NewLocksType
<1>3. e.locks = d.locks \o new
  OBVIOUS
<1> HIDE DEF new
<1>4. m \in Nat /\ DOMAIN requested = 1..m
  BY <1>2
<1>5. DOMAIN e.locks = 1..(n + m)
  BY <1>1, <1>2, <1>3, <1>4
<1>6. \A i \in DOMAIN d.locks : e.locks[i] = d.locks[i]
  BY <1>1, <1>2, <1>3
<1>7. ASSUME NEW i \in DOMAIN e.locks \ DOMAIN d.locks
      PROVE  i - n \in DOMAIN requested /\ e.locks[i].session = s /\ e.locks[i].scope = requested[i - n]
  <2>1. i - n \in DOMAIN new /\ e.locks[i] = new[i - n]
    BY <1>1, <1>2, <1>3, <1>4, <1>5
  <2> QED
    BY <1>2, <2>1
<1>8. LocksSucceed(d, e, t)
  <2>1. ASSUME NEW i \in DOMAIN e.locks \ DOMAIN d.locks,
               NEW j \in ActiveLocks(d, t), d.locks[j].session # s
        PROVE  ~ScopesOverlap(d.locks[j].scope, e.locks[i].scope)
    BY <1>7, <2>1 DEF Conflicts
  <2>2. DOMAIN d.locks \subseteq DOMAIN e.locks
    BY <1>1, <1>4, <1>5
  <2> QED
    BY <1>6, <1>7, <2>1, <2>2 DEF LocksSucceed
<1>9. EventsSucceed(d, e)
  <2>1. (1..n) \cup {n + k : k \in 1..m} = 1..(n + m)
    <3>1. ASSUME NEW x \in 1..(n + m) PROVE x \in (1..n) \cup {n + k : k \in 1..m}
      <4>1. CASE x <= n
        BY <1>1, <1>4, <4>1
      <4>2. CASE ~ (x <= n)
        <5>1. x - n \in 1..m /\ x = n + (x - n)
          BY <1>1, <1>4, <4>2
        <5> QED
          BY <5>1
      <4> QED
        BY <4>1, <4>2
    <3>2. ASSUME NEW k \in 1..m PROVE n + k \in 1..(n + m)
      BY <1>1, <1>4
    <3>3. 1..n \subseteq 1..(n + m)
      BY <1>1, <1>4
    <3> QED
      BY <3>1, <3>2, <3>3
  <2> QED
    BY <1>1, <1>4, <1>5, <2>1 DEF EventsSucceed
<1>10. ClosedSucceed(d, e)
  <2> SUFFICES ASSUME NEW other \in DOMAIN d.sessions, d.sessions[other].status # "active",
                      NEW i \in OwnedBy(e, other)
               PROVE  i \in OwnedBy(d, other)
    BY DEF ClosedSucceed
  <2>1. other # s
    BY DEF SessionIsActive, IsActiveRecord
  <2>2. i \in DOMAIN e.locks /\ e.locks[i].session = other
    BY DEF OwnedBy
  <2>3. i \in DOMAIN d.locks
    BY <1>7, <2>1, <2>2
  <2> QED
    BY <1>6, <2>2, <2>3 DEF OwnedBy
<1> QED
  BY <1>8, <1>9, <1>10, SameQueue DEF Succeeds

\* A new item has an id of its own.
LEMMA AddedSucceeds ==
  ASSUME NEW d, IsDocument(d), NEW e, NEW item, Entries(d, item) = {},
         e.queue = Append(d.queue, [id |-> item, status |-> "pending"])
  PROVE  QueueSucceed(d, e)
<1> DEFINE n == Len(d.queue)
<1>1. d.queue \in Seq(Item) /\ n \in Nat /\ DOMAIN d.queue = 1..n
  BY DEF IsDocument
<1>2. /\ Len(e.queue) = n + 1 /\ DOMAIN e.queue = 1..(n + 1)
      /\ \A i \in 1..n : e.queue[i] = d.queue[i]
      /\ e.queue[n + 1] = [id |-> item, status |-> "pending"]
  BY <1>1
<1>3. \A i \in DOMAIN e.queue \ DOMAIN d.queue : i = n + 1
  BY <1>1, <1>2
<1>4. Entries(e, item) = {n + 1}
  <2>1. \A i \in 1..n : e.queue[i].id # item
    BY <1>1, <1>2 DEF Entries
  <2>2. \A i \in 1..(n + 1) : i \in 1..n \/ i = n + 1
    BY <1>1
  <2>3. n + 1 \in 1..(n + 1)
    BY <1>1
  <2> QED
    BY <1>2, <2>1, <2>2, <2>3 DEF Entries
<1> QED
  BY <1>1, <1>2, <1>3, <1>4 DEF QueueSucceed

\* Whatever a command writes succeeds what it has read.
LEMMA CommandSucceeds ==
  ASSUME now \in Int, NEW p \in Procs, IsDocument(view[p]), Command(p)
  PROVE  \E e : Stage(p, e) /\ Succeeds(view[p], e, now)
<1> DEFINE d == view[p]
<1> USE CoordAssumption
<1>1. ASSUME NEW s \in SessionIds, NEW lease \in Leases, NEW option \in BOOLEAN,
             \/ \E w \in Worktrees : SessionRegister(p, s, w, lease, option)
             \/ SessionHeartbeat(p, s, option, lease)
      PROVE  \E e : Stage(p, e) /\ Succeeds(d, e, now)
  <2>1. PICK f : Stage(p, [d EXCEPT !.sessions = f])
    <3>1. ASSUME NEW w \in Worktrees, SessionRegister(p, s, w, lease, option)
          PROVE  \E f : Stage(p, [d EXCEPT !.sessions = f])
      BY <3>1, Zenon DEF SessionRegister, Registered
    <3>2. ASSUME SessionHeartbeat(p, s, option, lease)
          PROVE  \E f : Stage(p, [d EXCEPT !.sessions = f])
      <4> DEFINE f == [d.sessions EXCEPT ![s] = [@ EXCEPT
                         !.status = IF option THEN "active" ELSE d.sessions[s].status,
                         !.expires = now + lease]]
      <4>1. Stage(p, [d EXCEPT !.sessions = f])
        BY <3>2 DEF SessionHeartbeat
      <4> QED
        BY <4>1
    <3> QED
      BY <1>1, <3>1, <3>2
  <2>2. PICK e : e = [d EXCEPT !.sessions = f]
    OBVIOUS
  <2>3. e.locks = d.locks /\ e.announced = d.announced /\ e.queue = d.queue
    BY <2>2 DEF IsDocument
  <2> QED
    BY <2>1, <2>2, <2>3, SameLocks, SameQueue DEF Succeeds
<1>2. ASSUME NEW s \in SessionIds, NEW keepLocks \in BOOLEAN, SessionClose(p, s, keepLocks)
      PROVE  \E e : Stage(p, e) /\ Succeeds(d, e, now)
  <2> DEFINE released == Relabel(d.locks, OwnedBy(d, s), "released")
             locks == IF keepLocks THEN d.locks ELSE released
  <2>1. Stage(p, Closed(d, s, "closed", locks))
    BY <1>2 DEF SessionClose
  <2>2. locks = d.locks \/ locks = released
    OBVIOUS
  <2> HIDE DEF locks, released
  <2>e. PICK e : e = Closed(d, s, "closed", locks)
    OBVIOUS
  <2>3. Stage(p, e) /\ e.locks = locks /\ e.announced = d.announced /\ e.queue = d.queue
    BY <2>1, <2>e DEF Closed, IsDocument
  <2>4. CASE locks = d.locks
    BY <2>3, <2>4, SameLocks, SameQueue DEF Succeeds
  <2>5. CASE locks = released
    <3>1. "released" \in LockStatuses \ {"active"}
      BY DEF LockStatuses
    <3> QED
      BY <2>3, <2>5, <3>1, ReleasedSucceeds DEF released
  <2> QED
    BY <2>2, <2>4, <2>5
<1>3. ASSUME NEW s \in SessionIds, NEW requested \in Requests, NEW lease \in Leases,
             LockAcquire(p, s, requested, lease)
      PROVE  \E e : Stage(p, e) /\ Succeeds(d, e, now)
  <2>1. /\ SessionIsActive(d, s, now) /\ Conflicts(d, s, requested, now) = {}
        /\ Stage(p, Acquired(d, s, requested, now + lease))
    BY <1>3 DEF LockAcquire
  <2>2. now + lease \in Int
    OBVIOUS
  <2>3. PICK e : e = Acquired(d, s, requested, now + lease)
    OBVIOUS
  <2>4. /\ e.locks = d.locks \o NewLocks(s, requested, now + lease)
        /\ e.announced = d.announced \cup {Len(d.locks) + k : k \in DOMAIN requested}
        /\ e.queue = d.queue
    BY <2>3 DEF Acquired, IsDocument
  <2> QED
    BY <2>1, <2>2, <2>3, <2>4, AcquiredSucceeds
<1>4. ASSUME NEW s \in SessionIds, NEW requested \in Requests, LockConflict(p, s, requested)
      PROVE  \E e : Stage(p, e) /\ Succeeds(d, e, now)
  BY <1>4, SameLocks, SameQueue DEF LockConflict, Succeeds
<1>5. ASSUME NEW owners, NEW selection, LockRelease(p, owners, selection)
      PROVE  \E e : Stage(p, e) /\ Succeeds(d, e, now)
  <2> DEFINE chosen == {i \in selection : d.locks[i].session \in owners}
             locks == Relabel(d.locks, chosen, "released")
  <2>1. Stage(p, [d EXCEPT !.locks = locks])
    BY <1>5 DEF LockRelease
  <2> HIDE DEF chosen
  <2>2. PICK e : /\ Stage(p, e) /\ e.locks = locks
                 /\ e.announced = d.announced /\ e.queue = d.queue
    BY <2>1 DEF IsDocument
  <2>3. "released" \in LockStatuses \ {"active"}
    BY DEF LockStatuses
  <2> QED
    BY <2>2, <2>3, ReleasedSucceeds
<1>6. ASSUME NEW item \in ItemIds, QueueAdd(p, item)
      PROVE  \E e : Stage(p, e) /\ Succeeds(d, e, now)
  <2>1. PICK e : /\ Stage(p, e) /\ e.locks = d.locks /\ e.announced = d.announced
                 /\ e.queue = Append(d.queue, [id |-> item, status |-> "pending"])
    BY <1>6 DEF QueueAdd, IsDocument
  <2>2. Entries(d, item) = {}
    BY <1>6 DEF QueueAdd
  <2> QED
    BY <2>1, <2>2, SameLocks, AddedSucceeds DEF Succeeds
<1>7. ASSUME NEW item \in ItemIds, NEW status \in QueueStatuses, QueueMark(p, item, status)
      PROVE  \E e : Stage(p, e) /\ Succeeds(d, e, now)
  <2>1. PICK i \in DOMAIN d.queue : Stage(p, [d EXCEPT !.queue[i].status = status])
    BY <1>7 DEF QueueMark, Entries
  <2>e. PICK e : e = [d EXCEPT !.queue = [d.queue EXCEPT ![i].status = status]]
    OBVIOUS
  <2>2. /\ Stage(p, e) /\ e.locks = d.locks /\ e.announced = d.announced
        /\ e.queue = [d.queue EXCEPT ![i].status = status]
    BY <2>1, <2>e DEF IsDocument
  <2>3. d.queue \in Seq(Item) /\ d.queue[i] \in Item
    BY DEF IsDocument
  <2>4. DOMAIN e.queue = DOMAIN d.queue /\ \A j \in DOMAIN d.queue : e.queue[j].id = d.queue[j].id
    BY <2>2, <2>3 DEF Item
  <2>5. Len(e.queue) = Len(d.queue) /\ Len(d.queue) \in Nat
    BY <2>2, <2>3
  <2>6. QueueSucceed(d, e)
    BY <2>4, <2>5 DEF QueueSucceed
  <2> QED
    BY <2>2, <2>6, SameLocks DEF Succeeds
<1>8. SessionCommand(p) => \E e : Stage(p, e) /\ Succeeds(d, e, now)
  BY <1>1, <1>2 DEF SessionCommand
<1>9. LockCommand(p) => \E e : Stage(p, e) /\ Succeeds(d, e, now)
  BY <1>3, <1>4, <1>5 DEF LockCommand
<1>10. QueueCommand(p) => \E e : Stage(p, e) /\ Succeeds(d, e, now)
  BY <1>6, <1>7 DEF QueueCommand
<1> QED
  BY <1>8, <1>9, <1>10 DEF Command

\* Time takes locks out of the way, and puts none in it.
LEMMA SucceedsLater ==
  ASSUME NEW d, IsDocument(d), NEW e, NEW t \in Int, NEW u \in Int, t <= u, Succeeds(d, e, t)
  PROVE  Succeeds(d, e, u)
<1>1. ActiveLocks(d, u) \subseteq ActiveLocks(d, t)
  <2> SUFFICES ASSUME NEW i \in ActiveLocks(d, u) PROVE i \in ActiveLocks(d, t)
    OBVIOUS
  <2>1. d.locks[i] \in Lock
    BY DEF IsDocument, ActiveLocks
  <2>2. d.locks[i].expires \in Int
    BY <2>1 DEF Lock
  <2> QED
    BY <2>2 DEF ActiveLocks, IsActiveRecord
<1> QED
  BY <1>1 DEF Succeeds, LocksSucceed

\* What is staged succeeds what is committed, because the guard keeps every other
\* command from committing in between.
LEMMA GuardKeepsUp ==
  ASSUME TypeOK, GuardInvariant, StagedSucceeds, [Next]_vars
  PROVE  StagedSucceeds'
<1> USE CoordAssumption
<1>1. CASE Tick
  <2>1. now \in Int /\ now' \in Int /\ now <= now' /\ UNCHANGED <<db, pc, view>>
    BY <1>1 DEF Tick, TypeOK
  <2>2. ASSUME NEW p \in Procs, pc[p] = "staged" PROVE Succeeds(db, view[p], now')
    BY <2>1, <2>2, SucceedsLater DEF StagedSucceeds, TypeOK
  <2> QED
    BY <2>1, <2>2 DEF StagedSucceeds
<1>2. CASE UNCHANGED vars
  BY <1>2 DEF vars, StagedSucceeds
<1>3. ASSUME NEW p \in Procs, Begin(p) PROVE StagedSucceeds'
  BY <1>3 DEF Begin, TypeOK, StagedSucceeds
<1>4. ASSUME NEW p \in Procs, Command(p) PROVE StagedSucceeds'
  <2>1. PICK e : Stage(p, e) /\ Succeeds(view[p], e, now)
    BY <1>4, CommandSucceeds DEF TypeOK
  <2>2. Succeeds(db, e, now)
    BY <2>1 DEF Stage, GuardInvariant
  <2>3. /\ UNCHANGED <<now, db>> /\ pc' = [pc EXCEPT ![p] = "staged"] /\ view' = [view EXCEPT ![p] = e]
        /\ pc \in [Procs -> {"idle", "begun", "staged"}] /\ view = [q \in Procs |-> view[q]]
    BY <2>1 DEF Stage, TypeOK
  <2>4. ASSUME NEW q \in Procs, pc'[q] = "staged" PROVE Succeeds(db', view'[q], now')
    BY <2>2, <2>3, <2>4 DEF StagedSucceeds
  <2> QED
    BY <2>4 DEF StagedSucceeds
<1>5. ASSUME NEW p \in Procs, Commit(p) \/ Rollback(p) PROVE StagedSucceeds'
  BY <1>5 DEF Commit, Rollback, TypeOK, GuardInvariant, StagedSucceeds
<1> QED
  BY <1>1, <1>2, <1>3, <1>4, <1>5 DEF Next

\* So every step leaves the document as it is, or puts one in its place that
\* succeeds it at an unchanged time.
LEMMA StepSucceeds ==
  ASSUME TypeOK, StagedSucceeds, [Next]_vars
  PROVE  \/ db' = db /\ now' \in Int /\ now <= now'
         \/ now' = now /\ IsDocument(db') /\ Succeeds(db, db', now)
<1>1. CASE Tick \/ UNCHANGED vars
  BY <1>1 DEF Tick, vars, TypeOK
<1>2. ASSUME NEW p \in Procs, Begin(p) \/ Rollback(p) PROVE db' = db /\ now' = now
  BY <1>2 DEF Begin, Rollback
<1>3. ASSUME NEW p \in Procs, Command(p) PROVE db' = db /\ now' = now
  <2>1. PICK e : Stage(p, e)
    BY <1>3, CommandIsSound DEF TypeOK
  <2> QED
    BY <2>1 DEF Stage
<1>4. ASSUME NEW p \in Procs, Commit(p)
      PROVE  now' = now /\ IsDocument(db') /\ Succeeds(db, db', now)
  BY <1>4 DEF Commit, TypeOK, StagedSucceeds
<1> QED
  BY <1>1, <1>2, <1>3, <1>4 DEF Next, TypeOK

\* The invariant that the steps below start from.
LEMMA Guarded == Spec => [](TypeOK /\ StagedSucceeds)
<1>1. Init => StagedSucceeds
  BY DEF Init, StagedSucceeds
<1>2. TypeOK /\ GuardInvariant /\ StagedSucceeds /\ [Next]_vars => StagedSucceeds'
  BY GuardKeepsUp
<1> QED
  BY <1>1, <1>2, TypeCorrect, Exclusion, PTL DEF Spec

-----------------------------------------------------------------------------
(***************************************************************************)
(* What a step may never do.                                               *)
(***************************************************************************)
\* The event table announces a lock exactly when the document holds it, wherever
\* a command dies (append_event and write share the transaction of the guard).
THEOREM EventsMatch == Spec => []AuditMatchesLocks
<1>1. Init => AuditMatchesLocks
  BY DEF Init, AuditMatchesLocks, EmptyDocument
<1>2. TypeOK /\ StagedSucceeds /\ AuditMatchesLocks /\ [Next]_vars => AuditMatchesLocks'
  <2> SUFFICES ASSUME TypeOK, StagedSucceeds, AuditMatchesLocks, [Next]_vars
               PROVE  AuditMatchesLocks'
    OBVIOUS
  <2>1. db' = db \/ EventsSucceed(db, db')
    BY StepSucceeds DEF Succeeds
  <2> QED
    BY <2>1 DEF AuditMatchesLocks, EventsSucceed
<1> QED
  BY <1>1, <1>2, Guarded, PTL DEF Spec

\* A lock that was released or has run out is never live again, and none leaves
\* the list (the commands of worktree/coord.py that write locks).
THEOREM NoneRevives == Spec => LockNeverRevives
<1> DEFINE Step ==
      /\ DOMAIN db.locks \subseteq DOMAIN db'.locks
      /\ \A i \in DOMAIN db.locks :
           i \in ActiveLocks(db', now') => i \in ActiveLocks(db, now)
<1>1. TypeOK /\ StagedSucceeds /\ [Next]_vars => [Step]_<<db, now>>
  <2> SUFFICES ASSUME TypeOK, StagedSucceeds, [Next]_vars PROVE Step
    OBVIOUS
  <2>1. CASE db' = db /\ now' \in Int /\ now <= now'
    <3>1. ASSUME NEW i \in DOMAIN db.locks PROVE db.locks[i].expires \in Int
      <4>1. db.locks[i] \in Lock
        BY DEF TypeOK, IsDocument
      <4> QED
        BY <4>1 DEF Lock
    <3> QED
      BY <2>1, <3>1 DEF TypeOK, ActiveLocks, IsActiveRecord
  <2>2. CASE now' = now /\ LocksSucceed(db, db', now)
    BY <2>2 DEF LocksSucceed, ActiveLocks, IsActiveRecord
  <2> QED
    BY <2>1, <2>2, StepSucceeds DEF Succeeds
<1> QED
  BY <1>1, Guarded, PTL DEF Spec, LockNeverRevives

\* No command gives a lock to a session that another one has closed (lock
\* acquire looks at the session inside the guard).
THEOREM ClosedStaysBare == Spec => ClosedGainsNothing
<1> DEFINE Step == \A s \in DOMAIN db.sessions :
                     db.sessions[s].status # "active" => OwnedBy(db', s) \subseteq OwnedBy(db, s)
<1>1. TypeOK /\ StagedSucceeds /\ [Next]_vars => [Step]_<<db, now>>
  <2> SUFFICES ASSUME TypeOK, StagedSucceeds, [Next]_vars PROVE Step
    OBVIOUS
  <2>1. db' = db \/ ClosedSucceed(db, db')
    BY StepSucceeds DEF Succeeds
  <2> QED
    BY <2>1 DEF ClosedSucceed
<1> QED
  BY <1>1, Guarded, PTL DEF Spec, ClosedGainsNothing

\* No command loses or moves an item of the queue that another one committed,
\* and none adds an id again (queue add reads the queue inside the guard).
THEOREM QueueIsKept == Spec => QueueOnlyGrows
<1> DEFINE Step ==
      /\ Len(db.queue) <= Len(db'.queue)
      /\ \A i \in DOMAIN db.queue : db'.queue[i].id = db.queue[i].id
      /\ \A i \in DOMAIN db'.queue \ DOMAIN db.queue :
           Entries(db', db'.queue[i].id) = {i}
<1>1. TypeOK /\ StagedSucceeds /\ [Next]_vars => [Step]_db
  <2> SUFFICES ASSUME TypeOK, StagedSucceeds, [Next]_vars PROVE [Step]_db
    OBVIOUS
  <2>1. db' = db \/ QueueSucceed(db, db')
    BY StepSucceeds DEF Succeeds
  <2> QED
    BY <2>1 DEF QueueSucceed
<1> QED
  BY <1>1, Guarded, PTL DEF Spec, QueueOnlyGrows

-----------------------------------------------------------------------------
(***************************************************************************)
(* The refinement.                                                         *)
(***************************************************************************)
\* What the live locks of a document claim.
Claims(d, t) == {[owner |-> d.locks[i].session, scope |-> d.locks[i].scope] : i \in ActiveLocks(d, t)}

\* Time only takes claims away.
LEMMA ClaimsLapse ==
  ASSUME NEW d, IsDocument(d), NEW t \in Int, NEW u \in Int, t <= u
  PROVE  Claims(d, u) \subseteq Claims(d, t)
<1>1. ASSUME NEW i \in ActiveLocks(d, u) PROVE i \in ActiveLocks(d, t)
  <2>1. d.locks[i] \in Lock
    BY DEF IsDocument, ActiveLocks
  <2>2. d.locks[i].expires \in Int
    BY <2>1 DEF Lock
  <2> QED
    BY <2>2 DEF ActiveLocks, IsActiveRecord
<1> QED
  BY <1>1 DEF Claims

\* A document that succeeds another one either claims less, or what one owner has
\* been granted in addition.
LEMMA ClaimsSucceed ==
  ASSUME NEW d, IsDocument(d), NEW e, IsDocument(e), NEW t, LocksSucceed(d, e, t)
  PROVE  \/ Claims(e, t) \subseteq Claims(d, t)
         \/ \E owner \in SessionIds, granted \in SUBSET Scopes :
              /\ \A scope \in granted : \A h \in Claims(d, t) :
                   h.owner # owner => ~ScopesOverlap(h.scope, scope)
              /\ Claims(e, t) = Claims(d, t) \cup
                   {[owner |-> owner, scope |-> scope] : scope \in granted}
<1>1. CASE DOMAIN e.locks = DOMAIN d.locks
  BY <1>1 DEF LocksSucceed, Claims, ActiveLocks, IsActiveRecord
<1>2. CASE DOMAIN e.locks # DOMAIN d.locks
  <2>1. PICK owner \in SessionIds :
          /\ \A i \in DOMAIN d.locks : e.locks[i] = d.locks[i]
          /\ \A i \in DOMAIN e.locks \ DOMAIN d.locks :
               /\ e.locks[i].session = owner
               /\ \A j \in ActiveLocks(d, t) : d.locks[j].session # owner =>
                    ~ScopesOverlap(d.locks[j].scope, e.locks[i].scope)
    BY <1>2 DEF LocksSucceed
  <2> DEFINE added == ActiveLocks(e, t) \ DOMAIN d.locks
             granted == {e.locks[i].scope : i \in added}
  <2>2. granted \in SUBSET Scopes
    <3>1. ASSUME NEW i \in added PROVE e.locks[i].scope \in Scopes
      <4>1. e.locks[i] \in Lock
        BY DEF IsDocument, ActiveLocks
      <4> QED
        BY <4>1 DEF Lock
    <3> QED
      BY <3>1
  <2>3. ActiveLocks(e, t) = ActiveLocks(d, t) \cup added
    BY <2>1 DEF LocksSucceed, ActiveLocks
  <2>4. \A i \in added : e.locks[i].session = owner
    BY <2>1 DEF ActiveLocks
  <2>5. \A scope \in granted : \A h \in Claims(d, t) : h.owner # owner => ~ScopesOverlap(h.scope, scope)
    BY <2>1 DEF Claims, ActiveLocks
  <2>6. \A i \in ActiveLocks(d, t) : e.locks[i] = d.locks[i]
    BY <2>1 DEF ActiveLocks
  <2>7. Claims(e, t) = Claims(d, t) \cup {[owner |-> owner, scope |-> scope] : scope \in granted}
    BY <2>3, <2>4, <2>6 DEF Claims
  <2> QED
    BY <2>2, <2>5, <2>7
<1> QED
  BY <1>1, <1>2

\* The store keeps the promise of LeaseLock: every commit and every tick of the
\* clock grants scopes that nobody else's stand in the way of, or drops some, for
\* any number of commands that overlap and die.
THEOREM Refinement == Spec => ImplementsLeaseLock
<1>1. Init => Promise!Init
  BY DEF Init, Promise!Init, Held, ActiveLocks, EmptyDocument
<1>2. TypeOK /\ StagedSucceeds /\ [Next]_vars => [Promise!Next]_Held
  <2> SUFFICES ASSUME TypeOK, StagedSucceeds, [Next]_vars PROVE [Promise!Next]_Held
    OBVIOUS
  <2>1. Held = Claims(db, now) /\ Held' = Claims(db', now')
    BY DEF Held, Claims
  <2>2. IsDocument(db) /\ now \in Int
    BY DEF TypeOK
  <2>3. ASSUME Held' \subseteq Held PROVE Promise!Next
    <3>1. Held' = Held \ (Held \ Held') /\ (Held \ Held') \in SUBSET Held
      BY <2>3
    <3> QED
      BY <3>1 DEF Promise!Next, Promise!Drop
  <2>4. CASE db' = db /\ now' \in Int /\ now <= now'
    BY <2>1, <2>2, <2>3, <2>4, ClaimsLapse
  <2>5. CASE now' = now /\ IsDocument(db') /\ LocksSucceed(db, db', now)
    <3>1. CASE Claims(db', now) \subseteq Claims(db, now)
      BY <2>1, <2>3, <2>5, <3>1
    <3>2. ASSUME NEW owner \in SessionIds, NEW granted \in SUBSET Scopes,
                 \A scope \in granted : \A h \in Claims(db, now) :
                   h.owner # owner => ~ScopesOverlap(h.scope, scope),
                 Claims(db', now) = Claims(db, now) \cup
                   {[owner |-> owner, scope |-> scope] : scope \in granted}
          PROVE  Promise!Next
      <4>1. \A scope \in granted : Promise!Available(owner, scope)
        BY <2>1, <3>2 DEF Promise!Available
      <4>2. Held' = Held \cup {[owner |-> owner, scope |-> scope] : scope \in granted}
        BY <2>1, <2>5, <3>2
      <4>3. Promise!Grant(owner, granted)
        BY <4>1, <4>2 DEF Promise!Grant
      <4> QED
        BY <4>3 DEF Promise!Next
    <3> QED
      BY <2>2, <2>5, <3>1, <3>2, ClaimsSucceed
  <2> QED
    BY <2>4, <2>5, StepSucceeds DEF Succeeds
<1> QED
  BY <1>1, <1>2, Guarded, PTL DEF Spec, ImplementsLeaseLock, Promise!Spec
=============================================================================
