------------------------ MODULE WorktreeCoordProofs ------------------------
(***************************************************************************)
(* For any number of processes, sessions, scopes and locks: the store has  *)
(* its type, and no two live locks of different sessions overlap.          *)
(***************************************************************************)
EXTENDS WorktreeCoord, TLAPS

-----------------------------------------------------------------------------
\* Types of the parts of a document.

\* An empty document is a document.
LEMMA EmptyIsDocument == IsDocument(EmptyDocument)
BY DEF IsDocument, EmptyDocument

\* Writing one key of the sessions keeps the dictionary's type.
LEMMA PutType ==
  ASSUME NEW f, DOMAIN f \subseteq SessionIds, f \in [DOMAIN f -> Session],
         NEW s \in SessionIds, NEW v \in Session
  PROVE  LET g == Put(f, s, v) IN
         /\ DOMAIN g \subseteq SessionIds
         /\ g \in [DOMAIN g -> Session]
         /\ DOMAIN g = DOMAIN f \cup {s}
BY DEF Put

\* Relabelling keeps the list's length and type, and what a lock stands for.
LEMMA RelabelType ==
  ASSUME NEW locks \in Seq(Lock), NEW chosen, NEW status \in LockStatuses
  PROVE  LET new == Relabel(locks, chosen, status) IN
         /\ new \in Seq(Lock)
         /\ DOMAIN new = DOMAIN locks
         /\ \A i \in DOMAIN locks :
              /\ new[i].session = locks[i].session
              /\ new[i].scope = locks[i].scope
              /\ new[i].expires = locks[i].expires
              /\ new[i].status \in {locks[i].status, status}
<1> DEFINE new == Relabel(locks, chosen, status)
<1>1. DOMAIN new = DOMAIN locks
  BY DEF Relabel
<1>2. ASSUME NEW i \in DOMAIN locks
      PROVE  /\ new[i] \in Lock
             /\ new[i].session = locks[i].session
             /\ new[i].scope = locks[i].scope
             /\ new[i].expires = locks[i].expires
             /\ new[i].status \in {locks[i].status, status}
  <2>1. locks[i] \in Lock
    OBVIOUS
  <2> QED
    BY <2>1 DEF Relabel, Lock
<1>3. new \in Seq(Lock)
  <2>1. DOMAIN locks = 1..Len(locks) /\ Len(locks) \in Nat
    OBVIOUS
  <2>2. new = [i \in 1..Len(locks) |-> new[i]]
    BY <2>1 DEF Relabel
  <2> QED
    BY <1>1, <1>2, <2>1, <2>2
<1> QED
  BY <1>1, <1>2, <1>3

\* A request makes a list of locks, one per scope, all of the same session.
LEMMA NewLocksType ==
  ASSUME NEW s \in SessionIds, NEW requested \in Requests, NEW expires \in Int
  PROVE  LET new == NewLocks(s, requested, expires) IN
         /\ requested \in Seq(Scopes)
         /\ new \in Seq(Lock)
         /\ DOMAIN new = DOMAIN requested
         /\ Len(new) = Len(requested)
         /\ \A k \in DOMAIN new : new[k].session = s /\ new[k].scope = requested[k]
<1> DEFINE new == NewLocks(s, requested, expires)
<1>1. requested \in Seq(Scopes)
  <2>1. CASE \E a \in Scopes : requested = <<a>>
    BY <2>1
  <2>2. CASE \E a, b \in Scopes : requested = <<a, b>>
    BY <2>2
  <2> QED
    BY <2>1, <2>2 DEF Requests
<1>2. DOMAIN requested = 1..Len(requested) /\ Len(requested) \in Nat
  BY <1>1
<1>3. ASSUME NEW k \in DOMAIN requested
      PROVE  new[k] \in Lock /\ new[k].session = s /\ new[k].scope = requested[k]
  <2>1. requested[k] \in Scopes
    BY <1>1
  <2> QED
    BY <2>1 DEF NewLocks, Lock, LockStatuses
<1>4. DOMAIN new = DOMAIN requested
  BY DEF NewLocks
<1>5. new = [k \in 1..Len(requested) |-> new[k]]
  BY <1>2 DEF NewLocks
<1>6. new \in Seq(Lock) /\ Len(new) = Len(requested)
  BY <1>2, <1>3, <1>4, <1>5
<1> QED
  BY <1>1, <1>3, <1>4, <1>6

-----------------------------------------------------------------------------
\* What an edit does to the exclusion of locks.

\* Time only ends leases.
LEMMA ExclusiveLater ==
  ASSUME NEW d, IsDocument(d), NEW t \in Int, NEW u \in Int, t <= u, Exclusive(d, t)
  PROVE  Exclusive(d, u)
<1>1. ASSUME NEW i \in ActiveLocks(d, u)
      PROVE  i \in ActiveLocks(d, t)
  <2>1. d.locks[i] \in Lock
    BY <1>1 DEF IsDocument, ActiveLocks
  <2>2. d.locks[i].expires \in Int
    BY <2>1 DEF Lock
  <2> QED
    BY <1>1, <2>2 DEF ActiveLocks, IsActiveRecord
<1> QED
  BY <1>1 DEF Exclusive

\* Locks that keep their session, scope and lease and at most lose their
\* status stay exclusive.
LEMMA ExclusiveFewer ==
  ASSUME NEW d, NEW e, NEW t, Exclusive(d, t),
         DOMAIN e.locks = DOMAIN d.locks,
         \A i \in DOMAIN d.locks :
           /\ e.locks[i].session = d.locks[i].session
           /\ e.locks[i].scope = d.locks[i].scope
           /\ e.locks[i].expires = d.locks[i].expires
           /\ e.locks[i].status = "active" => d.locks[i].status = "active"
  PROVE  Exclusive(e, t)
BY DEF Exclusive, ActiveLocks, IsActiveRecord

\* Overlap does not depend on the order of the scopes.
LEMMA OverlapSymmetric ==
  ASSUME NEW a, NEW b
  PROVE  ScopesOverlap(a, b) <=> ScopesOverlap(b, a)
BY DEF ScopesOverlap

\* Locks of one session, none in conflict with a live lock of another, can be
\* appended.
LEMMA ExclusiveMore ==
  ASSUME NEW d, IsDocument(d), NEW s \in SessionIds, NEW requested \in Requests,
         NEW expires \in Int, NEW t \in Int,
         Exclusive(d, t), Conflicts(d, s, requested, t) = {},
         NEW e, e.locks = d.locks \o NewLocks(s, requested, expires)
  PROVE  Exclusive(e, t)
<1> DEFINE n == Len(d.locks)
           new == NewLocks(s, requested, expires)
<1>1. d.locks \in Seq(Lock) /\ n \in Nat
  BY DEF IsDocument
<1>2. /\ requested \in Seq(Scopes)
      /\ new \in Seq(Lock)
      /\ DOMAIN new = DOMAIN requested
      /\ \A k \in DOMAIN new : new[k].session = s /\ new[k].scope = requested[k]
  BY NewLocksType
<1>0. e.locks = d.locks \o new
  OBVIOUS
<1> HIDE DEF new
<1>3. ASSUME NEW i \in DOMAIN e.locks, i <= n
      PROVE  i \in DOMAIN d.locks /\ e.locks[i] = d.locks[i]
  BY <1>0, <1>1, <1>2, <1>3
<1>4. ASSUME NEW i \in DOMAIN e.locks, ~(i <= n)
      PROVE  /\ i - n \in DOMAIN requested
             /\ e.locks[i].session = s
             /\ e.locks[i].scope = requested[i - n]
  <2>1. i \in 1..(n + Len(new)) /\ Len(new) \in Nat
    BY <1>0, <1>1, <1>2
  <2>2. i - n \in DOMAIN new /\ e.locks[i] = new[i - n]
    BY <1>0, <1>1, <1>2, <1>4, <2>1
  <2> QED
    BY <1>2, <2>2
<1>5. ASSUME NEW i \in ActiveLocks(e, t), NEW j \in ActiveLocks(e, t),
             e.locks[i].session # e.locks[j].session
      PROVE  ~ScopesOverlap(e.locks[i].scope, e.locks[j].scope)
  <2> i \in DOMAIN e.locks /\ j \in DOMAIN e.locks
    BY DEF ActiveLocks
  <2>1. ASSUME NEW k \in DOMAIN e.locks, k <= n, k \in ActiveLocks(e, t)
        PROVE  k \in ActiveLocks(d, t)
    BY <1>3, <2>1 DEF ActiveLocks
  <2>2. ASSUME NEW k \in ActiveLocks(e, t), k <= n, NEW l \in DOMAIN e.locks, ~(l <= n),
               e.locks[k].session # e.locks[l].session
        PROVE  ~ScopesOverlap(e.locks[k].scope, e.locks[l].scope)
    <3> k \in DOMAIN e.locks
      BY DEF ActiveLocks
    <3>1. k \in ActiveLocks(d, t) /\ e.locks[k] = d.locks[k]
      BY <1>3, <2>1, <2>2
    <3>2. d.locks[k].session # s /\ l - n \in DOMAIN requested
      BY <1>4, <2>2, <3>1
    <3>3. ~ScopesOverlap(d.locks[k].scope, requested[l - n])
      BY <3>1, <3>2 DEF Conflicts
    <3> QED
      BY <1>4, <2>2, <3>1, <3>3
  <2>3. CASE i <= n /\ j <= n
    BY <1>3, <1>5, <2>1, <2>3 DEF Exclusive
  <2>4. CASE i <= n /\ ~(j <= n)
    BY <1>5, <2>2, <2>4
  <2>5. CASE ~(i <= n) /\ j <= n
    BY <1>5, <2>2, <2>5, OverlapSymmetric
  <2>6. CASE ~(i <= n) /\ ~(j <= n)
    BY <1>4, <1>5, <2>6
  <2> QED
    BY <2>3, <2>4, <2>5, <2>6
<1> QED
  BY <1>5 DEF Exclusive

-----------------------------------------------------------------------------
\* What a command writes.

\* Every lock marked active belongs to a session of the document.
Sessioned(d) ==
  \A i \in DOMAIN d.locks : d.locks[i].status = "active" => d.locks[i].session \in DOMAIN d.sessions

\* A document that a command may write in the place of d.
Sound(d, e) ==
  /\ IsDocument(e)
  /\ Exclusive(d, now) => Exclusive(e, now)
  /\ Sessioned(d) => Sessioned(e)

\* An edit of the sessions alone that drops none is sound.
LEMMA SessionsEdit ==
  ASSUME NEW d, IsDocument(d), NEW f, DOMAIN f \subseteq SessionIds,
         f \in [DOMAIN f -> Session], DOMAIN d.sessions \subseteq DOMAIN f
  PROVE  Sound(d, [d EXCEPT !.sessions = f])
<1> DEFINE e == [d EXCEPT !.sessions = f]
<1>1. IsDocument(e) /\ e.locks = d.locks /\ e.sessions = f
  BY DEF IsDocument
<1> HIDE DEF e
<1>2. Exclusive(d, now) => Exclusive(e, now)
  BY <1>1, ExclusiveFewer
<1>3. Sessioned(d) => Sessioned(e)
  BY <1>1 DEF Sessioned
<1> QED
  BY <1>1, <1>2, <1>3 DEF Sound, e

\* An edit of the queue alone is sound.
LEMMA QueueEdit ==
  ASSUME NEW d, IsDocument(d), NEW q \in Seq(Item)
  PROVE  Sound(d, [d EXCEPT !.queue = q])
<1> DEFINE e == [d EXCEPT !.queue = q]
<1>1. IsDocument(e) /\ e.locks = d.locks /\ e.sessions = d.sessions
  BY DEF IsDocument
<1> HIDE DEF e
<1>2. Exclusive(d, now) => Exclusive(e, now)
  BY <1>1, ExclusiveFewer
<1>3. Sessioned(d) => Sessioned(e)
  BY <1>1 DEF Sessioned
<1> QED
  BY <1>1, <1>2, <1>3 DEF Sound, e

\* An edit of the announced events alone keeps a document's type.
LEMMA EventsEdit ==
  ASSUME NEW d, IsDocument(d), NEW ids \in SUBSET Nat
  PROVE  LET e == [d EXCEPT !.announced = ids] IN
         IsDocument(e) /\ e.locks = d.locks /\ e.sessions = d.sessions
BY DEF IsDocument

\* An edit of the locks alone keeps a document's type.
LEMMA LocksEdit ==
  ASSUME NEW d, IsDocument(d), NEW locks \in Seq(Lock)
  PROVE  LET e == [d EXCEPT !.locks = locks] IN
         IsDocument(e) /\ e.locks = locks /\ e.announced = d.announced /\ e.sessions = d.sessions
BY DEF IsDocument

\* Relabelling locks as no longer active is sound.
LEMMA RelabelEdit ==
  ASSUME NEW d, IsDocument(d), NEW chosen, NEW status \in LockStatuses \ {"active"}
  PROVE  Sound(d, [d EXCEPT !.locks = Relabel(d.locks, chosen, status)])
<1> DEFINE new == Relabel(d.locks, chosen, status)
           e == [d EXCEPT !.locks = new]
<1>1. d.locks \in Seq(Lock)
  BY DEF IsDocument
<1>2. /\ new \in Seq(Lock)
      /\ DOMAIN new = DOMAIN d.locks
      /\ \A i \in DOMAIN d.locks :
           /\ new[i].session = d.locks[i].session
           /\ new[i].scope = d.locks[i].scope
           /\ new[i].expires = d.locks[i].expires
           /\ new[i].status \in {d.locks[i].status, status}
  BY <1>1, RelabelType
<1> HIDE DEF new
<1>3. IsDocument(e) /\ e.locks = new /\ e.sessions = d.sessions
  BY <1>2 DEF IsDocument
<1>4. Sessioned(d) => Sessioned(e)
  BY <1>2, <1>3 DEF Sessioned
<1>5. Exclusive(d, now) => Exclusive(e, now)
  <2>1. \A i \in DOMAIN d.locks :
          /\ e.locks[i].session = d.locks[i].session
          /\ e.locks[i].scope = d.locks[i].scope
          /\ e.locks[i].expires = d.locks[i].expires
          /\ e.locks[i].status = "active" => d.locks[i].status = "active"
    BY <1>2, <1>3
  <2>2. DOMAIN e.locks = DOMAIN d.locks
    BY <1>2, <1>3
  <2> QED
    BY <2>1, <2>2, ExclusiveFewer
<1> QED
  BY <1>3, <1>4, <1>5 DEF Sound, new

\* The three edits that other components share are sound.
LEMMA RegisteredIsSound ==
  ASSUME NEW d, IsDocument(d), now \in Int, NEW s \in SessionIds, NEW w \in Worktrees,
         NEW expires \in Int
  PROVE  Sound(d, Registered(d, s, w, expires))
<1> DEFINE v == [status |-> "active", worktree |-> w, expires |-> expires]
           f == Put(d.sessions, s, v)
<1>1. v \in Session
  BY DEF Session, SessionStatuses
<1>2. DOMAIN f \subseteq SessionIds /\ f \in [DOMAIN f -> Session]
  BY <1>1, PutType DEF IsDocument
<1>3. DOMAIN d.sessions \subseteq DOMAIN f
  BY DEF Put
<1>4. Sound(d, [d EXCEPT !.sessions = f])
  BY <1>2, <1>3, SessionsEdit
<1> QED
  BY <1>4 DEF Registered

LEMMA ClosedIsSound ==
  ASSUME NEW d, IsDocument(d), now \in Int, NEW s \in DOMAIN d.sessions,
         NEW status \in SessionStatuses, NEW chosen, NEW label \in LockStatuses \ {"active"},
         NEW locks \in {d.locks, Relabel(d.locks, chosen, label)}
  PROVE  Sound(d, Closed(d, s, status, locks))
<1> DEFINE f == [d.sessions EXCEPT ![s] = [@ EXCEPT !.status = status]]
           c == [d EXCEPT !.sessions = f]
<1>1. DOMAIN f \subseteq SessionIds /\ f \in [DOMAIN f -> Session]
  BY DEF IsDocument, Session
<1>2. Sound(d, c) /\ IsDocument(c) /\ c.locks = d.locks
  BY <1>1, SessionsEdit DEF Sound, IsDocument
<1>3. CASE locks = d.locks
  <2>1. Closed(d, s, status, locks) = c
    BY <1>3 DEF Closed, IsDocument
  <2> QED
    BY <1>2, <2>1
<1>4. CASE locks = Relabel(d.locks, chosen, label)
  <2>1. Sound(c, [c EXCEPT !.locks = locks])
    BY <1>2, <1>4, RelabelEdit
  <2>2. Closed(d, s, status, locks) = [c EXCEPT !.locks = locks]
    BY DEF Closed, IsDocument
  <2> QED
    BY <1>2, <2>1, <2>2 DEF Sound
<1> QED
  BY <1>3, <1>4

LEMMA AcquiredIsSound ==
  ASSUME NEW d, IsDocument(d), now \in Int, NEW s \in SessionIds, NEW requested \in Requests,
         NEW expires \in Int, Conflicts(d, s, requested, now) = {}, s \in DOMAIN d.sessions
  PROVE  Sound(d, Acquired(d, s, requested, expires))
<1> DEFINE new == NewLocks(s, requested, expires)
           ids == {Len(d.locks) + k : k \in DOMAIN requested}
           e == [d EXCEPT !.locks = @ \o new, !.announced = @ \cup ids]
<1>1. Acquired(d, s, requested, expires) = e
  BY Zenon DEF Acquired
<1>2. /\ new \in Seq(Lock) /\ requested \in Seq(Scopes)
      /\ \A k \in DOMAIN new : new[k].session = s
  BY NewLocksType
<1>3. ids \subseteq Nat
  <2>1. Len(d.locks) \in Nat /\ DOMAIN requested = 1..Len(requested) /\ Len(requested) \in Nat
    BY <1>2 DEF IsDocument
  <2> QED
    BY <2>1
<1> HIDE DEF new, ids
<1>4. IsDocument(e) /\ e.locks = d.locks \o new /\ e.sessions = d.sessions
  <2> DEFINE f == [d EXCEPT !.locks = d.locks \o new]
  <2>1. d.locks \o new \in Seq(Lock)
    BY <1>2 DEF IsDocument
  <2>2. IsDocument(f) /\ f.locks = d.locks \o new /\ f.sessions = d.sessions
    BY <2>1, LocksEdit
  <2>3. d.announced \cup ids \in SUBSET Nat
    BY <1>3 DEF IsDocument
  <2>4. e = [f EXCEPT !.announced = d.announced \cup ids]
    BY Zenon
  <2> HIDE DEF f, e
  <2> QED
    BY <2>2, <2>3, <2>4, EventsEdit
<1>5. Exclusive(d, now) => Exclusive(e, now)
  <2>1. e.locks = d.locks \o NewLocks(s, requested, expires)
    BY <1>4 DEF new
  <2> QED
    BY <1>4, <2>1, ExclusiveMore
<1>6. Sessioned(d) => Sessioned(e)
  <2> SUFFICES ASSUME Sessioned(d), NEW i \in DOMAIN e.locks, e.locks[i].status = "active"
               PROVE  e.locks[i].session \in DOMAIN d.sessions
    BY <1>4 DEF Sessioned
  <2>1. d.locks \in Seq(Lock)
    BY DEF IsDocument
  <2>2. CASE i \in DOMAIN d.locks
    BY <1>2, <1>4, <2>1, <2>2 DEF Sessioned
  <2>3. CASE i \notin DOMAIN d.locks
    <3>1. i - Len(d.locks) \in DOMAIN new /\ e.locks[i] = new[i - Len(d.locks)]
      BY <1>2, <1>4, <2>1, <2>3
    <3> QED
      BY <1>2, <3>1
  <2> QED
    BY <2>2, <2>3
<1> QED
  BY <1>1, <1>4, <1>5, <1>6 DEF Sound

\* Every command writes a sound document.
LEMMA CommandIsSound ==
  ASSUME now \in Int, NEW p \in Procs, IsDocument(view[p]), Command(p)
  PROVE  \E e : Stage(p, e) /\ Sound(view[p], e)
<1> DEFINE d == view[p]
<1> USE CoordAssumption
<1>1. ASSUME NEW s \in SessionIds, NEW lease \in Leases, NEW force \in BOOLEAN,
             NEW w \in Worktrees, SessionRegister(p, s, w, lease, force)
      PROVE  \E e : Stage(p, e) /\ Sound(d, e)
  <2>1. Stage(p, Registered(d, s, w, now + lease))
    BY <1>1 DEF SessionRegister
  <2> QED
    BY <2>1, RegisteredIsSound
<1>2. ASSUME NEW s \in SessionIds, NEW lease \in Leases, NEW reactivate \in BOOLEAN,
             SessionHeartbeat(p, s, reactivate, lease)
      PROVE  \E e : Stage(p, e) /\ Sound(d, e)
  <2> DEFINE st == IF reactivate THEN "active" ELSE d.sessions[s].status
             v == [d.sessions[s] EXCEPT !.status = st, !.expires = now + lease]
             f == [d.sessions EXCEPT ![s] = v]
  <2>1. s \in DOMAIN d.sessions /\ Stage(p, [d EXCEPT !.sessions = f])
    BY <1>2 DEF SessionHeartbeat, IsDocument
  <2>2. v \in Session
    <3>1. d.sessions[s] \in Session
      BY <2>1 DEF IsDocument
    <3>2. st \in SessionStatuses /\ now + lease \in Int
      BY <3>1 DEF Session, SessionStatuses
    <3> QED
      BY <3>1, <3>2 DEF Session
  <2> HIDE DEF v
  <2>3. DOMAIN f \subseteq SessionIds /\ f \in [DOMAIN f -> Session] /\ DOMAIN f = DOMAIN d.sessions
    BY <2>1, <2>2 DEF IsDocument
  <2> QED
    BY <2>1, <2>3, SessionsEdit
<1>3. ASSUME NEW s \in SessionIds, NEW keepLocks \in BOOLEAN,
             SessionClose(p, s, keepLocks)
      PROVE  \E e : Stage(p, e) /\ Sound(d, e)
  <2> DEFINE released == Relabel(d.locks, OwnedBy(d, s), "released")
             locks == IF keepLocks THEN d.locks ELSE released
  <2>1. s \in DOMAIN d.sessions /\ Stage(p, Closed(d, s, "closed", locks))
    BY <1>3 DEF SessionClose
  <2>2. "closed" \in SessionStatuses /\ "released" \in LockStatuses \ {"active"}
    BY DEF SessionStatuses, LockStatuses
  <2>3. locks \in {d.locks, released}
    OBVIOUS
  <2> HIDE DEF locks
  <2>4. Sound(d, Closed(d, s, "closed", locks))
    BY <2>1, <2>2, <2>3, ClosedIsSound
  <2> QED
    BY <2>1, <2>4
<1>4. ASSUME NEW s \in SessionIds, NEW requested \in Requests, NEW lease \in Leases,
             LockAcquire(p, s, requested, lease)
      PROVE  \E e : Stage(p, e) /\ Sound(d, e)
  <2>1. /\ Conflicts(d, s, requested, now) = {}
        /\ s \in DOMAIN d.sessions
        /\ Stage(p, Acquired(d, s, requested, now + lease))
    BY <1>4 DEF LockAcquire, SessionIsActive
  <2>2. now + lease \in Int
    OBVIOUS
  <2> QED
    BY <2>1, <2>2, AcquiredIsSound
<1>5. ASSUME NEW s \in SessionIds, NEW requested \in Requests,
             LockConflict(p, s, requested)
      PROVE  \E e : Stage(p, e) /\ Sound(d, e)
  BY <1>5 DEF LockConflict, Sound
<1>6. ASSUME NEW owners, NEW selection, LockRelease(p, owners, selection)
      PROVE  \E e : Stage(p, e) /\ Sound(d, e)
  <2> DEFINE chosen == {i \in selection : d.locks[i].session \in owners}
  <2>1. Stage(p, [d EXCEPT !.locks = Relabel(d.locks, chosen, "released")])
    BY <1>6 DEF LockRelease
  <2> QED
    BY <2>1, RelabelEdit DEF LockStatuses
<1>7. ASSUME NEW item \in ItemIds, QueueAdd(p, item)
      PROVE  \E e : Stage(p, e) /\ Sound(d, e)
  <2> DEFINE q == Append(d.queue, [id |-> item, status |-> "pending"])
  <2>1. q \in Seq(Item)
    BY DEF IsDocument, Item, QueueStatuses
  <2>2. Stage(p, [d EXCEPT !.queue = q])
    BY <1>7 DEF QueueAdd
  <2> QED
    BY <2>1, <2>2, QueueEdit
<1>8. ASSUME NEW item \in ItemIds, NEW status \in QueueStatuses,
             QueueMark(p, item, status)
      PROVE  \E e : Stage(p, e) /\ Sound(d, e)
  <2>1. PICK i \in DOMAIN d.queue : Stage(p, [d EXCEPT !.queue[i].status = status])
    BY <1>8 DEF QueueMark, Entries
  <2> DEFINE q == [d.queue EXCEPT ![i] = [@ EXCEPT !.status = status]]
  <2>2. q \in Seq(Item)
    <3>1. d.queue \in Seq(Item) /\ d.queue[i] \in Item
      BY DEF IsDocument
    <3>2. [d.queue[i] EXCEPT !.status = status] \in Item
      BY <3>1 DEF Item
    <3> QED
      BY <3>1, <3>2
  <2>3. Stage(p, [d EXCEPT !.queue = q])
    BY <2>1
  <2> QED
    BY <2>2, <2>3, QueueEdit
<1>9. SessionCommand(p) => \E e : Stage(p, e) /\ Sound(d, e)
  BY <1>1, <1>2, <1>3 DEF SessionCommand
<1>10. LockCommand(p) => \E e : Stage(p, e) /\ Sound(d, e)
  BY <1>4, <1>5, <1>6 DEF LockCommand
<1>11. QueueCommand(p) => \E e : Stage(p, e) /\ Sound(d, e)
  BY <1>7, <1>8 DEF QueueCommand
<1> QED
  BY <1>9, <1>10, <1>11 DEF Command

-----------------------------------------------------------------------------
\* The invariants.

\* The store keeps its type: whatever commands run at once, commit, fail or die,
\* the committed document and every connection's view have the expected shape.
THEOREM TypeCorrect == Spec => []TypeOK
<1> USE CoordAssumption
<1>1. Init => TypeOK
  BY EmptyIsDocument DEF Init, TypeOK
<1>2. TypeOK /\ [Next]_vars => TypeOK'
  <2> SUFFICES ASSUME TypeOK, [Next]_vars PROVE TypeOK'
    OBVIOUS
  <2>1. CASE Tick
    BY <2>1 DEF Tick, TypeOK
  <2>2. ASSUME NEW p \in Procs, Begin(p) PROVE TypeOK'
    BY <2>2 DEF Begin, TypeOK
  <2>3. ASSUME NEW p \in Procs, Command(p) PROVE TypeOK'
    <3>1. PICK e : Stage(p, e) /\ IsDocument(e)
      BY <2>3, CommandIsSound DEF TypeOK, Sound
    <3> QED
      BY <3>1 DEF Stage, TypeOK
  <2>4. ASSUME NEW p \in Procs, Commit(p) PROVE TypeOK'
    BY <2>4, EmptyIsDocument DEF Commit, TypeOK
  <2>5. ASSUME NEW p \in Procs, Rollback(p) PROVE TypeOK'
    BY <2>5, EmptyIsDocument DEF Rollback, TypeOK
  <2>6. CASE UNCHANGED vars
    BY <2>6 DEF vars, TypeOK
  <2> QED
    BY <2>1, <2>2, <2>3, <2>4, <2>5, <2>6 DEF Next
<1> QED
  BY <1>1, <1>2, PTL DEF Spec

\* No two live locks of different sessions ever overlap: the check that lock
\* acquire makes is still valid when its locks are committed, because the guard
\* keeps every other writer out and because time only ends leases.
THEOREM Exclusion == Spec => [](NoLockConflict /\ GuardInvariant)
<1> USE CoordAssumption
<1>1. Init => NoLockConflict /\ GuardInvariant
  BY DEF Init, NoLockConflict, GuardInvariant, Exclusive, ActiveLocks, EmptyDocument
<1>2. TypeOK /\ NoLockConflict /\ GuardInvariant /\ [Next]_vars
        => (NoLockConflict /\ GuardInvariant)'
  <2> SUFFICES ASSUME TypeOK, NoLockConflict, GuardInvariant, [Next]_vars
               PROVE  (NoLockConflict /\ GuardInvariant)'
    OBVIOUS
  <2>1. CASE Tick
    <3>1. now \in Int /\ now' \in Int /\ now <= now' /\ db' = db /\ pc' = pc /\ view' = view
      BY <2>1 DEF Tick, TypeOK
    <3>2. ASSUME NEW d, IsDocument(d), Exclusive(d, now) PROVE Exclusive(d, now')
      BY <3>1, <3>2, ExclusiveLater
    <3> QED
      BY <3>1, <3>2 DEF NoLockConflict, GuardInvariant, TypeOK
  <2>2. ASSUME NEW p \in Procs, Begin(p) PROVE (NoLockConflict /\ GuardInvariant)'
    BY <2>2 DEF Begin, TypeOK, NoLockConflict, GuardInvariant
  <2>3. ASSUME NEW p \in Procs, Command(p) PROVE (NoLockConflict /\ GuardInvariant)'
    <3>1. PICK e : Stage(p, e) /\ Sound(view[p], e)
      BY <2>3, CommandIsSound DEF TypeOK
    <3>2. Exclusive(e, now)
      BY <3>1 DEF Stage, Sound, NoLockConflict, GuardInvariant
    <3> QED
      BY <3>1, <3>2 DEF Stage, TypeOK, NoLockConflict, GuardInvariant
  <2>4. ASSUME NEW p \in Procs, Commit(p) PROVE (NoLockConflict /\ GuardInvariant)'
    BY <2>4 DEF Commit, TypeOK, NoLockConflict, GuardInvariant
  <2>5. ASSUME NEW p \in Procs, Rollback(p) PROVE (NoLockConflict /\ GuardInvariant)'
    BY <2>5 DEF Rollback, TypeOK, NoLockConflict, GuardInvariant
  <2>6. CASE UNCHANGED vars
    BY <2>6 DEF vars, NoLockConflict, GuardInvariant
  <2> QED
    BY <2>1, <2>2, <2>3, <2>4, <2>5, <2>6 DEF Next
<1> QED
  BY <1>1, <1>2, TypeCorrect, PTL DEF Spec

\* No connection will commit an active lock without a session.
AllSessioned == Sessioned(db) /\ \A p \in Procs : Sessioned(view[p])

\* validate never reports an error: live locks of different sessions do not
\* overlap, an active lock has its session, because no command drops a session
\* and acquire asks for it inside the guard, and the statuses are known ones.
THEOREM ValidatesCleanly == Spec => []ValidatesClean
<1> USE CoordAssumption
<1>1. Sessioned(EmptyDocument)
  BY DEF Sessioned, EmptyDocument
<1>2. Init => AllSessioned
  BY <1>1 DEF Init, AllSessioned
<1>3. TypeOK /\ AllSessioned /\ [Next]_vars => AllSessioned'
  <2> SUFFICES ASSUME TypeOK, AllSessioned, [Next]_vars PROVE AllSessioned'
    OBVIOUS
  <2>1. CASE Tick \/ UNCHANGED vars
    BY <2>1 DEF Tick, vars, AllSessioned
  <2>2. ASSUME NEW p \in Procs, Begin(p) PROVE AllSessioned'
    BY <2>2 DEF Begin, TypeOK, AllSessioned
  <2>3. ASSUME NEW p \in Procs, Command(p) PROVE AllSessioned'
    <3>1. PICK e : Stage(p, e) /\ Sound(view[p], e)
      BY <2>3, CommandIsSound DEF TypeOK
    <3>2. Sessioned(e)
      BY <3>1 DEF Sound, AllSessioned
    <3> QED
      BY <3>1, <3>2 DEF Stage, TypeOK, AllSessioned
  <2>4. ASSUME NEW p \in Procs, Commit(p) \/ Rollback(p) PROVE AllSessioned'
    BY <1>1, <2>4 DEF Commit, Rollback, TypeOK, AllSessioned
  <2> QED
    BY <2>1, <2>2, <2>3, <2>4 DEF Next
<1>4. TypeOK /\ NoLockConflict /\ AllSessioned => ValidatesClean
  <2> SUFFICES ASSUME TypeOK, NoLockConflict, AllSessioned PROVE ValidatesClean
    OBVIOUS
  <2>1. {ij \in ActiveLocks(db, now) \X ActiveLocks(db, now) :
           /\ db.locks[ij[1]].session # db.locks[ij[2]].session
           /\ ScopesOverlap(db.locks[ij[1]].scope, db.locks[ij[2]].scope)} = {}
    BY DEF NoLockConflict, Exclusive
  <2>2. {k \in DOMAIN db.locks : /\ db.locks[k].status = "active"
                                /\ db.locks[k].session \notin DOMAIN db.sessions} = {}
    BY DEF AllSessioned, Sessioned
  <2>3. {k \in DOMAIN db.queue : db.queue[k].status \notin QueueStatuses} = {}
    <3>1. \A k \in DOMAIN db.queue : db.queue[k] \in Item
      BY DEF TypeOK, IsDocument
    <3> QED
      BY <3>1 DEF Item
  <2> QED
    BY <2>1, <2>2, <2>3 DEF ValidatesClean, ValidationErrors
<1> QED
  BY <1>2, <1>3, <1>4, TypeCorrect, Exclusion, PTL DEF Spec
=============================================================================
