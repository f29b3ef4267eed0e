----------------------------- MODULE LeaseLock -----------------------------
(***************************************************************************)
(* What the write locks of worktree/coord.py promise, without the clock,   *)
(* the database or the processes: an owner is granted scopes in one step,  *)
(* only if nobody else holds one that overlaps them, and loses them one    *)
(* by one or together, by a release or by the end of a lease.              *)
(***************************************************************************)
CONSTANTS
  Owners,
  Scopes,
  Overlap(_, _)

VARIABLE held   \* the pairs of an owner and a scope it holds

Claim == [owner : Owners, scope : Scopes]

\* Nobody but the owner holds a scope that overlaps this one.
Available(owner, scope) ==
  \A h \in held : h.owner # owner => ~Overlap(h.scope, scope)

Grant(owner, granted) ==
  /\ \A scope \in granted : Available(owner, scope)
  /\ held' = held \cup {[owner |-> owner, scope |-> scope] : scope \in granted}

Drop(lost) == held' = held \ lost

Init == held = {}

Next ==
  \/ \E owner \in Owners, granted \in SUBSET Scopes : Grant(owner, granted)
  \/ \E lost \in SUBSET held : Drop(lost)

Spec == Init /\ [][Next]_held
=============================================================================
