---------------------------- MODULE MCAgentComm ----------------------------
(***************************************************************************)
(* A small instance of AgentComm.  Locks and mail share nothing but the    *)
(* group files, so a behaviour with locks registers nobody and sends       *)
(* nothing, the clock runs where there are locks, mail is sent in one      *)
(* group, and the heartbeat of an agent that is not registered is written  *)
(* where there is neither mail nor a lock.                                 *)
(***************************************************************************)
EXTENDS AgentComm, TLC

MCScopes == {<<"docs">>, <<"docs", "a">>}

MailInOneGroup ==
  rows = {} \/ (now = 0 /\ Readable(LocksFile)
               /\ Cardinality({box[1] : box \in made}) <= 1)

LocksOrMail ==
  \/ Locks = << >> /\ now = 0
  \/ Locks # << >> /\ rows = {} /\ told.agents = {} /\ \A g \in Groups : Readable(AgentsFile(g))

HeartbeatsAlone ==
  \A g \in Groups, a \in Agents :
    LET beat == file[HeartbeatFile(g, a)].state IN
    /\ beat # "absent" /\ <<g, a>> \notin told.agents => rows = {} /\ Locks = << >>
    /\ beat = "torn" => rows = {}

Symmetry == Permutations(Groups) \cup Permutations(Procs)
=============================================================================
