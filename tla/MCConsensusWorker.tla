------------------------- MODULE MCConsensusWorker -------------------------
(***************************************************************************)
(* Constants of ConsensusWorker for TLC.                                   *)
(***************************************************************************)
EXTENDS MCConsensusNode, ConsensusWorker

\* n1, which leads, stays up.
Followers == {n2, n3}

Nobody == {}

\* c1 is submitted to the leader, c2 to a replica that passes it on.
ToEither == [c \in Command |-> IF c = c1 THEN {n1} ELSE Followers]

EitherFollower == Permutations(Followers)

\* What its leader_commit may be: nothing yet, or more than there is in any log.
Unsure == {0, 7}

\* More than there is in any log.
More == {7}

\* Any replica may stand, as new ones do; a behaviour ends before another than n1
\* is elected.
OneLeaderSpec == WorkerInit /\ [][WorkerNext /\ OnlyLeads(n1)']_workerVars
=============================================================================
