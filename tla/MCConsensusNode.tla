-------------------------- MODULE MCConsensusNode --------------------------
(***************************************************************************)
(* Constants of ConsensusNode for TLC.                                     *)
(***************************************************************************)
EXTENDS ConsensusRefinement, TLC

CONSTANTS n1, n2, n3, c1, c2, r1, r2

Three == {n1, n2, n3}

(***************************************************************************)
(* Standing: whose timers expire.                                          *)
(***************************************************************************)
\* Any replica's timer may expire at any time.
Anyone == [t \in 1 .. MaxTerm |-> Replica]

\* The terms are opened in turn by n1 and n2.
InTurn == [t \in 1 .. MaxTerm |-> IF t % 2 = 1 THEN {n1} ELSE {n2}]

\* Only n1's timer ever expires.
OnlyN1 == [t \in 1 .. MaxTerm |-> {n1}]

(***************************************************************************)
(* Contact: the replica a command's client knows.                          *)
(***************************************************************************)
AtN1 == [c \in Command |-> {n1}]
OwnReplica == [c \in Command |-> IF c = c1 THEN {n1} ELSE {n2}]

(***************************************************************************)
(* Linked: the links that work.                                            *)
(***************************************************************************)
AllLinks == Replica \X Replica

\* n1 hears nothing of n2, which hears n1.
N1Deaf == AllLinks \ {<<n2, n1>>}

\* n3 is down: nothing reaches it, and nobody hears of it.
N3Down == {p \in AllLinks : n3 \notin {p[1], p[2]}}

\* n1 and n3 reach each other through nobody.
N1N3Cut == {p \in AllLinks : {p[1], p[2]} # {n1, n3}}

\* Reads of the whole log.
Queries == {[from |-> 0, count |-> 5]}

\* What no constant of a run tells apart.
AllReplicas == Permutations(Replica)
FollowersAndCalls ==
    Permutations({n2, n3}) \cup Permutations(Command) \cup Permutations(Reader)
=============================================================================
