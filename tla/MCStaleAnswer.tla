--------------------------- MODULE MCStaleAnswer ---------------------------
(***************************************************************************)
(* The part of ConsensusNode in which a leader counts an answer to a       *)
(* request of an older term of its own.  n1 and n2 lead in turn.  n1 logs  *)
(* c1 and c2 in term 1 and sends them to n3 in term 3; before they arrive, *)
(* n2 overwrites them with c3 in term 4, and n1 adds c4 in term 5.         *)
(***************************************************************************)
EXTENDS MCConsensusNode

CONSTANTS c3, c4

ThirdAtN2 == [c \in Command |-> IF c = c3 THEN {n2} ELSE {n1}]

NewestTerm == CHOOSE t \in Term :
    (\E n \in Replica : node[n].term = t) /\ \A n \in Replica : node[n].term <= t

CommandsOf(n) == [i \in DOMAIN node[n].log |-> node[n].log[i].command]

\* The clients of c1 and c2 call before anybody stands, those of c3 and c4 when
\* their replica leads term 2 or 5.
InTime == \A n \in Replica, c \in Command :
    Len(incoming_commands'[n]) > Len(incoming_commands[n]) /\ answer[c] # answer'[c] =>
        IF c \in {c1, c2} THEN node[n].term = 0
        ELSE node[n].role = "leader" /\ node[n].term = IF c = c3 THEN 2 ELSE 5

\* The request of term 3 with c1 and c2 is on its way to n3.
OnTheWay == \E m \in InTransit :
    m.type = "AppendEntriesRequest" /\ m.to = n3 /\ m.term = 3 /\ Len(m.entries) = 2

\* The logs as they are on the way there.
Plot ==
    /\ CommandsOf(n1) \in IF NewestTerm < 4 THEN {<< >>, <<c1, c2>>}
                          ELSE {<<c1, c2>>, <<c3>>, <<c3, c4>>}
    /\ CommandsOf(n2) \in {<< >>, <<c3>>}
    /\ CommandsOf(n3) \in IF NewestTerm < 4 \/ OnTheWay THEN {<< >>} ELSE {<<c1, c2>>}
    /\ NewestTerm < 5 => \A n \in Replica : node[n].commitIndex = 0
    /\ \A n, q \in Replica : node[n].role = "leader" => ~ OutsideLog(node[n], q)

\* Every behaviour of it is one of Spec.
StaleAnswerSpec == Init /\ [][Next /\ InTime /\ Plot']_vars
=============================================================================
