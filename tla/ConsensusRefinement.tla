------------------------- MODULE ConsensusRefinement -------------------------
(***************************************************************************)
(* ConsensusNode implements ReplicatedLog as long as nobody but one        *)
(* replica is elected, and that one does not die: its log is the order.    *)
(***************************************************************************)
EXTENDS ConsensusNode

\* Nobody but s leads; the others may stand, and depose it.
OnlyLeads(s) == \A q \in Replica : node[q].role = "leader" => q = s

\* The longest log there is, as commands.
LongestLog ==
    LET n == CHOOSE q \in Replica : \A p \in Replica : Len(node[p].log) <= Len(node[q].log)
    IN  [i \in DOMAIN node[n].log |-> node[n].log[i].command]

CommitIndices == [n \in Replica |-> node[n].commitIndex]

Log == INSTANCE ReplicatedLog WITH
    order <- LongestLog, commit <- CommitIndices, Restarting <- {}

\* Every step of the replicas is a step of the replicated log or changes nothing
\* of it: commands are ordered once and stay, a client that was sent away finds
\* its command in nobody's log, a persisted command is one that its replica has
\* committed, and a read returns the committed prefix, never what lies beyond the
\* log.
ImplementsLog == Log!Spec
=============================================================================
