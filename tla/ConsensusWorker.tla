-------------------------- MODULE ConsensusWorker --------------------------
(***************************************************************************)
(* The replicas of ConsensusNode as processes (hw2/src/worker/worker.cpp): *)
(* what the gRPC service makes of a message before the node gets it, and   *)
(* processes that die and are started again.                               *)
(***************************************************************************)
EXTENDS ConsensusRefinement

CONSTANTS
    CommitRead,    \* what a received request's leader_commit may hold
    Restarting,    \* the replicas whose processes may die
    MaxRestarts    \* bound: how many times processes die

ASSUME WorkerAssumption ==
    /\ CommitRead \subseteq Nat
    /\ Restarting \subseteq Replica
    /\ MaxRestarts \in Nat

\* A process that is new has to be able to stand for the first term.
ASSUME FirstTermAssumption == MaxTerm >= 1 /\ Standing[1] = Replica

VARIABLES
    fresh,         \* the processes whose first tick has not ended
    restarts       \* how many times a process has died

workerVars == <<vars, fresh, restarts>>
-----------------------------------------------------------------------------
\* What SendAnnotatedMessage makes of m.  It copies every field a handler looks
\* at except leader_commit, which is left as it was constructed: uninitialised.
Received(m) ==
    IF m.type = "AppendEntriesRequest" THEN {[m EXCEPT !.commit = k] : k \in CommitRead}
    ELSE {m}

\* A message of another replica passes through the service, on its way to the
\* queue of the next tick.  A message that has not passed through it yet is as
\* good as one whose leader_commit happens to be right.
SendAnnotatedMessage(m) ==
    /\ tick = Idle /\ m.from # m.to
    /\ \E w \in Received(m) : messages' = messages (-) SetToBag({m}) (+) SetToBag({w})
    /\ UNCHANGED <<node, tick, inbox, clientVars, readVars, fresh, restarts>>

\* Mutant of LostCalls: a command that is still in the queue is kept.
LostWhenLogged(n) == {items_to_response[n][i] : i \in DOMAIN items_to_response[n]}

\* The commands whose Write call breaks off when the process of n dies.
LostCalls(n) == Commands(incoming_commands[n])
                  \cup {items_to_response[n][i] : i \in DOMAIN items_to_response[n]}

\* Mutant of Restarted: the log is gone and the commit index is not.
RestartedCommitted(s) == [NewNode EXCEPT !.commitIndex = s.commitIndex]

\* A process starts with a new Node: nothing of PersistentState is stored.
Restarted(s) == NewNode

\* The messages that may be gone with the process of n: those in its queues, and
\* those it has not sent yet.  What it sent to itself is gone for certain.
GoneWith(n) ==
    {S \in SUBSET {m \in BagToSet(messages) : n \in {m.from, m.to}} :
        \A m \in BagToSet(messages) : m.from = n /\ m.to = n => m \in S}

\* The process of n dies at any moment, in the middle of a tick too, and main
\* starts it again.  A client whose read breaks off may ask again.
Restart(n) ==
    /\ restarts < MaxRestarts
    /\ restarts' = restarts + 1
    /\ fresh' = fresh \cup {n}
    /\ node' = [node EXCEPT ![n] = Restarted(node[n])]
    /\ \E S \in GoneWith(n) : messages' = [m \in BagToSet(messages) \ S |-> messages[m]]
    /\ IF tick.node = n THEN tick' = Idle /\ inbox' = EmptyBag ELSE UNCHANGED <<tick, inbox>>
    /\ incoming_commands' = [incoming_commands EXCEPT ![n] = << >>]
    /\ items_to_response' = [items_to_response EXCEPT ![n] = << >>]
    /\ answer' = Answered(LostCalls(n), "broken")
    /\ query' = [r \in Reader |-> IF Asking(r) /\ query[r].node = n THEN NotAsked ELSE query[r]]
    /\ UNCHANGED reply

\* A step of the replicas.  expires_at_ of a new UniformTimer is zero: unless a
\* message of its first tick resets the timer, a process stands at the end of it.
ReplicaStep ==
    /\ Next
    /\ tick.node \in fresh /\ ~ tick.timerReset => ~ EndQuietTick(tick.node)
    /\ fresh' = IF tick' = Idle THEN fresh \ {tick.node} ELSE fresh
    /\ UNCHANGED restarts

WorkerInit == Init /\ fresh = Replica /\ restarts = 0

WorkerNext ==
    \/ ReplicaStep
    \/ \E m \in BagToSet(messages) : SendAnnotatedMessage(m)
    \/ \E n \in Restarting : Restart(n)

WorkerSpec == WorkerInit /\ [][WorkerNext]_workerVars

RestartingLog == INSTANCE ReplicatedLog WITH order <- LongestLog, commit <- CommitIndices

\* Replicas that lose their memory, and requests that arrive with anything for
\* leader_commit, still make a replicated log as long as nobody else is elected
\* than the one replica that has not died.  A replica may then mistake how many
\* commands are persistent, and nothing else is lost.  (A restarted replica
\* stands, and whoever votes for it may bring the end of this about.)
ImplementsRestartingLog == RestartingLog!UnsureSpec
=============================================================================
