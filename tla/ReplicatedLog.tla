---------------------------- MODULE ReplicatedLog ----------------------------
(***************************************************************************)
(* What the replicas of hw2/src/consensus promise together, as the         *)
(* interface of class Node shows it (node.h): one order of commands that   *)
(* only grows, of which each replica knows a prefix to be persistent.      *)
(* AddCommand gets a command into the order or is refused;                 *)
(* GetPersistentCommands reads a part of the prefix.                       *)
(***************************************************************************)
EXTENDS Naturals, Sequences, FiniteSets

CONSTANTS
    Replica,     \* the node ids
    Command,     \* the commands clients submit, each at most once
    Reader,      \* one-shot calls of GetPersistentCommands
    Query,       \* their arguments, records [from, count]
    None,        \* nobody, and "no reply yet"
    Restarting   \* the replicas whose processes may die and start again

VARIABLES
    order,       \* the commands, in the order in which all replicas take them
    commit,      \* replica -> how many of them it knows to be persistent
    answer,      \* command -> what its caller knows of it
    query,       \* reader -> the read it asked for
    reply        \* reader -> the commands it was given

logVars == <<order, commit, answer, query, reply>>
-----------------------------------------------------------------------------
\* The commands of S get the answer a.
Answered(S, a) == [c \in Command |-> IF c \in S THEN a ELSE answer[c]]

Waiting == {c \in Command : answer[c] = "waiting"}

\* The commands at the first k places of the order.
UpTo(k) == {order[i] : i \in 1 .. k}

NotAsked == [node |-> None, from |-> 0, count |-> 0]

Asking(r) == query[r].node # None /\ reply[r] = None

\* The part of n's prefix that q asks for; index 0 stands for the first command.
PersistentCommands(n, q) ==
    LET from == IF q.from = 0 THEN 1 ELSE q.from
        last == from + q.count - 1
    IN  SubSeq(order, from, IF last <= commit[n] THEN last ELSE commit[n])
-----------------------------------------------------------------------------
Init ==
    /\ order = << >>
    /\ commit = [n \in Replica |-> 0]
    /\ answer = [c \in Command |-> "new"]
    /\ query = [r \in Reader |-> NotAsked]
    /\ reply = [r \in Reader |-> None]

AddCommand(c) ==
    /\ answer[c] = "new"
    /\ answer' = [answer EXCEPT ![c] = "waiting"]
    /\ UNCHANGED <<order, commit, query, reply>>

GetPersistentCommands(n, r, q) ==
    /\ query[r].node = None
    /\ query' = [query EXCEPT ![r] = [node |-> n, from |-> q.from, count |-> q.count]]
    /\ UNCHANGED <<order, commit, answer, reply>>

\* A leader takes commands that wait into the order, each once.
Order(new) ==
    /\ \A i, j \in DOMAIN new : new[i] = new[j] => i = j
    /\ \A i \in DOMAIN new : new[i] \in Waiting \ UpTo(Len(order))
    /\ order' = order \o new
    /\ UNCHANGED <<commit, answer, query, reply>>

\* n learns that k commands are persistent; it forgets none.
Learn(n, k) ==
    /\ k \in commit[n] .. Len(order)
    /\ commit' = [commit EXCEPT ![n] = k]

\* A tick of n answers its readers from the prefix it has known so far; if it
\* leads, it may learn of more, and the callers of the commands S hear of it.
Tick(n, k, S) ==
    /\ reply' = [r \in Reader |-> IF Asking(r) /\ query[r].node = n
                                  THEN PersistentCommands(n, query[r]) ELSE reply[r]]
    /\ Learn(n, k)
    /\ S \subseteq Waiting \cap UpTo(k)
    /\ answer' = Answered(S, "persisted")
    /\ UNCHANGED <<order, query>>

\* n hears from a leader: it may learn of more, and sends the callers of the
\* commands S, which are in nobody's log, to that leader.
Hear(n, k, S, leader) ==
    /\ Learn(n, k)
    /\ S \subseteq Waiting \ UpTo(Len(order))
    /\ answer' = Answered(S, leader)
    /\ UNCHANGED <<order, query, reply>>

\* n hears from another replica that leads and mistakes how many commands are
\* persistent: too few or too many, but none that is not in the order.
Mishear(n, k, S, leader) ==
    /\ n # leader
    /\ k \in 0 .. Len(order)
    /\ commit' = [commit EXCEPT ![n] = k]
    /\ S \subseteq Waiting \ UpTo(Len(order))
    /\ answer' = Answered(S, leader)
    /\ UNCHANGED <<order, query, reply>>

\* The process of n dies with the calls of S, and starts with nothing; a caller
\* whose read breaks off may ask again.
Restart(n, S) ==
    /\ n \in Restarting
    /\ commit' = [commit EXCEPT ![n] = 0]
    /\ S \subseteq Waiting
    /\ answer' = Answered(S, "broken")
    /\ query' = [r \in Reader |-> IF Asking(r) /\ query[r].node = n THEN NotAsked ELSE query[r]]
    /\ UNCHANGED <<order, reply>>

Next ==
    \/ \E c \in Command : AddCommand(c)
    \/ \E n \in Replica, r \in Reader, q \in Query : GetPersistentCommands(n, r, q)
    \/ \E n \in Replica, S \in SUBSET Waiting :
           \/ \E k \in commit[n] .. Len(order) :
                  \/ Tick(n, k, S)
                  \/ \E leader \in Replica : Hear(n, k, S, leader)
           \/ Restart(n, S)
    \/ \E k \in 1 .. Cardinality(Waiting) : \E new \in [1 .. k -> Waiting] : Order(new)

Spec == Init /\ [][Next]_logVars

\* The same of replicas that are not told the number as the leader knows it.
UnsureNext ==
    \/ Next
    \/ \E n, leader \in Replica, S \in SUBSET Waiting :
           \E k \in 0 .. Len(order) : Mishear(n, k, S, leader)

UnsureSpec == Init /\ [][UnsureNext]_logVars
-----------------------------------------------------------------------------
\* The types of what the interface of Node shows.
LogTypeOK ==
    /\ order \in Seq(Command)
    /\ commit \in [Replica -> Nat]
    /\ answer \in [Command -> {"new", "waiting", "persisted", "broken"} \cup Replica]
    /\ query \in [Reader -> [node : Replica \cup {None}, from : Nat, count : Nat]]
    /\ reply \in [Reader -> Seq(Command) \cup {None}]
=============================================================================
