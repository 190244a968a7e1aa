----------------------- MODULE ConsensusWorkerProofs -----------------------
(***************************************************************************)
(* What is left when the commit index of a request is lost on the way and  *)
(* replicas die and start again (ConsensusWorker): proved for any number   *)
(* of restarts and every value of the constants.                           *)
(***************************************************************************)
EXTENDS ConsensusWorker, ConsensusRefinementProofs

\* A step of the processes is one of the replicas, or one of the two below.
LEMMA WorkerSteps ==
  ASSUME [WorkerNext]_workerVars
  PROVE  \/ [Next]_vars
         \/ \E m \in BagToSet(messages) : SendAnnotatedMessage(m)
         \/ \E n \in Restarting : Restart(n)
BY Zenon DEF WorkerNext, ReplicaStep, workerVars
-----------------------------------------------------------------------------
(***************************************************************************)
(* A message passes through the service.                                   *)
(***************************************************************************)
\* What the service makes of m differs from it in the commit index only.
LEMMA ReceivedFacts ==
  ASSUME NEW m \in Message, NEW w \in Received(m)
  PROVE  /\ w \in Message
         /\ w.type = m.type /\ w.from = m.from /\ w.to = m.to
         /\ m.type # "AppendEntriesRequest" => w = m
         /\ m.type = "AppendEntriesRequest" =>
                /\ w.prev = m.prev /\ w.entries = m.entries
                /\ w.commit \in CommitRead
<1>1. CASE m.type # "AppendEntriesRequest"
  BY <1>1 DEF Received
<1>2. CASE m.type = "AppendEntriesRequest"
  <2>1. PICK k \in CommitRead : w = [m EXCEPT !.commit = k]
    BY <1>2 DEF Received
  <2>2. m \in AppendEntriesRequest
    BY <1>2 DEF Message, AppendEntriesRequest, RequestVoteRequest, AppendEntriesResponse,
         RequestVoteResponse
  <2>3. k \in Nat
    BY WorkerAssumption
  <2>4. w \in AppendEntriesRequest /\ w.commit = k /\ w.type = m.type /\ w.from = m.from
        /\ w.to = m.to /\ w.prev = m.prev /\ w.entries = m.entries
    BY <2>1, <2>2, <2>3 DEF AppendEntriesRequest
  <2>5. QED
    BY <1>2, <2>4 DEF Message
<1>3. QED
  BY <1>1, <1>2

\* What is in transit afterwards was so before, but for the message w.
LEMMA AnnotatedStep ==
  ASSUME TypeOK, NEW m \in BagToSet(messages), SendAnnotatedMessage(m)
  PROVE  /\ m \in Message /\ m.from # m.to
         /\ UNCHANGED <<node, tick, inbox, clientVars, readVars>>
         /\ \E w \in Received(m) : /\ IsMessageBag(messages')
                                   /\ InTransit' \subseteq InTransit \cup {w}
<1>1. m \in Message /\ IsMessageBag(messages) /\ {m} \subseteq Message
  BY DEF TypeOK, IsMessageBag
<1>2. PICK w \in Received(m) : messages' = messages (-) SetToBag({m}) (+) SetToBag({w})
  BY DEF SendAnnotatedMessage
<1>3. {w} \subseteq Message
  BY <1>1, <1>2, ReceivedFacts
<1> DEFINE rest == messages (-) SetToBag({m})
<1>4. IsMessageBag(rest) /\ BagToSet(rest) \subseteq BagToSet(messages)
  BY <1>1, SetBags, SubtractBags
<1>5. IsMessageBag(SetToBag({w})) /\ BagToSet(SetToBag({w})) = {w}
  BY <1>3, SetBags
<1> HIDE DEF rest
<1>6. IsMessageBag(messages') /\ BagToSet(messages') = BagToSet(rest) \cup {w}
  BY <1>2, <1>4, <1>5, AddBags DEF rest
<1>7. UNCHANGED <<node, tick, inbox, clientVars, readVars>> /\ m.from # m.to
  BY DEF SendAnnotatedMessage
<1>8. InTransit' \subseteq InTransit \cup {w}
  BY <1>4, <1>6, <1>7 DEF InTransit
<1>9. QED
  BY <1>1, <1>2, <1>6, <1>7, <1>8

LEMMA AnnotatedType ==
  ASSUME TypeOK, NEW m \in BagToSet(messages), SendAnnotatedMessage(m)
  PROVE  TypeOK'
BY AnnotatedStep DEF TypeOK, IsMessageBag, clientVars, readVars

\* It carries the commands of a message that was there.
LEMMA AnnotatedCommands ==
  ASSUME TypeOK, CommandInv, NEW m \in BagToSet(messages), SendAnnotatedMessage(m)
  PROVE  CommandInv'
<1>1. PICK w \in Received(m) : InTransit' \subseteq InTransit \cup {w}
  BY AnnotatedStep
<1>2. m \in Message /\ m \in InTransit /\ UNCHANGED <<node, clientVars>>
  BY AnnotatedStep DEF InTransit
<1>3. w.type = "AppendEntriesRequest" => m.type = "AppendEntriesRequest" /\ w.entries = m.entries
  BY <1>2, ReceivedFacts
<1>4. \A c \in Command : Logged(c)' => Logged(c)
  BY <1>1, <1>2, <1>3 DEF Logged, InLogs, InRequests
<1>5. QED
  BY <1>2, <1>4, ClientsSame

\* The items of a request and its sender stay as they are.
LEMMA AnnotatedBase ==
  ASSUME TypeOK, InboxInv, NEW s \in Replica, Base(s),
         NEW m \in BagToSet(messages), SendAnnotatedMessage(m)
  PROVE  InboxInv' /\ Base(s)' /\ LogsGrow
<1>1. PICK w \in Received(m) : InTransit' \subseteq InTransit \cup {w}
  BY AnnotatedStep
<1>2. m \in Message /\ m \in InTransit /\ UNCHANGED <<node, tick, inbox>> /\ m.from # m.to
  BY AnnotatedStep DEF InTransit
<1>3. /\ w.type = m.type /\ w.from = m.from /\ w.to = m.to
      /\ m.type = "AppendEntriesRequest" => w.prev = m.prev /\ w.entries = m.entries
  BY <1>2, ReceivedFacts
<1>4. m.type = "AppendEntriesRequest" => m.from = s /\ m.to # s /\ Fits(m, node[s].log)
  BY <1>2 DEF Base, SenderInv, OneLogInv, RequestInv
<1>5. w.type = "AppendEntriesRequest" => w.from = s /\ w.to # s /\ Fits(w, node[s].log)
  BY <1>3, <1>4 DEF Fits
<1>6. InboxInv' /\ OnlyLeads(s)' /\ PrefixInv(s)' /\ Distinct(node[s].log)' /\ OwnCommits'
  BY <1>2 DEF InboxInv, Base, OneLogInv, OnlyLeads, PrefixInv, OwnCommits
<1>7. RequestInv(s)'
  <2> SUFFICES ASSUME NEW x \in InTransit', x.type = "AppendEntriesRequest"
               PROVE  Fits(x, node'[s].log)
    BY DEF RequestInv
  <2>1. CASE x = w
    BY <1>2, <1>5, <2>1
  <2>2. CASE x \in InTransit
    BY <1>2, <2>2 DEF Base, OneLogInv, RequestInv
  <2>3. QED
    BY <1>1, <2>1, <2>2
<1>8. SenderInv(s)'
  BY <1>1, <1>5 DEF Base, SenderInv, Within
<1>9. LogsGrow
  BY <1>2, LogSeqs, BeginsFacts DEF LogsGrow
<1>10. QED
  BY <1>6, <1>7, <1>8, <1>9 DEF Base, OneLogInv
-----------------------------------------------------------------------------
(***************************************************************************)
(* A process dies and starts again.                                        *)
(***************************************************************************)
\* n starts anew, and nothing is in transit that was not before.
LEMMA RestartStep ==
  ASSUME TypeOK, NEW n \in Replica, Restart(n)
  PROVE  /\ NewNode \in State /\ node' = [node EXCEPT ![n] = NewNode]
         /\ IsMessageBag(messages') /\ InTransit' \subseteq InTransit
         /\ \/ UNCHANGED <<tick, inbox>>
            \/ tick' = Idle /\ inbox' = EmptyBag
<1>1. NewNode \in State
  BY BoundTypes, EmptySeq, ReplicaAssumption DEF NewNode, State
<1>2. PICK S \in GoneWith(n) : messages' = [m \in BagToSet(messages) \ S |-> messages[m]]
  BY DEF Restart
<1>3. BagToSet(messages) = DOMAIN messages /\ IsMessageBag(messages)
  BY DEF BagToSet, TypeOK, IsMessageBag
<1>4. IsMessageBag(messages') /\ BagToSet(messages') \subseteq BagToSet(messages)
  BY <1>2, <1>3 DEF IsMessageBag, IsABag, BagToSet
<1>5. UNCHANGED <<tick, inbox>> \/ (tick' = Idle /\ inbox' = EmptyBag)
  BY DEF Restart
<1>6. InTransit' \subseteq InTransit
  BY <1>4, <1>5, EmptyBags DEF InTransit
<1>7. QED
  BY <1>1, <1>4, <1>5, <1>6 DEF Restart, Restarted

LEMMA RestartType ==
  ASSUME TypeOK, NEW n \in Replica, Restart(n)
  PROVE  TypeOK'
<1>1. node' \in [Replica -> State]
  BY RestartStep DEF TypeOK
<1>2. /\ tick' \in [node : Replica \cup {None}, role : {"follower", "candidate", "leader"},
                    timerReset : BOOLEAN]
      /\ IsMessageBag(inbox') /\ IsMessageBag(messages')
  <2>1. IsMessageBag(inbox) /\ IsMessageBag(messages')
    BY RestartStep DEF TypeOK, IsMessageBag
  <2>2. CASE UNCHANGED <<tick, inbox>>
    BY <2>1, <2>2 DEF TypeOK
  <2>3. CASE tick' = Idle /\ inbox' = EmptyBag
    BY <2>1, <2>3, EmptyBags DEF Idle
  <2>4. QED
    BY <2>2, <2>3, RestartStep
<1>3. incoming_commands' \in [Replica -> Seq(Command)]
  BY EmptySeq DEF TypeOK, Restart
<1>4. /\ DOMAIN items_to_response' = Replica
      /\ \A p \in Replica : \A i \in DOMAIN items_to_response'[p] :
             i \in Nat \ {0} /\ items_to_response'[p][i] \in Command
  BY DEF TypeOK, Restart
<1>5. answer' \in [Command -> Answer]
  BY AnsweredType DEF Restart, Answer
<1>6. /\ query' \in [Reader -> [node : Replica \cup {None}, from : Nat, count : Nat]]
      /\ reply' \in [Reader -> Seq(Command \cup {Garbage}) \cup {None}]
  BY DEF TypeOK, Restart, NotAsked
<1>7. QED
  BY <1>1, <1>2, <1>3, <1>4, <1>5, <1>6 DEF TypeOK, IsMessageBag

\* Every promise that n holds is broken with its process.
LEMMA RestartDrops ==
  ASSUME TypeOK, NEW n \in Replica, Restart(n)
  PROVE  /\ Drops(n, Nat, "broken")
         /\ \A c \in Command : c \in LostCalls(n) <=> \E i \in Nat : Holds(n, i, c)
<1>1. ASSUME NEW c \in Command
      PROVE  c \in LostCalls(n) <=> \E i \in Nat : Holds(n, i, c)
  BY HoldsFacts DEF LostCalls, Holds, Commands
<1>2. ASSUME NEW p \in Replica, NEW i \in Nat, NEW c \in Command
      PROVE  Holds(p, i, c)' <=> Holds(p, i, c) /\ ~ (p = n /\ i \in Nat)
  <2>1. CASE p = n
    <3>1. incoming_commands'[n] = << >> /\ items_to_response'[n] = << >>
      BY DEF Restart, TypeOK
    <3>2. QED
      BY <2>1, <3>1 DEF Holds
  <2>2. CASE p # n
    <3>1. /\ incoming_commands'[p] = incoming_commands[p]
          /\ items_to_response'[p] = items_to_response[p]
      BY <2>2 DEF Restart, TypeOK
    <3>2. QED
      BY <2>2, <3>1 DEF Holds
  <2>3. QED
    BY <2>1, <2>2
<1>3. \A c \in Command : answer'[c] = IF c \in LostCalls(n) THEN "broken" ELSE answer[c]
  BY DEF Restart, Answered
<1>4. QED
  BY <1>1, <1>2, <1>3 DEF Drops

\* No call that is lost can be answered twice, and no command is in a log then that
\* was in none before.
LEMMA RestartCommands ==
  ASSUME TypeOK, CommandInv, NEW n \in Replica, Restart(n)
  PROVE  CommandInv'
<1>1. Drops(n, Nat, "broken")
  BY RestartDrops
<1>2. QueueInv'
  <2> SUFFICES ASSUME NEW p \in Replica
               PROVE  \A j, k \in DOMAIN incoming_commands'[p] :
                          incoming_commands'[p][j] = incoming_commands'[p][k] => j = k
    BY DEF QueueInv
  <2>1. incoming_commands'[p] = IF p = n THEN << >> ELSE incoming_commands[p]
    BY DEF Restart, TypeOK
  <2>2. QED
    BY <2>1 DEF CommandInv, PromiseInv, QueueInv
<1>3. PromiseInv'
  BY <1>1, <1>2, PromisesDropped DEF CommandInv
<1>4. \A c \in Command : Logged(c)' => Logged(c)
  <2>1. \A q \in Replica : node'[q].log = << >> \/ node'[q] = node[q]
    BY RestartStep DEF TypeOK, NewNode
  <2>2. \A c : InLogs(c)' => InLogs(c)
    BY <2>1 DEF InLogs
  <2>3. \A c : InRequests(c)' => InRequests(c)
    BY RestartStep DEF InRequests
  <2>4. QED
    BY <2>2, <2>3 DEF Logged
<1>5. \A c \in Command, p \in Replica : Holds(p, 0, c)' => Holds(p, 0, c)
  BY <1>1 DEF Drops
<1>6. \A c \in Command : answer'[c] = answer[c] \/ answer'[c] = "broken"
  BY <1>1 DEF Drops
<1>7. LoggedInv'
  BY <1>4, <1>5, <1>6, LoggedStays DEF CommandInv
<1>8. QED
  BY <1>3, <1>7 DEF CommandInv

\* If n is not the one that leads, its empty log is where the leader's begins.
LEMMA RestartBase ==
  ASSUME TypeOK, InboxInv, NEW s \in Replica, Base(s), NEW n \in Replica \ {s}, Restart(n)
  PROVE  InboxInv' /\ Base(s)' /\ node'[s] = node[s]
<1>1. node'[n] = NewNode /\ \A q \in Replica \ {n} : node'[q] = node[q]
  BY RestartStep DEF TypeOK
<1>2. InTransit' \subseteq InTransit
  BY RestartStep
<1>3. InboxInv'
  BY RestartStep, EmptyBags DEF InboxInv
<1>4. /\ NewNode.log = << >> /\ Len(NewNode.log) = 0
      /\ NewNode.role = "follower" /\ NewNode.commitIndex = 0
  BY DEF NewNode
<1>5. Len(node[s].log) \in Nat
  BY LogSeqs
<1>6. OnlyLeads(s)' /\ Distinct(node[s].log)' /\ OwnCommits'
  BY <1>1, <1>4 DEF Base, OneLogInv, OnlyLeads, OwnCommits
<1>7. PrefixInv(s)'
  <2>1. Begins(NewNode.log, node[s].log)
    BY <1>4, <1>5 DEF Begins, SameUpTo
  <2>2. QED
    BY <1>1, <2>1 DEF Base, OneLogInv, PrefixInv
<1>8. RequestInv(s)' /\ SenderInv(s)'
  BY <1>1, <1>2 DEF Base, OneLogInv, RequestInv, SenderInv
<1>9. QED
  BY <1>1, <1>3, <1>6, <1>7, <1>8 DEF Base, OneLogInv
-----------------------------------------------------------------------------
(***************************************************************************)
(* What holds whoever stands and whoever dies.                             *)
(***************************************************************************)
LEMMA WorkerInitial == WorkerInit => TypeOK /\ CommandInv
BY TypeInit, CommandInit DEF WorkerInit

LEMMA WorkerCommands ==
  ASSUME TypeOK, CommandInv, [WorkerNext]_workerVars
  PROVE  TypeOK' /\ CommandInv'
<1>1. CASE [Next]_vars
  BY <1>1, TypeStep, CommandStep
<1>2. CASE \E m \in BagToSet(messages) : SendAnnotatedMessage(m)
  BY <1>2, AnnotatedType, AnnotatedCommands
<1>3. CASE \E n \in Restarting : Restart(n)
  BY <1>3, WorkerAssumption, RestartType, RestartCommands
<1>4. QED
  BY <1>1, <1>2, <1>3, WorkerSteps

LEMMA WorkerInvariance == WorkerSpec => [](TypeOK /\ CommandInv)
<1>1. TypeOK /\ CommandInv /\ [WorkerNext]_workerVars => (TypeOK /\ CommandInv)'
  BY WorkerCommands
<1>2. QED
  BY WorkerInitial, <1>1, PTL DEF WorkerSpec

\* Whatever the service reads for leader_commit and whichever processes die, the
\* replicas stay in the states their types allow.
THEOREM WorkerTypeCorrect == WorkerSpec => []TypeOK
BY WorkerInvariance, PTL

\* Whichever processes die, and when, in the middle of a tick too: a client that
\* waits has its promise in one place, one whose replica died has been told, and no
\* promise is answered twice.
THEOREM OnePromiseAcrossRestarts == WorkerSpec => []OnePromise
<1>1. TypeOK /\ CommandInv => OnePromise
  BY PromisesCounted
<1>2. QED
  BY <1>1, WorkerInvariance, PTL

\* Not even a restart gets the command of a client that was sent away into a log:
\* it may submit it to the leader as if it were new.
THEOREM RedirectedNotLoggedAcrossRestarts == WorkerSpec => []RedirectedNotLogged
<1>1. CommandInv => RedirectedNotLogged
  BY RedirectedApart
<1>2. QED
  BY <1>1, WorkerInvariance, PTL
-----------------------------------------------------------------------------
(***************************************************************************)
(* What holds as long as nobody is elected but one replica that does not   *)
(* die.  The others may, and stand when they are new.                      *)
(***************************************************************************)
\* What clients were told stays true when n dies: it answers for no item, and what
\* was read from it is in the log of s.
LEMMA RestartClients ==
  ASSUME NEW s \in Replica, ClientInv(s), NEW n \in Replica \ {s}, Restart(n)
  PROVE  ClientInv(s)'
<1>1. TypeOK /\ InboxInv /\ CommandInv /\ Base(s)
  BY DEF ClientInv, BaseInv
<1>2. BaseInv(s)' /\ node'[s] = node[s]
  BY <1>1, RestartType, RestartCommands, RestartBase DEF BaseInv
<1>3. AnswerInv(s)'
  <2>1. /\ items_to_response'[n] = << >>
        /\ \A p \in Replica \ {n} : items_to_response'[p] = items_to_response[p]
    BY <1>1 DEF Restart, TypeOK
  <2>2. \A p \in Replica : \A i \in DOMAIN items_to_response'[p] :
            p # n /\ i \in DOMAIN items_to_response[p]
    BY <2>1
  <2>3. \A c \in Command : answer'[c] = "persisted" => answer[c] = "persisted"
    BY DEF Restart, Answered
  <2>4. QED
    BY <1>2, <2>1, <2>2, <2>3 DEF AnswerInv, ClientInv
<1>4. ReadInv(s)'
  <2>1. \A r \in Reader : reply'[r] # None => reply[r] # None /\ query'[r] = query[r]
    BY DEF Restart, Asking
  <2>2. reply' = reply
    BY DEF Restart
  <2>3. QED
    BY <1>2, <2>1, <2>2 DEF ReadInv, ClientInv
<1>5. QED
  BY <1>2, <1>3, <1>4 DEF ClientInv

LEMMA AnnotatedClients ==
  ASSUME NEW s \in Replica, ClientInv(s), NEW m \in BagToSet(messages), SendAnnotatedMessage(m)
  PROVE  ClientInv(s)'
<1>1. TypeOK /\ InboxInv /\ CommandInv /\ Base(s)
  BY DEF ClientInv, BaseInv
<1>2. BaseInv(s)'
  BY <1>1, AnnotatedType, AnnotatedCommands, AnnotatedBase DEF BaseInv
<1>3. UNCHANGED <<node, clientVars, readVars>>
  BY <1>1, AnnotatedStep
<1>4. AnswerInv(s)' /\ ReadInv(s)'
  BY <1>3 DEF ClientInv, AnswerInv, ReadInv, clientVars, readVars
<1>5. QED
  BY <1>2, <1>4 DEF ClientInv

LEMMA WorkerClients ==
  ASSUME NEW s \in Replica \ Restarting, OnlyLeads(s)', ClientInv(s), [WorkerNext]_workerVars
  PROVE  ClientInv(s)'
<1>1. CASE [Next]_vars
  BY <1>1, ClientNext
<1>2. CASE \E m \in BagToSet(messages) : SendAnnotatedMessage(m)
  BY <1>2, AnnotatedClients
<1>3. CASE \E n \in Restarting : Restart(n)
  BY <1>3, WorkerAssumption, RestartClients
<1>4. QED
  BY <1>1, <1>2, <1>3, WorkerSteps

LEMMA WorkerClientInvariance ==
  ASSUME NEW s \in Replica \ Restarting
  PROVE  WorkerSpec /\ []OnlyLeads(s) => []ClientInv(s)
<1>1. WorkerInit => ClientInv(s)
  BY ClientInit DEF WorkerInit
<1>2. ClientInv(s) /\ OnlyLeads(s)' /\ [WorkerNext]_workerVars => ClientInv(s)'
  BY WorkerClients
<1>3. QED
  BY <1>1, <1>2, PTL DEF WorkerSpec

\* Whatever leader_commit is read as, and although replicas lose their memory and
\* stand anew: as long as nobody is elected but s, no two replicas commit different
\* items at an index, and none commits beyond its log.
THEOREM SafetyAcrossRestarts ==
  ASSUME NEW s \in Replica \ Restarting
  PROVE  WorkerSpec /\ []OnlyLeads(s) => []StateMachineSafety
<1>1. ClientInv(s) => StateMachineSafety
  BY SafeCommits DEF ClientInv
<1>2. QED
  BY <1>1, WorkerClientInvariance, PTL

\* Nor do two reads from the same index disagree then: what is read too early is
\* what the log of s has there, and keeps.
THEOREM ReadsAgreeAcrossRestarts ==
  ASSUME NEW s \in Replica \ Restarting
  PROVE  WorkerSpec /\ []OnlyLeads(s) => []ReadsAgree
<1>1. ClientInv(s) => ReadsAgree
  BY SameReads
<1>2. QED
  BY <1>1, WorkerClientInvariance, PTL
-----------------------------------------------------------------------------
(***************************************************************************)
(* The replicated log of which a replica may die.                          *)
(***************************************************************************)
\* A step of the log of which no replica dies is one of the log of which some may.
LEMMA NobodyRestarts ==
  ASSUME [Log!UnsureNext]_Log!logVars
  PROVE  [RestartingLog!UnsureNext]_RestartingLog!logVars
<1>1. Log!Waiting = RestartingLog!Waiting
  BY DEF Log!Waiting, RestartingLog!Waiting
<1>2. ASSUME NEW S, NEW a
      PROVE  Log!Answered(S, a) = RestartingLog!Answered(S, a)
  BY DEF Log!Answered, RestartingLog!Answered
<1>3. ASSUME NEW k
      PROVE  Log!UpTo(k) = RestartingLog!UpTo(k)
  BY DEF Log!UpTo, RestartingLog!UpTo
<1>4. ASSUME NEW n, NEW k, Log!Learn(n, k)
      PROVE  RestartingLog!Learn(n, k)
  BY <1>4 DEF Log!Learn, RestartingLog!Learn
<1>5. ASSUME NEW c \in Command, Log!AddCommand(c)
      PROVE  RestartingLog!AddCommand(c)
  BY <1>5, Zenon DEF Log!AddCommand, RestartingLog!AddCommand
<1>6. ASSUME NEW n, NEW r, NEW q, Log!GetPersistentCommands(n, r, q)
      PROVE  RestartingLog!GetPersistentCommands(n, r, q)
  BY <1>6, Zenon DEF Log!GetPersistentCommands, RestartingLog!GetPersistentCommands
<1>7. ASSUME NEW n, NEW k, NEW S, Log!Tick(n, k, S)
      PROVE  RestartingLog!Tick(n, k, S)
  BY <1>1, <1>2, <1>3, <1>4, <1>7, Zenon
     DEF Log!Tick, RestartingLog!Tick, Log!Asking, RestartingLog!Asking,
         Log!PersistentCommands, RestartingLog!PersistentCommands
<1>8. ASSUME NEW n, NEW k, NEW S, NEW leader, Log!Hear(n, k, S, leader)
      PROVE  RestartingLog!Hear(n, k, S, leader)
  BY <1>1, <1>2, <1>3, <1>4, <1>8, Zenon DEF Log!Hear, RestartingLog!Hear
<1>9. ASSUME NEW new, Log!Order(new)
      PROVE  RestartingLog!Order(new)
  BY <1>1, <1>3, <1>9, Zenon DEF Log!Order, RestartingLog!Order
<1>10. ASSUME NEW n, NEW S, Log!Restart(n, S)
       PROVE  FALSE
  BY <1>10 DEF Log!Restart
<1>11. Log!Cardinality(Log!Waiting) = RestartingLog!Cardinality(RestartingLog!Waiting)
  BY <1>1 DEF Log!Cardinality, RestartingLog!Cardinality
<1>12. Log!Next => RestartingLog!Next
  BY <1>1, <1>5, <1>6, <1>7, <1>8, <1>9, <1>10, <1>11, Zenon DEF Log!Next, RestartingLog!Next
<1>13. ASSUME NEW n, NEW k, NEW S, NEW leader, Log!Mishear(n, k, S, leader)
       PROVE  RestartingLog!Mishear(n, k, S, leader)
  BY <1>1, <1>2, <1>3, <1>13, Zenon DEF Log!Mishear, RestartingLog!Mishear
<1>14. Log!UnsureNext => RestartingLog!UnsureNext
  <2>1. ASSUME NEW n \in Replica, NEW leader \in Replica, NEW S \in SUBSET Log!Waiting,
               NEW k \in 0 .. Len(LongestLog), Log!Mishear(n, k, S, leader)
        PROVE  RestartingLog!UnsureNext
    <3>1. RestartingLog!Mishear(n, k, S, leader) /\ S \in SUBSET RestartingLog!Waiting
      BY <1>1, <1>13, <2>1
    <3>2. QED
      BY <3>1, Zenon DEF RestartingLog!UnsureNext
  <2>2. RestartingLog!Next => RestartingLog!UnsureNext
    BY DEF RestartingLog!UnsureNext
  <2>3. QED
    BY <1>12, <2>1, <2>2, Zenon DEF Log!UnsureNext
<1>15. QED
  BY <1>14 DEF Log!logVars, RestartingLog!logVars

\* A message that passes through the service changes nothing of the log.
LEMMA AnnotatedImplements ==
  ASSUME NEW s \in Replica, ClientInv(s), NEW m \in BagToSet(messages), SendAnnotatedMessage(m)
  PROVE  UNCHANGED RestartingLog!logVars
<1>1. BaseInv(s) /\ TypeOK
  BY DEF ClientInv, BaseInv
<1>2. BaseInv(s)'
  BY AnnotatedClients DEF ClientInv
<1>3. UNCHANGED <<node, clientVars, readVars>>
  BY <1>1, AnnotatedStep
<1>4. UNCHANGED Log!logVars
  BY <1>1, <1>2, <1>3, Stutter DEF clientVars, readVars
<1>5. QED
  BY <1>4 DEF Log!logVars, RestartingLog!logVars

\* A process other than that of s that dies takes its own prefix with it and the
\* calls it has not answered, and nothing of the order.
LEMMA RestartImplements ==
  ASSUME NEW s \in Replica, ClientInv(s), NEW n \in Restarting, n # s, Restart(n)
  PROVE  RestartingLog!Next
<1>1. BaseInv(s) /\ TypeOK /\ InboxInv /\ CommandInv /\ Base(s) /\ n \in Replica
  BY WorkerAssumption DEF ClientInv, BaseInv
<1>2. BaseInv(s)'
  BY <1>1, RestartClients DEF ClientInv
<1>3. LongestLog' = LongestLog
  <2>1. node'[s].log = node[s].log
    BY <1>1, RestartBase
  <2>2. QED
    BY <1>1, <1>2, <2>1, SameOrder
<1>4. CommitIndices' = [CommitIndices EXCEPT ![n] = 0]
  <2>1. NewNode \in State /\ node' = [node EXCEPT ![n] = NewNode] /\ NewNode.commitIndex = 0
    BY <1>1, RestartStep DEF NewNode
  <2>2. CommitIndices' = [CommitIndices EXCEPT ![n] = NewNode.commitIndex]
    BY <1>1, <2>1, CommitIndicesFacts
  <2>3. QED
    BY <2>1, <2>2
<1> DEFINE S == LostCalls(n)
<1>5. S \in SUBSET RestartingLog!Waiting
  <2>1. S \subseteq Command
    BY <1>1, HoldsFacts DEF LostCalls, Commands, TypeOK
  <2>2. \A c \in S : answer[c] = "waiting"
    BY <1>1, <2>1, RestartDrops DEF CommandInv, PromiseInv, WaitingInv
  <2>3. QED
    BY <2>1, <2>2 DEF RestartingLog!Waiting
<1>6. answer' = RestartingLog!Answered(S, "broken")
  BY Zenon DEF Restart, Answered, RestartingLog!Answered
<1>7. query' = [r \in Reader |-> IF RestartingLog!Asking(r) /\ query[r].node = n
                                 THEN RestartingLog!NotAsked ELSE query[r]]
  BY Zenon DEF Restart, Asking, NotAsked, RestartingLog!Asking, RestartingLog!NotAsked
<1>8. reply' = reply
  BY DEF Restart
<1> HIDE DEF S
<1>9. RestartingLog!Restart(n, S)
  BY <1>3, <1>4, <1>5, <1>6, <1>7, <1>8, Zenon DEF RestartingLog!Restart
<1>10. QED
  BY <1>1, <1>5, <1>9, Zenon DEF RestartingLog!Next

\* As long as nobody is elected but s, replicas that die, start with nothing and
\* stand anew, and requests that arrive with anything for leader_commit, still make
\* one replicated log: nothing is forgotten but how much the dead one knew to be
\* persistent, and only how much is persistent may be misheard.
THEOREM ImplementsRestartingLogHolds ==
  ASSUME NEW s \in Replica \ Restarting
  PROVE  WorkerSpec /\ []OnlyLeads(s) => ImplementsRestartingLog
<1>1. ASSUME ClientInv(s), OnlyLeads(s)', [WorkerNext]_workerVars
      PROVE  [RestartingLog!UnsureNext]_RestartingLog!logVars
  <2>1. CASE [Next]_vars
    BY <1>1, <2>1, StepImplements, NobodyRestarts
  <2>2. ASSUME NEW m \in BagToSet(messages), SendAnnotatedMessage(m)
        PROVE  UNCHANGED RestartingLog!logVars
    BY <1>1, <2>2, AnnotatedImplements
  <2>3. ASSUME NEW n \in Restarting, Restart(n)
        PROVE  RestartingLog!UnsureNext
    BY <1>1, <2>3, RestartImplements DEF RestartingLog!UnsureNext
  <2>4. QED
    BY <1>1, <2>1, <2>2, <2>3, WorkerSteps
<1>2. WorkerInit => RestartingLog!Init
  <2> SUFFICES ASSUME WorkerInit
               PROVE  RestartingLog!Init
    OBVIOUS
  <2>1. Log!Init
    BY InitImplements DEF WorkerInit
  <2>2. QED
    BY <2>1 DEF Log!Init, RestartingLog!Init, Log!NotAsked, RestartingLog!NotAsked
<1>3. QED
  BY <1>1, <1>2, WorkerClientInvariance, PTL
     DEF WorkerSpec, ImplementsRestartingLog, RestartingLog!UnsureSpec
=============================================================================
