--------------------- MODULE ConsensusNodeCommandProofs ---------------------
(***************************************************************************)
(* Promises and commands of ConsensusNode, proved for every value of its   *)
(* constants: whoever leads, and however many lead at once.                *)
(***************************************************************************)
EXTENDS ConsensusNodeLogProofs

-----------------------------------------------------------------------------
(***************************************************************************)
(* Promises.                                                               *)
(***************************************************************************)
\* Replica n holds the promise of c: in its queue (index 0), or under the index
\* i of an item it answers for.
Holds(n, i, c) ==
    \/ i = 0 /\ \E k \in DOMAIN incoming_commands[n] : incoming_commands[n][k] = c
    \/ i \in DOMAIN items_to_response[n] /\ items_to_response[n][i] = c

\* A command is at most once in a queue.
QueueInv == \A n \in Replica : \A j, k \in DOMAIN incoming_commands[n] :
    incoming_commands[n][j] = incoming_commands[n][k] => j = k

\* The promise of every waiting client is somewhere, and of no other.
WaitingInv == \A c \in Command :
    answer[c] = "waiting" <=> \E n \in Replica, i \in Nat : Holds(n, i, c)

\* No promise is in two places.
PlaceInv == \A c \in Command, n, p \in Replica, i, j \in Nat :
    Holds(n, i, c) /\ Holds(p, j, c) => n = p /\ i = j

PromiseInv == QueueInv /\ WaitingInv /\ PlaceInv

\* Items are answered for under positive indices.
LEMMA HoldsFacts ==
  ASSUME TypeOK, NEW n \in Replica
  PROVE  /\ incoming_commands[n] \in Seq(Command)
         /\ 0 \notin DOMAIN items_to_response[n]
         /\ DOMAIN items_to_response[n] \subseteq Nat
         /\ \A c : Holds(n, 0, c) <=> c \in Commands(incoming_commands[n])
         /\ \A c, i : i # 0 => (Holds(n, i, c) <=> /\ i \in DOMAIN items_to_response[n]
                                                   /\ items_to_response[n][i] = c)
BY DEF TypeOK, Holds, Commands

\* The promises n holds under the indices I are answered and dropped.
Drops(n, I, a) ==
    /\ \A p \in Replica, i \in Nat, c \in Command :
           Holds(p, i, c)' <=> Holds(p, i, c) /\ ~ (p = n /\ i \in I)
    /\ \A c \in Command :
           answer'[c] = IF \E i \in I : Holds(n, i, c) THEN a ELSE answer[c]

LEMMA PromisesDropped ==
  ASSUME PromiseInv, QueueInv', NEW n \in Replica, NEW I \in SUBSET Nat,
         NEW a, a # "waiting", Drops(n, I, a)
  PROVE  PromiseInv'
<1>0. /\ \A p \in Replica, i \in Nat, c \in Command :
             Holds(p, i, c)' <=> Holds(p, i, c) /\ ~ (p = n /\ i \in I)
      /\ \A c \in Command :
             answer'[c] = IF \E i \in I : Holds(n, i, c) THEN a ELSE answer[c]
  BY DEF Drops
<1>1. PlaceInv'
  BY <1>0 DEF PlaceInv, PromiseInv
<1>2. ASSUME NEW c \in Command
      PROVE  answer'[c] = "waiting" <=> \E p \in Replica, i \in Nat : Holds(p, i, c)'
  <2>1. CASE \E i \in I : Holds(n, i, c)
    <3>1. PICK i \in I : Holds(n, i, c)
      BY <2>1
    <3>2. answer'[c] # "waiting"
      BY <1>0, <2>1
    <3>3. \A p \in Replica, j \in Nat : Holds(p, j, c) => p = n /\ j = i
      BY <3>1 DEF PlaceInv, PromiseInv
    <3>4. QED
      BY <1>0, <3>1, <3>2, <3>3
  <2>2. CASE ~ \E i \in I : Holds(n, i, c)
    <3>1. answer'[c] = answer[c]
      BY <1>0, <2>2
    <3>2. \A p \in Replica, j \in Nat : Holds(p, j, c)' <=> Holds(p, j, c)
      BY <1>0, <2>2
    <3>3. QED
      BY <3>1, <3>2 DEF WaitingInv, PromiseInv
  <2>3. QED
    BY <2>1, <2>2
<1>3. QED
  BY <1>1, <1>2 DEF PromiseInv, WaitingInv

\* Answering the promises n holds under the indices I, in terms of Answered.
LEMMA OwedFacts ==
  ASSUME TypeOK, NEW n \in Replica, NEW I \in SUBSET (Nat \ {0}), NEW a,
         answer' = Answered(Owed(n, I), a), NEW c \in Command
  PROVE  answer'[c] = IF \E i \in I : Holds(n, i, c) THEN a ELSE answer[c]
<1>1. c \in Owed(n, I) <=> \E i \in I : Holds(n, i, c)
  BY HoldsFacts DEF Owed
<1>2. QED
  BY <1>1 DEF Answered

\* AddCommand: the promise goes to the queue.
LEMMA AddCommandPromises ==
  ASSUME TypeOK, PromiseInv, NEW n \in Replica, NEW c \in Command, AddCommand(n, c)
  PROVE  PromiseInv'
<1> DEFINE queue == incoming_commands[n]
<1>1. /\ answer' = [answer EXCEPT ![c] = "waiting"]
      /\ incoming_commands' = [incoming_commands EXCEPT ![n] = Append(queue, c)]
      /\ UNCHANGED items_to_response
      /\ answer[c] = "new"
  BY DEF AddCommand
<1>2. queue \in Seq(Command) /\ incoming_commands \in [Replica -> Seq(Command)]
      /\ answer \in [Command -> Answer]
  BY DEF TypeOK
<1>3. \A p \in Replica, i \in Nat : ~ Holds(p, i, c)
  BY <1>1 DEF PromiseInv, WaitingInv
<1>4. \A k \in DOMAIN queue : queue[k] # c
  BY <1>3 DEF Holds
<1>5. incoming_commands'[n] = Append(queue, c)
      /\ \A p \in Replica \ {n} : incoming_commands'[p] = incoming_commands[p]
  BY <1>1, <1>2
<1> HIDE DEF queue
<1>6. /\ DOMAIN Append(queue, c) = DOMAIN queue \cup {Len(queue) + 1}
      /\ \A k \in DOMAIN queue : Append(queue, c)[k] = queue[k]
      /\ Append(queue, c)[Len(queue) + 1] = c
  BY <1>2
<1>7. QueueInv'
  <2>1. \A j, k \in DOMAIN Append(queue, c) :
            Append(queue, c)[j] = Append(queue, c)[k] => j = k
    BY <1>4, <1>6 DEF PromiseInv, QueueInv, queue
  <2>2. QED
    BY <1>5, <2>1 DEF PromiseInv, QueueInv
<1>8. \A p \in Replica, i \in Nat, d \in Command :
          Holds(p, i, d)' <=> Holds(p, i, d) \/ (p = n /\ i = 0 /\ d = c)
  <2> SUFFICES ASSUME NEW p \in Replica, NEW i \in Nat, NEW d \in Command
               PROVE  Holds(p, i, d)' <=> Holds(p, i, d) \/ (p = n /\ i = 0 /\ d = c)
    OBVIOUS
  <2>1. CASE p = n
    <3>1. (\E k \in DOMAIN incoming_commands'[n] : incoming_commands'[n][k] = d)
              <=> (\E k \in DOMAIN queue : queue[k] = d) \/ d = c
      BY <1>5, <1>6
    <3>2. QED
      BY <1>1, <2>1, <3>1 DEF Holds, queue
  <2>2. CASE p # n
    BY <1>1, <1>5, <2>2 DEF Holds
  <2>3. QED
    BY <2>1, <2>2
<1>9. PlaceInv'
  BY <1>3, <1>8 DEF PlaceInv, PromiseInv
<1>10. WaitingInv'
  <2> SUFFICES ASSUME NEW d \in Command
               PROVE  answer'[d] = "waiting" <=> \E p \in Replica, i \in Nat : Holds(p, i, d)'
    BY DEF WaitingInv
  <2>1. CASE d = c
    BY <1>1, <1>2, <1>8, <2>1
  <2>2. CASE d # c
    BY <1>1, <1>2, <1>8, <2>2 DEF WaitingInv, PromiseInv
  <2>3. QED
    BY <2>1, <2>2
<1>11. QED
  BY <1>7, <1>9, <1>10 DEF PromiseInv

\* Redirect: the queue is emptied, its callers are sent to another replica.
LEMMA RedirectPromises ==
  ASSUME TypeOK, PromiseInv, NEW n \in Replica, NEW leader \in Replica, Redirect(n, leader),
         UNCHANGED items_to_response
  PROVE  PromiseInv'
<1>1. /\ answer' = Answered(Commands(incoming_commands[n]), leader)
      /\ incoming_commands' = [incoming_commands EXCEPT ![n] = << >>]
  BY DEF Redirect
<1>2. /\ incoming_commands'[n] = << >>
      /\ \A p \in Replica \ {n} : incoming_commands'[p] = incoming_commands[p]
  BY <1>1 DEF TypeOK
<1>3. QueueInv'
  BY <1>2 DEF QueueInv, PromiseInv
<1>4. \A p \in Replica, i \in Nat, c \in Command :
          Holds(p, i, c)' <=> Holds(p, i, c) /\ ~ (p = n /\ i \in {0})
  BY <1>2, HoldsFacts DEF Holds
<1>5. \A c \in Command :
          answer'[c] = IF \E i \in {0} : Holds(n, i, c) THEN leader ELSE answer[c]
  BY <1>1, HoldsFacts DEF Answered
<1>6. leader # "waiting" /\ {0} \in SUBSET Nat
  BY AnswerAssumption
<1>7. Drops(n, {0}, leader)
  BY <1>4, <1>5 DEF Drops
<1>8. QED
  BY <1>3, <1>6, <1>7, PromisesDropped

\* Commit: the promises of the committed indices are answered.
LEMMA CommitPromises ==
  ASSUME TypeOK, PromiseInv, NEW n \in Replica, Commit(n), UNCHANGED incoming_commands
  PROVE  PromiseInv'
<1> DEFINE done == node[n].commitIndex + 1 .. CommitTarget(node[n])
<1>1. /\ answer' = Answered(Owed(n, done), "persisted")
      /\ items_to_response' =
             [items_to_response EXCEPT ![n] =
                 [i \in DOMAIN items_to_response[n] \ done |-> items_to_response[n][i]]]
  BY DEF Commit
<1>2. done \in SUBSET (Nat \ {0})
  BY CommitTargetType DEF TypeOK, State
<1> HIDE DEF done
<1>3. /\ items_to_response'[n] =
             [i \in DOMAIN items_to_response[n] \ done |-> items_to_response[n][i]]
      /\ \A p \in Replica \ {n} : items_to_response'[p] = items_to_response[p]
  BY <1>1 DEF TypeOK
<1>4. QueueInv'
  BY DEF QueueInv, PromiseInv
<1>5. \A p \in Replica, i \in Nat, c \in Command :
          Holds(p, i, c)' <=> Holds(p, i, c) /\ ~ (p = n /\ i \in done)
  BY <1>2, <1>3, HoldsFacts DEF Holds
<1>6. \A c \in Command :
          answer'[c] = IF \E i \in done : Holds(n, i, c) THEN "persisted" ELSE answer[c]
  BY <1>1, <1>2, OwedFacts
<1>7. Drops(n, done, "persisted")
  BY <1>5, <1>6 DEF Drops
<1>8. QED
  BY <1>2, <1>4, <1>7, PromisesDropped

\* AddNewCommandsToLog: the promises of the queue go under the new indices; those
\* that are there are broken.
LEMMA AddNewCommandsPromises ==
  ASSUME TypeOK, PromiseInv, NEW n \in Replica, AddNewCommandsToLog(n)
  PROVE  PromiseInv'
<1> DEFINE new == incoming_commands[n]
           base == LastLogIndex(node[n].log)
           added == base + 1 .. base + Len(new)
<1>1. /\ items_to_response' =
             [items_to_response EXCEPT ![n] =
                 [i \in DOMAIN items_to_response[n] \cup added |->
                      IF i \in added THEN new[i - base] ELSE items_to_response[n][i]]]
      /\ answer' = Answered(Owed(n, added), "broken")
      /\ incoming_commands' = [incoming_commands EXCEPT ![n] = << >>]
  BY DEF AddNewCommandsToLog
<1>2. new \in Seq(Command) /\ base \in Nat
  BY LogTypes DEF TypeOK, State
<1>3. added \in SUBSET (Nat \ {0})
  BY <1>2
<1>4. /\ items_to_response'[n] =
             [i \in DOMAIN items_to_response[n] \cup added |->
                  IF i \in added THEN new[i - base] ELSE items_to_response[n][i]]
      /\ \A p \in Replica \ {n} : items_to_response'[p] = items_to_response[p]
      /\ incoming_commands'[n] = << >>
      /\ \A p \in Replica \ {n} : incoming_commands'[p] = incoming_commands[p]
  BY <1>1 DEF TypeOK
<1>5. \A i \in added : i - base \in DOMAIN new
  BY <1>2
<1>6. \A k \in DOMAIN new : \E i \in added : i - base = k
  <2>1. \A k \in DOMAIN new : base + k \in added /\ (base + k) - base = k
    BY <1>2
  <2>2. QED
    BY <2>1
<1>7. \A i, j \in added : i - base = j - base => i = j
  BY <1>2
<1> HIDE DEF added, base
<1>8. QueueInv'
  BY <1>4 DEF QueueInv, PromiseInv
<1>9. \A c \in Command : Holds(n, 0, c) <=> \E k \in DOMAIN new : new[k] = c
  BY HoldsFacts DEF Commands
<1>10. \A p \in Replica, i \in Nat, c \in Command : p # n => (Holds(p, i, c)' <=> Holds(p, i, c))
  BY <1>4 DEF Holds
<1>11. \A i \in Nat, c \in Command :
           Holds(n, i, c)' <=> IF i \in added THEN new[i - base] = c
                               ELSE i # 0 /\ Holds(n, i, c)
  BY <1>3, <1>4, HoldsFacts DEF Holds
<1>12. \A c \in Command :
           answer'[c] = IF \E i \in added : Holds(n, i, c) THEN "broken" ELSE answer[c]
  BY <1>1, <1>3, OwedFacts
<1>13. \A j, k \in DOMAIN new : new[j] = new[k] => j = k
  BY DEF QueueInv, PromiseInv
<1> HIDE DEF new
\* A promise at one of the new indices was in the queue, one elsewhere stayed.
<1>14. ASSUME NEW c \in Command, NEW p \in Replica, NEW i \in Nat, Holds(p, i, c)'
       PROVE  \/ p = n /\ i \in added /\ Holds(n, 0, c)
              \/ ~ (p = n /\ i \in added) /\ Holds(p, i, c) /\ ~ Holds(n, 0, c)
  <2>1. CASE p = n /\ i \in added
    BY <1>5, <1>9, <1>11, <1>14, <2>1
  <2>2. CASE ~ (p = n /\ i \in added)
    <3>1. Holds(p, i, c) /\ ~ (p = n /\ i = 0)
      BY <1>10, <1>11, <1>14, <2>2
    <3>2. QED
      BY <2>2, <3>1 DEF PlaceInv, PromiseInv
  <2>3. QED
    BY <2>1, <2>2
<1>15. PlaceInv'
  <2> SUFFICES ASSUME NEW c \in Command, NEW p \in Replica, NEW q \in Replica,
                      NEW i \in Nat, NEW j \in Nat, Holds(p, i, c)', Holds(q, j, c)'
               PROVE  p = q /\ i = j
    BY DEF PlaceInv
  <2>1. CASE Holds(n, 0, c)
    <3>1. p = n /\ i \in added /\ q = n /\ j \in added
      BY <1>14, <2>1
    <3>2. new[i - base] = c /\ new[j - base] = c
      BY <1>11, <3>1
    <3>3. QED
      BY <1>5, <1>7, <1>13, <3>1, <3>2
  <2>2. CASE ~ Holds(n, 0, c)
    <3>1. Holds(p, i, c) /\ Holds(q, j, c)
      BY <1>14, <2>2
    <3>2. QED
      BY <3>1 DEF PlaceInv, PromiseInv
  <2>3. QED
    BY <2>1, <2>2
<1>16. WaitingInv'
  <2> SUFFICES ASSUME NEW c \in Command
               PROVE  answer'[c] = "waiting" <=> \E p \in Replica, i \in Nat : Holds(p, i, c)'
    BY DEF WaitingInv
  <2>1. CASE Holds(n, 0, c)
    <3>1. answer[c] = "waiting" /\ ~ \E i \in added : Holds(n, i, c)
      BY <1>3, <2>1 DEF PlaceInv, WaitingInv, PromiseInv
    <3>2. PICK k \in DOMAIN new : new[k] = c
      BY <1>9, <2>1
    <3>3. PICK i \in added : i - base = k
      BY <1>6
    <3>4. i \in Nat /\ Holds(n, i, c)'
      BY <1>3, <1>11, <3>2, <3>3
    <3>5. answer'[c] = "waiting"
      BY <1>12, <3>1
    <3>6. QED
      BY <3>4, <3>5
  <2>2. CASE \E i \in added : Holds(n, i, c)
    <3>1. PICK i \in added : Holds(n, i, c)
      BY <2>2
    <3>2. ~ \E p \in Replica, j \in Nat : Holds(p, j, c)'
      BY <1>3, <1>14, <3>1 DEF PlaceInv, PromiseInv
    <3>3. QED
      BY <1>12, <2>2, <3>2
  <2>3. CASE ~ Holds(n, 0, c) /\ ~ \E i \in added : Holds(n, i, c)
    <3>1. \A p \in Replica, i \in Nat : Holds(p, i, c)' <=> Holds(p, i, c)
      BY <1>10, <1>11, <1>14, <2>3
    <3>2. QED
      BY <1>12, <2>3, <3>1 DEF WaitingInv, PromiseInv
  <2>4. QED
    BY <2>1, <2>2, <2>3
<1>17. QED
  BY <1>8, <1>15, <1>16 DEF PromiseInv
-----------------------------------------------------------------------------
(***************************************************************************)
(* Commands in logs and in requests.                                       *)
(***************************************************************************)
InLogs(c) == \E n \in Replica : \E i \in DOMAIN node[n].log : node[n].log[i].command = c

InRequests(c) == \E m \in InTransit :
    /\ m.type = "AppendEntriesRequest"
    /\ \E k \in DOMAIN m.entries : m.entries[k].command = c

Logged(c) == InLogs(c) \/ InRequests(c)

\* A command that is in a log or on its way to one has been submitted, waits in no
\* queue, and its client was not sent away.
LoggedInv == \A c \in Command : Logged(c) =>
    /\ answer[c] \notin Replica \cup {"new"}
    /\ \A n \in Replica : ~ Holds(n, 0, c)

CommandInv == PromiseInv /\ LoggedInv

\* The items a replica makes of its log and a request's are theirs.
LEMMA AppendItemsItems ==
  ASSUME NEW log \in Seq(Item), NEW items \in Seq(Item), NEW prev \in Nat, prev <= Len(log),
         NEW i \in DOMAIN AppendItems(log, prev, items)
  PROVE  \/ \E j \in DOMAIN log : AppendItems(log, prev, items)[i] = log[j]
         \/ \E j \in DOMAIN items : AppendItems(log, prev, items)[i] = items[j]
<1>1. CASE Contains(log, prev, items)
  BY <1>1 DEF AppendItems
<1>2. CASE ~ Contains(log, prev, items)
  <2> DEFINE head == SubSeq(log, 1, prev)
  <2>1. AppendItems(log, prev, items) = head \o items
    BY <1>2 DEF AppendItems
  <2>2. head \in Seq(Item) /\ Len(head) = prev /\ \A j \in 1 .. prev : head[j] = log[j]
    OBVIOUS
  <2> HIDE DEF head
  <2>3. i \in 1 .. prev + Len(items)
    BY <2>1, <2>2
  <2>4. CASE i <= prev
    BY <2>1, <2>2, <2>3, <2>4
  <2>5. CASE i > prev
    <3>1. (head \o items)[i] = items[i - prev] /\ i - prev \in DOMAIN items
      BY <2>2, <2>3, <2>5
    <3>2. QED
      BY <2>1, <3>1
  <2>6. QED
    BY <2>3, <2>4, <2>5
<1>3. QED
  BY <1>1, <1>2

\* The items a leader sends are of its log.
LEMMA SentItems ==
  ASSUME NEW n \in Replica, NEW s \in State, s.role = "leader", NEW read \in [Replica -> Term],
         NEW m \in AppendEntriesToAll(n, s, read), NEW k \in DOMAIN m.entries
  PROVE  m.prev + k \in DOMAIN s.log /\ s.log[m.prev + k] = m.entries[k]
<1>1. m \in AppendEntriesRequest
  BY AppendEntriesToAllType
<1>2. m.entries \in Seq(Item) /\ m.prev \in Nat /\ m.entries # << >>
  BY <1>1 DEF AppendEntriesRequest
<1>3. Slice(m, s.log) /\ s.log \in Seq(Item)
  BY <1>2, AppendEntriesToAllFacts DEF SentBy, State
<1>4. m.prev + k \in 1 .. Len(s.log) /\ s.log[m.prev + k] = m.entries[k]
  BY <1>2, <1>3, SliceItems DEF Slice
<1>5. QED
  BY <1>3, <1>4

\* The requests that are new bring commands that are logged.
NewRequestsLogged == \A m \in InTransit' : m.type = "AppendEntriesRequest" =>
    m \in InTransit \/ \A k \in DOMAIN m.entries : Logged(m.entries[k].command)

\* A step of n to the state t logs nothing but what is in the log of t.
LEMMA LoggedStep ==
  ASSUME TypeOK, NEW n \in Replica, NEW t \in State, node' = [node EXCEPT ![n] = t],
         NewRequestsLogged, NEW c \in Command, Logged(c)'
  PROVE  Logged(c) \/ \E i \in DOMAIN t.log : t.log[i].command = c
<1>1. node'[n] = t /\ \A q \in Replica \ {n} : node'[q] = node[q]
  BY DEF TypeOK
<1>2. CASE InLogs(c)'
  BY <1>1, <1>2 DEF InLogs, Logged
<1>3. CASE InRequests(c)'
  BY <1>3 DEF InRequests, Logged, NewRequestsLogged
<1>4. QED
  BY <1>2, <1>3 DEF Logged

\* A step that puts no command into logs, and answers only clients whose commands
\* are in a queue, or by something else than another replica.
LEMMA LoggedStays ==
  ASSUME LoggedInv, \A c \in Command : Logged(c)' => Logged(c),
         \A c \in Command, p \in Replica : Holds(p, 0, c)' => Holds(p, 0, c) \/ answer[c] = "new",
         \A c \in Command : \/ answer'[c] = answer[c]
                            \/ answer'[c] \in {"waiting", "persisted", "broken"}
                            \/ \E p \in Replica : Holds(p, 0, c)
  PROVE  LoggedInv'
<1> SUFFICES ASSUME NEW c \in Command, Logged(c)'
             PROVE  /\ answer'[c] \notin Replica \cup {"new"}
                    /\ \A p \in Replica : ~ Holds(p, 0, c)'
  BY DEF LoggedInv
<1>1. /\ answer[c] \notin Replica \cup {"new"}
      /\ \A p \in Replica : ~ Holds(p, 0, c)
  BY DEF LoggedInv
<1>2. QED
  BY <1>1, AnswerAssumption

\* A step that changes no replica and sends nothing puts no command into logs.
LEMMA LoggedSame ==
  ASSUME UNCHANGED node, InTransit' \subseteq InTransit, NEW c \in Command, Logged(c)'
  PROVE  Logged(c)
BY DEF Logged, InLogs, InRequests

\* Nothing changes for the clients.
LEMMA ClientsSame ==
  ASSUME CommandInv, UNCHANGED clientVars, \A c \in Command : Logged(c)' => Logged(c)
  PROVE  CommandInv'
<1>1. \A n, i, c : Holds(n, i, c)' <=> Holds(n, i, c)
  BY DEF Holds, clientVars
<1>2. UNCHANGED <<answer, incoming_commands>>
  BY DEF clientVars
<1>3. PromiseInv'
  BY <1>1, <1>2 DEF CommandInv, PromiseInv, QueueInv, WaitingInv, PlaceInv
<1>4. LoggedInv'
  BY <1>1, <1>2 DEF CommandInv, LoggedInv
<1>5. QED
  BY <1>3, <1>4 DEF CommandInv

\* A replica's log before a step, as commands that are logged.
LEMMA OwnLog ==
  ASSUME TypeOK, NEW n \in Replica, NEW i \in DOMAIN node[n].log
  PROVE  Logged(node[n].log[i].command)
BY DEF Logged, InLogs

\* A handler that leaves the log alone and sends no request logs nothing.
LEMMA HandledLogged ==
  ASSUME TypeOK, NEW n \in Replica, NEW t \in State, NEW A, Handled(n, t, A),
         t.log = node[n].log,
         \A m \in A : m.type = "AppendEntriesRequest" =>
             \A k \in DOMAIN m.entries : \E j \in DOMAIN t.log : m.entries[k] = t.log[j],
         NEW c \in Command, Logged(c)'
  PROVE  Logged(c)
<1>1. \A i \in DOMAIN t.log : Logged(t.log[i].command)
  BY OwnLog
<1>2. NewRequestsLogged
  BY <1>1 DEF NewRequestsLogged, Handled
<1>3. Logged(c) \/ \E i \in DOMAIN t.log : t.log[i].command = c
  BY <1>2, LoggedStep DEF Handled
<1>4. QED
  BY <1>1, <1>3

-----------------------------------------------------------------------------
(***************************************************************************)
(* The actions.                                                            *)
(***************************************************************************)
\* Handling AppendEntries: the queue may be redirected, nothing new is logged.
LEMMA AppendEntriesRequestCommands ==
  ASSUME TypeOK, CommandInv, NEW n \in Replica, NEW m \in BagToSet(inbox),
         HandleAppendEntriesRequest(n, m)
  PROVE  CommandInv'
<1>1. /\ m \in InTransit /\ m.type = "AppendEntriesRequest" /\ m.from \in Replica
      /\ m.term \in Term /\ m.prev \in Nat /\ m.entries \in Seq(Item)
      /\ UNCHANGED items_to_response
  BY AppendEntriesRequestStep DEF AppendEntriesRequest
<1>2. PICK s, t \in State, accepted \in BOOLEAN, matched \in Nat :
          AppendEntriesRequestEffect(n, m, s, t, accepted, matched)
  BY AppendEntriesRequestStep
<1> DEFINE r == AppendEntriesReply(m, t.term, accepted, IF accepted THEN matched ELSE 0)
<1>3. /\ s = AdoptTerm(node[n], m.term)
      /\ accepted => HasPrev(s.log, m.prev, m.prevTerm)
      /\ t.log = IF accepted THEN AppendItems(s.log, m.prev, m.entries) ELSE s.log
      /\ r \in AppendEntriesResponse
      /\ node' = [node EXCEPT ![n] = t]
      /\ InTransit' \subseteq InTransit \cup {r}
      /\ \/ UNCHANGED <<incoming_commands, answer>>
         \/ Redirect(n, m.from)
  BY <1>2 DEF AppendEntriesRequestEffect, Handled
<1>4. s.log = node[n].log /\ s.log \in Seq(Item)
  <2>1. node[n] \in State
    BY DEF TypeOK
  <2>2. s.log = node[n].log
    BY <1>1, <1>3, <2>1, AdoptTermFacts
  <2>3. QED
    BY <2>2 DEF State
<1>5. \A i \in DOMAIN t.log : Logged(t.log[i].command)
  <2>1. \A k \in DOMAIN m.entries : Logged(m.entries[k].command)
    BY <1>1 DEF Logged, InRequests
  <2>2. \A i \in DOMAIN s.log : Logged(s.log[i].command)
    BY <1>4, OwnLog
  <2>3. CASE accepted
    <3>1. m.prev <= Len(s.log)
      BY <1>3, <2>3 DEF HasPrev
    <3>2. QED
      BY <1>1, <1>3, <1>4, <2>1, <2>2, <2>3, <3>1, AppendItemsItems
  <2>4. CASE ~ accepted
    BY <1>3, <2>2, <2>4
  <2>5. QED
    BY <2>3, <2>4
<1>6. \A a \in {r} : a.type # "AppendEntriesRequest"
  BY <1>3 DEF AppendEntriesResponse
<1> HIDE DEF r
<1>7. \A c \in Command : Logged(c)' => Logged(c)
  <2>1. NewRequestsLogged
    BY <1>3, <1>6 DEF NewRequestsLogged
  <2>2. \A c \in Command : Logged(c)' => Logged(c) \/ \E i \in DOMAIN t.log : t.log[i].command = c
    BY <1>3, <2>1, LoggedStep
  <2>3. QED
    BY <1>5, <2>2
<1>8. CASE UNCHANGED <<incoming_commands, answer>>
  BY <1>1, <1>7, <1>8, ClientsSame DEF clientVars
<1>9. CASE Redirect(n, m.from)
  <2>1. PromiseInv'
    BY <1>1, <1>9, RedirectPromises DEF CommandInv
  <2>2. \A c \in Command, p \in Replica : Holds(p, 0, c)' => Holds(p, 0, c)
    BY <1>1, <1>9, HoldsFacts DEF Redirect, Holds, TypeOK
  <2>3. \A c \in Command : answer'[c] = answer[c] \/ \E p \in Replica : Holds(p, 0, c)
    BY <1>9, HoldsFacts DEF Redirect, Answered
  <2>4. LoggedInv'
    BY <1>7, <2>2, <2>3, LoggedStays DEF CommandInv
  <2>5. QED
    BY <2>1, <2>4 DEF CommandInv
<1>10. QED
  BY <1>3, <1>8, <1>9

\* The other handlers log nothing and answer nobody.
LEMMA RequestVoteRequestCommands ==
  ASSUME TypeOK, CommandInv, NEW n \in Replica, NEW m \in BagToSet(inbox),
         HandleRequestVoteRequest(n, m)
  PROVE  CommandInv'
<1>1. m.term \in Term /\ UNCHANGED clientVars
  BY RequestVoteRequestStep DEF RequestVoteRequest
<1>2. PICK s, t \in State, granted \in BOOLEAN, u \in Term :
          RequestVoteRequestEffect(n, m, s, t, granted, u)
  BY RequestVoteRequestStep
<1> DEFINE r == RequestVoteReply(m, u, granted, IF granted THEN m.term ELSE 0)
<1>3. s = AdoptTerm(node[n], m.term) /\ t.log = s.log /\ r \in RequestVoteResponse
      /\ Handled(n, t, {r})
  BY <1>2 DEF RequestVoteRequestEffect
<1>4. t.log = node[n].log
  BY <1>1, <1>3, AdoptTermFacts DEF TypeOK
<1>5. \A a \in {r} : a.type # "AppendEntriesRequest"
  BY <1>3 DEF RequestVoteResponse
<1> HIDE DEF r
<1>6. \A c \in Command : Logged(c)' => Logged(c)
  BY <1>3, <1>4, <1>5, HandledLogged
<1>7. QED
  BY <1>1, <1>6, ClientsSame

LEMMA AppendEntriesResponseCommands ==
  ASSUME TypeOK, CommandInv, NEW n \in Replica, NEW m \in BagToSet(inbox),
         HandleAppendEntriesResponse(n, m)
  PROVE  CommandInv'
<1>1. m.term \in Term /\ UNCHANGED clientVars
  BY AppendEntriesResponseStep DEF AppendEntriesResponse
<1>2. PICK s, t \in State : AppendEntriesResponseEffect(n, m, s, t)
  BY AppendEntriesResponseStep
<1>3. s = AdoptTerm(node[n], m.term) /\ t.log = s.log /\ Handled(n, t, {})
  BY <1>2 DEF AppendEntriesResponseEffect
<1>4. t.log = node[n].log
  BY <1>1, <1>3, AdoptTermFacts DEF TypeOK
<1>5. \A c \in Command : Logged(c)' => Logged(c)
  BY <1>3, <1>4, HandledLogged
<1>6. QED
  BY <1>1, <1>5, ClientsSame

LEMMA RequestVoteResponseCommands ==
  ASSUME TypeOK, CommandInv, NEW n \in Replica, NEW m \in BagToSet(inbox),
         HandleRequestVoteResponse(n, m)
  PROVE  CommandInv'
<1>1. m.term \in Term /\ UNCHANGED clientVars
  BY RequestVoteResponseStep DEF RequestVoteResponse
<1>2. PICK s, t \in State, A \in SUBSET AppendEntriesRequest :
          RequestVoteResponseEffect(n, m, s, t, A)
  BY RequestVoteResponseStep
<1>3. /\ s = AdoptTerm(node[n], m.term) /\ t.log = s.log /\ Handled(n, t, A)
      /\ A = {} \/ (t.role = "leader" /\ A = AppendEntriesToAll(n, t, Zero))
  BY <1>2 DEF RequestVoteResponseEffect
<1>4. t.log = node[n].log
  BY <1>1, <1>3, AdoptTermFacts DEF TypeOK
<1>5. \A a \in A : \A k \in DOMAIN a.entries : \E j \in DOMAIN t.log : a.entries[k] = t.log[j]
  <2>1. CASE A = {}
    BY <2>1
  <2>2. CASE t.role = "leader" /\ A = AppendEntriesToAll(n, t, Zero)
    BY <2>2, BoundTypes, SentItems
  <2>3. QED
    BY <1>3, <2>1, <2>2
<1>6. \A c \in Command : Logged(c)' => Logged(c)
  BY <1>3, <1>4, <1>5, HandledLogged
<1>7. QED
  BY <1>1, <1>6, ClientsSame

\* The start of a tick: what a leader commits is answered.
LEMMA BeginTickCommands ==
  ASSUME TypeOK, CommandInv, NEW n \in Replica, BeginTick(n)
  PROVE  CommandInv'
<1>1. InTransit' \subseteq InTransit /\ UNCHANGED incoming_commands
  BY BeginTickStep
<1>2. CASE UNCHANGED <<node, answer, items_to_response>>
  <2>1. \A c \in Command : Logged(c)' => Logged(c)
    BY <1>1, <1>2, LoggedSame
  <2>2. QED
    BY <1>1, <1>2, <2>1, ClientsSame DEF clientVars
<1>3. ASSUME Commit(n), NEW t \in State, node' = [node EXCEPT ![n] = t],
             t = [node[n] EXCEPT !.commitIndex = CommitTarget(node[n])]
      PROVE  CommandInv'
  <2>1. PromiseInv'
    BY <1>1, <1>3, CommitPromises DEF CommandInv
  <2>2. t.log = node[n].log
    BY <1>3 DEF TypeOK, State
  <2>3. \A c \in Command : Logged(c)' => Logged(c)
    <3>1. \A c \in Command : Logged(c)' => Logged(c) \/ \E i \in DOMAIN t.log : t.log[i].command = c
      <4>1. NewRequestsLogged
        BY <1>1 DEF NewRequestsLogged
      <4>2. QED
        BY <1>3, <4>1, LoggedStep
    <3>2. QED
      BY <2>2, <3>1, OwnLog
  <2>4. \A c \in Command, p \in Replica : Holds(p, 0, c)' => Holds(p, 0, c)
    BY <1>1, HoldsFacts, TypeStep, <1>3 DEF Holds, Commit, TypeOK
  <2>5. \A c \in Command : answer'[c] = answer[c] \/ answer'[c] = "persisted"
    BY <1>3 DEF Commit, Answered
  <2>6. LoggedInv'
    BY <2>3, <2>4, <2>5, LoggedStays DEF CommandInv
  <2>7. QED
    BY <2>1, <2>6 DEF CommandInv
<1>4. QED
  BY <1>2, <1>3, BeginTickStep

\* The end of a leader's tick: the queue goes to the log.
LEMMA EndLeaderTickCommands ==
  ASSUME TypeOK, CommandInv, NEW n \in Replica, EndLeaderTick(n)
  PROVE  CommandInv'
<1>1. UNCHANGED inbox
  BY EndLeaderTickStep
<1>2. CASE UNCHANGED <<node, messages, clientVars>>
  BY <1>1, <1>2, LoggedSame, ClientsSame DEF InTransit
<1>3. ASSUME AddNewCommandsToLog(n), node[n].role = "leader",
             NEW t \in State, NEW read \in [Replica -> Term], NEW tail \in Seq(Item),
             tail = NewItems(node[n], incoming_commands[n]),
             t = [node[n] EXCEPT !.log = node[n].log \o tail],
             node' = [node EXCEPT ![n] = t],
             InTransit' \subseteq InTransit \cup AppendEntriesToAll(n, node[n], read)
      PROVE  CommandInv'
  <2> DEFINE new == incoming_commands[n]
  <2>1. PromiseInv'
    BY <1>3, AddNewCommandsPromises DEF CommandInv
  <2>2. node[n] \in State /\ node[n].log \in Seq(Item) /\ new \in Seq(Command)
    BY DEF TypeOK, State
  <2>3. t.log = node[n].log \o tail
    BY <1>3, <2>2, ExceptLog
  <2>4. \A k \in DOMAIN tail : tail[k].command \in Commands(new)
    BY <1>3, <2>2 DEF NewItems, Commands
  <2>5. \A i \in DOMAIN t.log : Logged(t.log[i].command) \/ Holds(n, 0, t.log[i].command)
    <3> SUFFICES ASSUME NEW i \in DOMAIN t.log
                 PROVE  Logged(t.log[i].command) \/ Holds(n, 0, t.log[i].command)
      OBVIOUS
    <3>1. i \in 1 .. Len(node[n].log) + Len(tail)
      BY <2>2, <2>3
    <3>2. CASE i <= Len(node[n].log)
      BY <2>2, <2>3, <3>1, <3>2, ExtensionFacts, OwnLog
    <3>3. CASE i > Len(node[n].log)
      BY <2>2, <2>3, <2>4, <3>1, <3>3, ExtensionFacts, HoldsFacts
    <3>4. QED
      BY <2>2, <3>1, <3>2, <3>3
  <2>6. NewRequestsLogged
    <3>1. \A m \in AppendEntriesToAll(n, node[n], read) :
              \A k \in DOMAIN m.entries : Logged(m.entries[k].command)
      <4>1. \A m \in AppendEntriesToAll(n, node[n], read) : \A k \in DOMAIN m.entries :
                /\ m.prev + k \in DOMAIN node[n].log
                /\ node[n].log[m.prev + k] = m.entries[k]
        BY <1>3, <2>2, SentItems
      <4>2. QED
        BY <4>1, OwnLog
    <3>2. QED
      BY <1>3, <3>1 DEF NewRequestsLogged
  <2>7. \A c \in Command : Logged(c)' => Logged(c) \/ Holds(n, 0, c)
    BY <1>3, <2>5, <2>6, LoggedStep, ZenonT(30)
  <2>8. LoggedInv'
    <3> SUFFICES ASSUME NEW c \in Command, Logged(c)'
                 PROVE  /\ answer'[c] \notin Replica \cup {"new"}
                        /\ \A p \in Replica : ~ Holds(p, 0, c)'
      BY DEF LoggedInv
    <3>1. answer'[c] = answer[c] \/ answer'[c] = "broken"
      BY <1>3 DEF AddNewCommandsToLog, Answered
    <3>2. \A p \in Replica : Holds(p, 0, c)' => p # n /\ Holds(p, 0, c)
      <4>1. /\ incoming_commands'[n] = << >> /\ 0 \notin DOMAIN items_to_response'[n]
            /\ \A p \in Replica \ {n} : /\ incoming_commands'[p] = incoming_commands[p]
                                        /\ items_to_response'[p] = items_to_response[p]
        BY <1>3, <2>2, LogTypes, HoldsFacts DEF AddNewCommandsToLog, TypeOK
      <4>2. QED
        BY <4>1 DEF Holds
    <3>3. CASE Logged(c)
      BY <3>1, <3>2, <3>3, AnswerAssumption DEF LoggedInv, CommandInv
    <3>4. CASE Holds(n, 0, c)
      <4>1. answer[c] = "waiting" /\ \A p \in Replica : Holds(p, 0, c) => p = n
        BY <3>4 DEF CommandInv, PromiseInv, WaitingInv, PlaceInv
      <4>2. QED
        BY <3>1, <3>2, <4>1, AnswerAssumption
    <3>5. QED
      BY <2>7, <3>3, <3>4
  <2>9. QED
    BY <2>1, <2>8 DEF CommandInv
<1>4. QED
  BY <1>2, <1>3, EndLeaderTickStep

\* The end of a tick with the timer expired sends requests for votes only.
LEMMA EndExpiredTickCommands ==
  ASSUME TypeOK, CommandInv, NEW n \in Replica, EndExpiredTick(n)
  PROVE  CommandInv'
<1>1. PICK t \in State :
          /\ node' = [node EXCEPT ![n] = t]
          /\ t.log = node[n].log
          /\ RequestVoteToAll(n, t) \subseteq RequestVoteRequest
          /\ InTransit' \subseteq InTransit \cup RequestVoteToAll(n, t)
  BY EndExpiredTickStep
<1>2. UNCHANGED clientVars
  BY EndExpiredTickStep
<1>3. NewRequestsLogged
  BY <1>1 DEF RequestVoteRequest, NewRequestsLogged
<1>4. \A c \in Command : Logged(c)' => Logged(c) \/ \E i \in DOMAIN t.log : t.log[i].command = c
  BY <1>1, <1>3, LoggedStep
<1>5. \A c \in Command : Logged(c)' => Logged(c)
  BY <1>1, <1>4, OwnLog
<1>6. QED
  BY <1>2, <1>5, ClientsSame

\* The calls of clients log nothing.
LEMMA CallCommands ==
  ASSUME TypeOK, CommandInv, NEW n \in Replica, Call(n)
  PROVE  CommandInv'
<1>1. UNCHANGED <<node, inbox, messages>>
  BY DEF Call, AddCommand, GetPersistentCommands, replicaVars
<1>2. \A c \in Command : Logged(c)' => Logged(c)
  BY <1>1, LoggedSame DEF InTransit
<1>3. ASSUME NEW c \in Command, AddCommand(n, c)
      PROVE  CommandInv'
  <2>1. PromiseInv'
    BY <1>3, AddCommandPromises DEF CommandInv
  <2>2. \A d \in Command : answer'[d] = answer[d] \/ answer'[d] = "waiting"
    BY <1>3 DEF AddCommand, TypeOK
  <2>3. \A d \in Command, p \in Replica : Holds(p, 0, d)' => Holds(p, 0, d) \/ answer[d] = "new"
    <3> SUFFICES ASSUME NEW d \in Command, NEW p \in Replica, Holds(p, 0, d)', ~ Holds(p, 0, d)
                 PROVE  answer[d] = "new"
      OBVIOUS
    <3>1. /\ incoming_commands' = [incoming_commands EXCEPT ![n] = Append(incoming_commands[n], c)]
          /\ UNCHANGED items_to_response
          /\ answer[c] = "new"
      BY <1>3 DEF AddCommand
    <3>2. incoming_commands \in [Replica -> Seq(Command)]
      BY DEF TypeOK
    <3>3. p = n
      BY <3>1, <3>2 DEF Holds
    <3>4. PICK k \in DOMAIN Append(incoming_commands[n], c) : Append(incoming_commands[n], c)[k] = d
      BY <3>1, <3>2, <3>3, HoldsFacts DEF Holds
    <3>5. QED
      BY <3>1, <3>2, <3>3, <3>4 DEF Holds
  <2>4. LoggedInv'
    BY <1>2, <2>2, <2>3, LoggedStays DEF CommandInv
  <2>5. QED
    BY <2>1, <2>4 DEF CommandInv
<1>4. ASSUME NEW r \in Reader, NEW q \in Query, GetPersistentCommands(n, r, q)
      PROVE  CommandInv'
  BY <1>2, <1>4, ClientsSame DEF GetPersistentCommands
<1>5. QED
  BY <1>3, <1>4 DEF Call
-----------------------------------------------------------------------------
(***************************************************************************)
(* The invariant, and what it implies.                                     *)
(***************************************************************************)
LEMMA CommandInit == Init => CommandInv
<1> SUFFICES ASSUME Init PROVE CommandInv
  OBVIOUS
<1>1. \A n \in Replica : /\ node[n].log = << >>
                         /\ incoming_commands[n] = << >> /\ items_to_response[n] = << >>
  BY DEF Init, NewNode
<1>2. InTransit = {}
  BY EmptyBags DEF Init, InTransit
<1>3. \A n \in Replica, i \in Nat, c \in Command : ~ Holds(n, i, c)
  BY <1>1 DEF Holds
<1>4. \A c \in Command : ~ Logged(c) /\ answer[c] = "new"
  BY <1>1, <1>2 DEF Logged, InLogs, InRequests, Init
<1>5. QueueInv
  BY <1>1 DEF QueueInv
<1>6. WaitingInv /\ PlaceInv
  BY <1>3, <1>4 DEF WaitingInv, PlaceInv
<1>7. LoggedInv
  BY <1>4 DEF LoggedInv
<1>8. QED
  BY <1>5, <1>6, <1>7 DEF CommandInv, PromiseInv

LEMMA CommandStep == TypeOK /\ CommandInv /\ [Next]_vars => CommandInv'
<1> SUFFICES ASSUME TypeOK, CommandInv, [Next]_vars PROVE CommandInv'
  OBVIOUS
<1>1. CASE UNCHANGED vars
  BY <1>1, LoggedSame, ClientsSame DEF vars, clientVars, InTransit
<1>2. ASSUME NEW n \in Replica, Call(n) \/ BeginTick(n) \/ Receive(n) \/ EndTick(n)
      PROVE  CommandInv'
  <2>1. CASE Call(n)
    BY <2>1, CallCommands
  <2>2. CASE BeginTick(n)
    BY <2>2, BeginTickCommands
  <2>3. CASE Receive(n)
    BY <2>3, AppendEntriesRequestCommands, RequestVoteRequestCommands,
       AppendEntriesResponseCommands, RequestVoteResponseCommands DEF Receive
  <2>4. CASE EndTick(n)
    <3>1. CASE EndLeaderTick(n)
      BY <3>1, EndLeaderTickCommands
    <3>2. CASE EndQuietTick(n)
      BY <3>2, LoggedSame, ClientsSame DEF EndQuietTick, InTransit
    <3>3. CASE EndExpiredTick(n)
      BY <3>3, EndExpiredTickCommands
    <3>4. QED
      BY <2>4, <3>1, <3>2, <3>3 DEF EndTick
  <2>5. QED
    BY <1>2, <2>1, <2>2, <2>3, <2>4
<1>3. QED
  BY <1>1, <1>2, Zenon DEF Next

LEMMA CommandInvariance == Spec => [](TypeOK /\ CommandInv)
<1>1. Init => TypeOK /\ CommandInv
  BY TypeInit, CommandInit
<1>2. TypeOK /\ CommandInv /\ [Next]_vars => TypeOK' /\ CommandInv'
  BY TypeStep, CommandStep
<1>3. QED
  BY <1>1, <1>2, PTL DEF Spec

\* The promises of a command, counted.
LEMMA PromisesCounted == TypeOK /\ CommandInv => OnePromise
<1> SUFFICES ASSUME TypeOK, PromiseInv, NEW c \in Command
             PROVE  Cardinality(Promises(c)) = IF answer[c] = "waiting" THEN 1 ELSE 0
  BY DEF OnePromise, CommandInv
<1>1. \A x : x \in Promises(c) <=> \E n \in Replica, i \in Nat : x = <<n, i>> /\ Holds(n, i, c)
  <2> SUFFICES ASSUME NEW x
               PROVE  x \in Promises(c) <=> \E n \in Replica, i \in Nat : x = <<n, i>> /\ Holds(n, i, c)
    OBVIOUS
  <2>1. x \in Promises(c) <=>
            \/ \E n \in Replica : x = <<n, 0>> /\ c \in Commands(incoming_commands[n])
            \/ \E n \in Replica : \E i \in DOMAIN items_to_response[n] :
                   x = <<n, i>> /\ items_to_response[n][i] = c
    BY DEF Promises
  <2>2. ASSUME NEW n \in Replica
        PROVE  (\E i \in Nat : x = <<n, i>> /\ Holds(n, i, c)) <=>
                   \/ x = <<n, 0>> /\ c \in Commands(incoming_commands[n])
                   \/ \E i \in DOMAIN items_to_response[n] :
                          x = <<n, i>> /\ items_to_response[n][i] = c
    <3>1. /\ DOMAIN items_to_response[n] \subseteq Nat \ {0}
          /\ Holds(n, 0, c) <=> c \in Commands(incoming_commands[n])
          /\ \A i : i # 0 => (Holds(n, i, c) <=> /\ i \in DOMAIN items_to_response[n]
                                                 /\ items_to_response[n][i] = c)
      BY HoldsFacts
    <3>2. QED
      BY <3>1, Zenon
  <2>3. QED
    BY <2>1, <2>2, Zenon
<1>2. CASE answer[c] = "waiting"
  <2>1. PICK n \in Replica, i \in Nat : Holds(n, i, c)
    BY <1>2 DEF PromiseInv, WaitingInv
  <2>2. Promises(c) = {<<n, i>>}
    BY <1>1, <2>1 DEF PromiseInv, PlaceInv
  <2>3. QED
    BY <1>2, <2>2, FS_Singleton
<1>3. CASE answer[c] # "waiting"
  <2>1. Promises(c) = {}
    BY <1>1, <1>3 DEF PromiseInv, WaitingInv
  <2>2. QED
    BY <1>3, <2>1, FS_EmptySet
<1>4. QED
  BY <1>2, <1>3

\* Every waiting client's promise is held once and nowhere else, and nobody holds
\* the promise of a future that is ready: whoever leads, whatever is lost.
THEOREM OnePromiseHolds == Spec => []OnePromise
BY PromisesCounted, CommandInvariance, PTL

\* A command in a log or a request is not one whose client was sent away.
LEMMA RedirectedApart == CommandInv => RedirectedNotLogged
BY DEF CommandInv, LoggedInv, Logged, InLogs, InRequests, RedirectedNotLogged

\* A client that was sent to another replica may submit its command there: it is
\* in no log and in no request, whoever leads.
THEOREM RedirectedNotLoggedHolds == Spec => []RedirectedNotLogged
BY RedirectedApart, CommandInvariance, PTL
=============================================================================
