--------------------------- MODULE ConsensusNode ---------------------------
(***************************************************************************)
(* The replicas of hw2/src/consensus/node.cpp: class Node, one per element *)
(* of Replica, with the channels between them and the clients that call    *)
(* AddCommand and GetPersistentCommands.                                   *)
(*                                                                         *)
(* A tick (Node::Tick) is a sequence of steps of one replica: BeginTick    *)
(* serves the reads, lets a leader commit and swaps the four queues of     *)
(* incoming messages into inbox; one step per message handles it; EndTick  *)
(* sends heartbeats and appends commands (leader) or looks at the election *)
(* timer (the others).  Between two queue swaps a tick touches its own     *)
(* replica only, and what it sends can be delayed by the channels anyway,  *)
(* so ticks of different replicas are taken one after the other.           *)
(***************************************************************************)
EXTENDS ConsensusLog, FiniteSets, Bags

CONSTANTS
    Replica,      \* the node ids: every replica has a channel to every one
    Command,      \* the commands clients submit, each at most once
    Reader,       \* one-shot calls of GetPersistentCommands
    Query,        \* their arguments, records [from, count]
    None,         \* std::nullopt, and "no replica is in a tick"
    Garbage,      \* what a read outside the log returns
    Huge,         \* a wrapped-around uint64_t: any of 2^64 - 1, 2^64 - 2, ...
    MaxTerm,      \* bound: no replica stands for a term above it
    Standing,     \* term -> the replicas whose timer may expire into it
    Contact,      \* command -> the replicas its client may submit it to
    Linked,       \* the pairs <<from, to>> of different replicas whose messages arrive
    Capacity,     \* bound: messages in flight from others to one replica
    MaxCopies,    \* bound: identical copies of a message in flight
    MaxBatch,     \* bound: messages of others handled in one tick
    Prompt        \* TRUE: all that is in flight is delivered at each tick

ASSUME BoundsAssumption ==
    /\ MaxTerm \in Nat
    /\ Standing \in [1 .. MaxTerm -> SUBSET Replica]
    /\ Contact \in [Command -> SUBSET Replica]
    /\ Linked \subseteq Replica \X Replica
    /\ Capacity \in Nat
    /\ MaxCopies \in Nat \ {0}
    /\ MaxBatch \in Nat
    /\ Prompt \in BOOLEAN

ASSUME ReplicaAssumption == IsFiniteSet(Replica) /\ Replica # {} /\ None \notin Replica

\* What a caller is told of its command is not a node id by accident.
ASSUME AnswerAssumption == Replica \cap {"new", "waiting", "persisted", "broken"} = {}

ASSUME CommandAssumption == IsFiniteSet(Command) /\ Garbage \notin Command

ASSUME HugeAssumption == Huge \in Nat /\ Huge > Cardinality(Command) + 1

ASSUME QueryAssumption == Query \subseteq [from : Nat, count : Nat]

Term == 0 .. MaxTerm

Item == [command : Command, term : Term]

VARIABLES
    node,               \* replica -> State, CandidateState and LeaderState
    tick,               \* the tick in progress, if any
    inbox,              \* the bag of messages it has taken and not handled yet
    messages,           \* the bag of messages in flight
    incoming_commands,  \* replica -> commands accepted and not in its log yet
    items_to_response,  \* replica -> log index -> the command to answer for it
    answer,             \* command -> what its caller knows of it
    query,              \* reader -> the read it asked for
    reply               \* reader -> the commands it was given

replicaVars == <<node, tick, inbox, messages>>
clientVars == <<incoming_commands, items_to_response, answer>>
readVars == <<query, reply>>
vars == <<node, tick, inbox, messages, incoming_commands, items_to_response,
          answer, query, reply>>
-----------------------------------------------------------------------------
(***************************************************************************)
(* Messages (message.h).  leader_id and candidate_id are the sender, which *)
(* AddMessage records as well.                                             *)
(***************************************************************************)
AppendEntriesRequest ==
    [type : {"AppendEntriesRequest"}, from : Replica, to : Replica, term : Term,
     prev : Nat, prevTerm : Term, entries : Seq(Item), commit : Nat]

RequestVoteRequest ==
    [type : {"RequestVoteRequest"}, from : Replica, to : Replica, term : Term,
     lastIndex : Nat, lastTerm : Term]

AppendEntriesResponse ==
    [type : {"AppendEntriesResponse"}, from : Replica, to : Replica, term : Term,
     success : BOOLEAN, matched : Nat]

RequestVoteResponse ==
    [type : {"RequestVoteResponse"}, from : Replica, to : Replica, term : Term,
     granted : BOOLEAN, candidateTerm : Term]

Message == AppendEntriesRequest \cup RequestVoteRequest
             \cup AppendEntriesResponse \cup RequestVoteResponse

\* HandleIncomingMessages goes through its four queues in this order.
Rank(m) == CASE m.type = "AppendEntriesRequest"  -> 1
             [] m.type = "RequestVoteRequest"    -> 2
             [] m.type = "AppendEntriesResponse" -> 3
             [] m.type = "RequestVoteResponse"   -> 4

\* The messages of other replicas on their way to n.
Foreign(net, n) == {m \in BagToSet(net) : m.to = n /\ m.from # n}

\* IMessageSender::Send for every message of S.  A replica's channel to itself
\* is its own queue and loses nothing; any other message is lost when the two are
\* not linked, or when Capacity of them are already on their way to its receiver.
Send(net, S) ==
    LET sent == {m \in S : \/ m.from = m.to
                          \/ /\ <<m.from, m.to>> \in Linked
                             /\ Cardinality(Foreign(net, m.to)) < Capacity}
        copies(m) == (IF BagIn(m, net) THEN net[m] ELSE 0) + (IF m \in sent THEN 1 ELSE 0)
    IN  [m \in BagToSet(net) \cup sent |->
             IF copies(m) <= MaxCopies THEN copies(m) ELSE MaxCopies]
-----------------------------------------------------------------------------
(***************************************************************************)
(* The parts of a replica.  votes exists in CandidateState only, nextIndex *)
(* and matchIndex in LeaderState only; they are reset to a fixed value     *)
(* when the optional that holds them is.                                   *)
(***************************************************************************)
Zero == [q \in Replica |-> 0]

\* A majority: 2 * |S| >= total_nodes_ + 1.
IsQuorum(S) == 2 * Cardinality(S) >= Cardinality(Replica) + 1

\* Node::Node.
NewNode == [term |-> 0, votedFor |-> None, log |-> << >>, commitIndex |-> 0,
            role |-> "follower", votes |-> {}, nextIndex |-> Zero, matchIndex |-> Zero]

BecomeFollower(s) ==
    [s EXCEPT !.role = "follower", !.votedFor = None, !.votes = {},
              !.nextIndex = Zero, !.matchIndex = Zero]

\* Mutant of AdoptTerm: the replica's own term turns it into a follower too.
AdoptOwnTerm(s, t) == IF s.term <= t THEN BecomeFollower([s EXCEPT !.term = t]) ELSE s

\* The first lines of all four handlers: a higher term turns the replica into
\* a follower of it.
AdoptTerm(s, t) == IF s.term < t THEN BecomeFollower([s EXCEPT !.term = t]) ELSE s

BecomeCandidate(s, n) ==
    [s EXCEPT !.term = @ + 1, !.votedFor = n, !.role = "candidate", !.votes = {},
              !.nextIndex = Zero, !.matchIndex = Zero]

BecomeLeader(s) ==
    [s EXCEPT !.votedFor = None, !.role = "leader", !.votes = {},
              !.nextIndex = [q \in Replica |-> LastLogIndex(s.log) + 1],
              !.matchIndex = Zero]

\* --next_index on a uint64_t: zero wraps around, and what has wrapped around
\* stays far beyond every log.
Decrement(i) == IF i \in {0, Huge} THEN Huge ELSE i - 1

\* Mutants of CommitTarget: all that is in the leader's log is committed; only
\* what a majority has an item after.
CommitAll(s) == LastLogIndex(s.log)
CommitLate(s) ==
    s.commitIndex + Cardinality({i \in s.commitIndex + 1 .. LastLogIndex(s.log) :
                                    IsQuorum({q \in Replica : s.matchIndex[q] > i})})

\* CommitIfPossible: the last index a majority matches, its term whatever.  The
\* indices a majority matches follow one another, as a replica that matches an
\* index matches those before it: their number leads to the last one.
CommitTarget(s) ==
    LET matched == {i \in s.commitIndex + 1 .. LastLogIndex(s.log) :
                        IsQuorum({q \in Replica : s.matchIndex[q] >= i})}
    IN  s.commitIndex + Cardinality(matched)

\* Mutants of AcceptEntries: an old request takes the commit index back; all
\* that is received is committed.
AcceptAnyCommit(s, m) ==
    [s EXCEPT !.log = AppendItems(s.log, m.prev, m.entries),
              !.commitIndex = IF m.commit <= m.prev + Len(m.entries) THEN m.commit
                              ELSE m.prev + Len(m.entries)]
CommitReceived(s, m) ==
    [s EXCEPT !.log = AppendItems(s.log, m.prev, m.entries),
              !.commitIndex = IF @ <= m.prev + Len(m.entries) THEN m.prev + Len(m.entries) ELSE @]

\* The items a replica accepts, and the commit index it takes over.
AcceptEntries(s, m) ==
    [s EXCEPT !.log = AppendItems(s.log, m.prev, m.entries),
              !.commitIndex =
                  IF m.commit <= s.commitIndex THEN @
                  ELSE IF m.commit <= m.prev + Len(m.entries) THEN m.commit
                  ELSE m.prev + Len(m.entries)]
-----------------------------------------------------------------------------
(***************************************************************************)
(* What a replica sends.                                                   *)
(***************************************************************************)
\* prev_log_index of the next request to q; when it lies outside the log,
\* log[prev_log_index] is read past the end of the vector.
PrevIndex(s, q) == Decrement(s.nextIndex[q])
OutsideLog(s, q) == PrevIndex(s, q) = Huge \/ PrevIndex(s, q) > LastLogIndex(s.log)

\* The terms such reads may return, per receiver.
TermsRead(s) == IF \E q \in Replica : OutsideLog(s, q) THEN [Replica -> Term] ELSE {Zero}

\* SendAppendEntriesToAll of leader n in state s, to itself included; the
\* terms read outside the log are those of read.  A request whose prev lies
\* outside the log has no items, or has wrapped around and is rejected.
AppendEntriesToAll(n, s, read) ==
    {[type |-> "AppendEntriesRequest", from |-> n, to |-> q, term |-> s.term,
      prev |-> PrevIndex(s, q),
      prevTerm |-> IF OutsideLog(s, q) THEN read[q] ELSE TermAt(s.log, PrevIndex(s, q)),
      entries |-> IF OutsideLog(s, q) THEN << >> ELSE ItemsFrom(s.log, s.nextIndex[q]),
      commit |-> s.commitIndex] : q \in Replica}

\* SendRequestVoteToAll.
RequestVoteToAll(n, s) ==
    {[type |-> "RequestVoteRequest", from |-> n, to |-> q, term |-> s.term,
      lastIndex |-> LastLogIndex(s.log), lastTerm |-> LastLogTerm(s.log)] : q \in Replica}

\* Mutants of AppendEntriesReply: the answered index is one too low, or too high.
ReplyBelow(m, t, success, matched) ==
    [type |-> "AppendEntriesResponse", from |-> m.to, to |-> m.from, term |-> t,
     success |-> success, matched |-> matched - 1]
ReplyAbove(m, t, success, matched) ==
    [type |-> "AppendEntriesResponse", from |-> m.to, to |-> m.from, term |-> t,
     success |-> success, matched |-> matched + 1]

\* AppendEntriesSuccessfull and AppendEntriesUnsuccessfull, answering m.
AppendEntriesReply(m, t, success, matched) ==
    [type |-> "AppendEntriesResponse", from |-> m.to, to |-> m.from, term |-> t,
     success |-> success, matched |-> matched]

\* RequestVoteSuccessfull, RequestVoteUnsuccessfull and the default
\* RequestVoteResponse(), answering m.
RequestVoteReply(m, t, granted, candidateTerm) ==
    [type |-> "RequestVoteResponse", from |-> m.to, to |-> m.from, term |-> t,
     granted |-> granted, candidateTerm |-> candidateTerm]
-----------------------------------------------------------------------------
(***************************************************************************)
(* The clients' side: futures and promises.  A command is "new" until      *)
(* AddCommand, then "waiting" for its future; the future becomes           *)
(* "persisted" (AddCommandResult()), a replica (AddCommandResult(leader)), *)
(* or "broken" when its promise is destroyed unanswered.                   *)
(***************************************************************************)
Answer == {"new", "waiting", "persisted", "broken"} \cup Replica

\* The commands of S get the answer a.
Answered(S, a) == [c \in Command |-> IF c \in S THEN a ELSE answer[c]]

\* Mutant of Owed: every promise is answered, whatever the index.
OwedAnywhere(n, I) == {items_to_response[n][i] : i \in DOMAIN items_to_response[n]}

\* The commands n owes an answer for at the indices I.
Owed(n, I) == {items_to_response[n][i] : i \in DOMAIN items_to_response[n] \cap I}

Commands(seq) == {seq[i] : i \in DOMAIN seq}

\* GetPersistentCommands, the part of the call before its future is ready.
Asking(r) == query[r].node # None /\ reply[r] = None

\* Mutant of PersistentCommands: the commit index does not end the read.
UncommittedCommands(s, q) ==
    LET from == IF q.from = 0 THEN 1 ELSE q.from
    IN  [k \in 1 .. q.count |->
            IF from + k - 1 <= LastLogIndex(s.log) THEN s.log[from + k - 1].command
                                                   ELSE Garbage]

\* HandleGetPersistentCommandRequests: the commands from a query's index (1 for
\* 0), at most count of them, up to the commit index.
PersistentCommands(s, q) ==
    LET from == IF q.from = 0 THEN 1 ELSE q.from
        upto == IF from + q.count <= s.commitIndex + 1 THEN from + q.count ELSE s.commitIndex + 1
    IN  [k \in 1 .. (IF from < upto THEN upto - from ELSE 0) |->
            IF from + k - 1 <= LastLogIndex(s.log) THEN s.log[from + k - 1].command
                                                   ELSE Garbage]
-----------------------------------------------------------------------------
\* A reader that has asked nobody.
NotAsked == [node |-> None, from |-> 0, count |-> 0]

\* No replica is in a tick.
Idle == [node |-> None, role |-> "follower", timerReset |-> FALSE]

Init ==
    /\ node = [n \in Replica |-> NewNode]
    /\ tick = Idle
    /\ inbox = EmptyBag
    /\ messages = EmptyBag
    /\ incoming_commands = [n \in Replica |-> << >>]
    /\ items_to_response = [n \in Replica |-> << >>]
    /\ answer = [c \in Command |-> "new"]
    /\ query = [r \in Reader |-> NotAsked]
    /\ reply = [r \in Reader |-> None]

\* AddCommand, called by a client thread at any moment, in the middle of a tick
\* of n too.
AddCommand(n, c) ==
    /\ answer[c] = "new" /\ n \in Contact[c]
    /\ answer' = [answer EXCEPT ![c] = "waiting"]
    /\ incoming_commands' = [incoming_commands EXCEPT ![n] = Append(@, c)]
    /\ UNCHANGED <<replicaVars, items_to_response, readVars>>

\* GetPersistentCommands, called by a client thread at any moment.
GetPersistentCommands(n, r, q) ==
    /\ query[r].node = None
    /\ query' = [query EXCEPT ![r] = [node |-> n, from |-> q.from, count |-> q.count]]
    /\ UNCHANGED <<replicaVars, clientVars, reply>>

\* All copies in flight of the messages of S.
Copies(S) == [m \in S |-> messages[m]]

\* What others' messages may be in n's queues at a tick.
Batches(n) ==
    LET foreign == Foreign(messages, n)
    IN  IF Prompt THEN {Copies(foreign)}
        ELSE {SetToBag(S) : S \in {T \in SUBSET foreign : Cardinality(T) <= MaxBatch}}

\* Its own messages are always there.
Own(n) == Copies({m \in BagToSet(messages) : m.to = n /\ m.from = n})

\* The reads that wait for n are answered from its log as it stands.
ServeReads(n) ==
    reply' = [r \in Reader |-> IF Asking(r) /\ query[r].node = n
                               THEN PersistentCommands(node[n], query[r]) ELSE reply[r]]

\* CommitIfPossible: commit what a majority has matched and answer for it.
Commit(n) ==
    LET s == node[n]
        upto == CommitTarget(s)
        done == s.commitIndex + 1 .. upto
    IN  /\ node' = [node EXCEPT ![n].commitIndex = upto]
        /\ answer' = Answered(Owed(n, done), "persisted")
        /\ items_to_response' =
               [items_to_response EXCEPT ![n] = [i \in DOMAIN @ \ done |-> @[i]]]

\* Tick: the reads, then the role decides; a leader starts with
\* CommitIfPossible.  HandleIncomingMessages swaps the queues.
BeginTick(n) ==
    /\ tick = Idle
    /\ ServeReads(n)
    /\ tick' = [node |-> n, role |-> node[n].role, timerReset |-> FALSE]
    /\ IF node[n].role = "leader" THEN Commit(n)
       ELSE UNCHANGED <<node, answer, items_to_response>>
    /\ \E batch \in Batches(n) : inbox' = batch (+) Own(n)
    /\ messages' = messages (-) inbox'
    /\ UNCHANGED <<incoming_commands, query>>

\* The next message of the tick: any one of the first queue that is not empty.
Takes(n, m) ==
    /\ tick.node = n
    /\ \A x \in BagToSet(inbox) : Rank(m) <= Rank(x)
    /\ inbox' = inbox (-) SetToBag({m})

\* Replica n goes on in state s, its timer reset or not, having sent S.
Becomes(n, s, reset, S) ==
    /\ node' = [node EXCEPT ![n] = s]
    /\ tick' = [tick EXCEPT !.timerReset = @ \/ reset]
    /\ messages' = Send(messages, S)

\* Mutant of Redirect: the commands stay in the queue.
RedirectAndKeep(n, leader) ==
    /\ answer' = Answered(Commands(incoming_commands[n]), leader)
    /\ UNCHANGED incoming_commands

\* The callers of all commands n has accepted and not logged are sent to leader.
Redirect(n, leader) ==
    /\ answer' = Answered(Commands(incoming_commands[n]), leader)
    /\ incoming_commands' = [incoming_commands EXCEPT ![n] = << >>]

\* HandleAppendEntriesRequest and the reply.  The timer is reset even by a
\* stale request; a replica that does not lead passes its incoming commands on
\* to the sender, before it looks at the log.
HandleAppendEntriesRequest(n, m) ==
    /\ m.type = "AppendEntriesRequest"
    /\ Takes(n, m)
    /\ LET s == AdoptTerm(node[n], m.term)
           stale == m.term < s.term
           accepted == ~ stale /\ HasPrev(s.log, m.prev, m.prevTerm)
           t == IF accepted THEN AcceptEntries(s, m) ELSE s
           sent == m.prev + Len(m.entries)
           matched == IF LastLogIndex(t.log) <= sent THEN LastLogIndex(t.log) ELSE sent
       IN  /\ Becomes(n, t, TRUE, {AppendEntriesReply(m, t.term, accepted,
                                                      IF accepted THEN matched ELSE 0)})
           /\ IF stale \/ s.role = "leader" THEN UNCHANGED <<incoming_commands, answer>>
              ELSE Redirect(n, m.from)
    /\ UNCHANGED <<items_to_response, readVars>>

\* Mutant of MayVote: an earlier vote does not matter.
MayVoteAgain(s, m) == TRUE

\* votedFor is nobody or the candidate already.
MayVote(s, m) == s.votedFor \in {None, m.from}

\* HandleRequestVoteRequest and the reply.  A stale request is answered by a
\* default RequestVoteResponse, of term 0.
HandleRequestVoteRequest(n, m) ==
    /\ m.type = "RequestVoteRequest"
    /\ Takes(n, m)
    /\ LET s == AdoptTerm(node[n], m.term)
           stale == m.term < s.term
           granted == ~ stale /\ MayVote(s, m) /\ UpToDate(s.log, m.lastTerm, m.lastIndex)
           t == IF granted THEN [s EXCEPT !.votedFor = m.from] ELSE s
       IN  Becomes(n, t, node[n].term < m.term,
                   {RequestVoteReply(m, IF stale THEN 0 ELSE t.term, granted,
                                     IF granted THEN m.term ELSE 0)})
    /\ UNCHANGED <<clientVars, readVars>>

\* HandleAppendEntriesResponse.
HandleAppendEntriesResponse(n, m) ==
    /\ m.type = "AppendEntriesResponse"
    /\ Takes(n, m)
    /\ LET s == AdoptTerm(node[n], m.term)
           match == IF m.matched <= s.matchIndex[m.from] THEN s.matchIndex[m.from]
                                                         ELSE m.matched
           next == IF match + 1 <= s.nextIndex[m.from] THEN s.nextIndex[m.from]
                                                       ELSE match + 1
           t == IF s.role # "leader" THEN s
                ELSE IF m.success
                THEN [s EXCEPT !.matchIndex[m.from] = match, !.nextIndex[m.from] = next]
                ELSE [s EXCEPT !.nextIndex[m.from] = Decrement(@)]
       IN  Becomes(n, t, node[n].term < m.term, {})
    /\ UNCHANGED <<clientVars, readVars>>

\* Mutant of Counts: the vote may be for an older term.
CountsAnyTerm(s, m) == s.role = "candidate" /\ m.granted

\* A vote counts if the receiver is still a candidate in the term it was for.
Counts(s, m) == s.role = "candidate" /\ m.granted /\ m.candidateTerm = s.term

\* HandleRequestVoteResponse; the vote that makes a majority makes the leader,
\* which sends its first heartbeats at once.
HandleRequestVoteResponse(n, m) ==
    /\ m.type = "RequestVoteResponse"
    /\ Takes(n, m)
    /\ LET s == AdoptTerm(node[n], m.term)
           t == [s EXCEPT !.votes = @ \cup {m.from}]
           l == BecomeLeader(t)
           reset == node[n].term < m.term
       IN  IF ~ Counts(s, m) THEN Becomes(n, s, reset, {})
           ELSE IF IsQuorum(t.votes) THEN Becomes(n, l, reset, AppendEntriesToAll(n, l, Zero))
           ELSE Becomes(n, t, reset, {})
    /\ UNCHANGED <<clientVars, readVars>>

\* Mutant of NewItems: the items get the term of the item before them.
ItemsOfLastTerm(s, new) ==
    [i \in 1 .. Len(new) |-> [command |-> new[i], term |-> LastLogTerm(s.log)]]

\* The items for the commands new, in the leader's term.
NewItems(s, new) == [i \in 1 .. Len(new) |-> [command |-> new[i], term |-> s.term]]

\* AddNewCommandsToLog: the accepted commands go to the end of the log, and
\* their promises are kept under their indices, over any that are there.
AddNewCommandsToLog(n) ==
    LET s == node[n]
        new == incoming_commands[n]
        base == LastLogIndex(s.log)
        added == base + 1 .. base + Len(new)
    IN  /\ node' = [node EXCEPT ![n].log = @ \o NewItems(s, new)]
        /\ items_to_response' =
               [items_to_response EXCEPT ![n] =
                   [i \in DOMAIN @ \cup added |-> IF i \in added THEN new[i - base] ELSE @[i]]]
        /\ answer' = Answered(Owed(n, added), "broken")
        /\ incoming_commands' = [incoming_commands EXCEPT ![n] = << >>]

\* The end of TickLeader: heartbeats to all, then the new commands; nothing if
\* a message of this tick deposed the leader.
EndLeaderTick(n) ==
    /\ tick.node = n /\ inbox = EmptyBag /\ tick.role = "leader"
    /\ IF node[n].role = "leader"
       THEN /\ \E read \in TermsRead(node[n]) :
                   messages' = Send(messages, AppendEntriesToAll(n, node[n], read))
            /\ AddNewCommandsToLog(n)
       ELSE UNCHANGED <<node, messages, clientVars>>
    /\ tick' = Idle
    /\ UNCHANGED <<inbox, readVars>>

\* The end of TickFollower and TickCandidate with the timer still running.
EndQuietTick(n) ==
    /\ tick.node = n /\ inbox = EmptyBag /\ tick.role # "leader"
    /\ tick' = Idle
    /\ UNCHANGED <<node, inbox, messages, clientVars, readVars>>

\* UniformTimer: a timer that was reset in this tick is still running at its end;
\* any other may have expired, a new replica's from the start.
TimerMayExpire(n) ==
    /\ ~ tick.timerReset
    /\ node[n].term < MaxTerm /\ n \in Standing[node[n].term + 1]

\* The same with the timer expired: the replica stands for the next term, even
\* if a message of this tick has just made it the leader.
EndExpiredTick(n) ==
    /\ tick.node = n /\ inbox = EmptyBag /\ tick.role # "leader"
    /\ TimerMayExpire(n)
    /\ LET s == BecomeCandidate(node[n], n)
       IN  /\ node' = [node EXCEPT ![n] = s]
           /\ messages' = Send(messages, RequestVoteToAll(n, s))
    /\ tick' = Idle
    /\ UNCHANGED <<inbox, clientVars, readVars>>

\* One message of the tick in progress.
Receive(n) == \E m \in BagToSet(inbox) :
    \/ HandleAppendEntriesRequest(n, m)
    \/ HandleRequestVoteRequest(n, m)
    \/ HandleAppendEntriesResponse(n, m)
    \/ HandleRequestVoteResponse(n, m)

Call(n) ==
    \/ \E c \in Command : AddCommand(n, c)
    \/ \E r \in Reader, q \in Query : GetPersistentCommands(n, r, q)

EndTick(n) == EndLeaderTick(n) \/ EndQuietTick(n) \/ EndExpiredTick(n)

Next == \E n \in Replica : Call(n) \/ BeginTick(n) \/ Receive(n) \/ EndTick(n)

Spec == Init /\ [][Next]_vars

(***************************************************************************)
(* Fairness.  Every replica has a thread that calls Tick again and again   *)
(* (worker.cpp), whatever the others do; a tick in progress goes on to its *)
(* end; and a timer that keeps running at the end of tick after tick       *)
(* expires at some point.                                                  *)
(***************************************************************************)
Fairness == \A n \in Replica :
    /\ SF_vars(BeginTick(n))
    /\ WF_vars(Receive(n))
    /\ WF_vars(EndTick(n))
    /\ SF_vars(EndExpiredTick(n))

FairSpec == Spec /\ Fairness
-----------------------------------------------------------------------------
(***************************************************************************)
(* Types.                                                                  *)
(***************************************************************************)
State == [term : Term, votedFor : Replica \cup {None}, log : Seq(Item), commitIndex : Nat,
          role : {"follower", "candidate", "leader"}, votes : SUBSET Replica,
          nextIndex : [Replica -> Nat], matchIndex : [Replica -> Nat]]

\* The type invariant: every variable holds a value of the shape its C++ type has.
TypeOK ==
    /\ node \in [Replica -> State]
    /\ tick \in [node : Replica \cup {None}, role : {"follower", "candidate", "leader"},
                 timerReset : BOOLEAN]
    /\ IsABag(inbox) /\ BagToSet(inbox) \subseteq Message
    /\ IsABag(messages) /\ BagToSet(messages) \subseteq Message
    /\ incoming_commands \in [Replica -> Seq(Command)]
    /\ DOMAIN items_to_response = Replica
    /\ \A n \in Replica : \A i \in DOMAIN items_to_response[n] :
           i \in Nat \ {0} /\ items_to_response[n][i] \in Command
    /\ answer \in [Command -> Answer]
    /\ query \in [Reader -> [node : Replica \cup {None}, from : Nat, count : Nat]]
    /\ reply \in [Reader -> Seq(Command \cup {Garbage}) \cup {None}]
-----------------------------------------------------------------------------
(***************************************************************************)
(* Elections, whoever's timers expire.                                     *)
(***************************************************************************)
InTransit == BagToSet(messages) \cup BagToSet(inbox)

\* v's vote for c in term t is on its way to c, or c has counted it.
Vote(v, c, t) ==
    \/ \E m \in InTransit : /\ m.type = "RequestVoteResponse"
                            /\ m.granted /\ m.from = v /\ m.to = c /\ m.candidateTerm = t
    \/ v \in node[c].votes /\ node[c].term = t

\* A vote that is counted or on its way is still its voter's: the voter has
\* moved on to a later term, stands by the vote, or leads (BecomeLeader, which
\* forgets the vote, is the one way to lose it within the term).
VotesBacked == \A v, c \in Replica, t \in Term :
    Vote(v, c, t) =>
        \/ node[v].term > t
        \/ node[v].term = t /\ (node[v].votedFor = c \/ node[v].role = "leader")

\* A leader has a majority behind it: more than half of the replicas have
\* reached its term, so none of them answers an older leader or candidate.
LeaderBacked == \A n \in Replica :
    node[n].role = "leader" => IsQuorum({q \in Replica : node[q].term >= node[n].term})

\* Two replicas lead the same term only if one of them has voted for the other:
\* no third replica lets two be elected.  (That a leader votes once more in its own
\* term is what BecomeLeader brings about; what follows from it, two_leaders shows.)
RivalLeaders == \A a, b \in Replica :
    /\ a # b /\ node[a].role = "leader" /\ node[b].role = "leader"
    /\ node[a].term = node[b].term
    => node[a].votedFor = b \/ node[b].votedFor = a

\* A step never takes a replica back to an older term, and within a term its
\* vote changes only from nobody to somebody, or when it becomes the leader.
VoteKept == [][\A n \in Replica :
    /\ node[n].term <= node'[n].term
    /\ node[n].term = node'[n].term =>
           \/ node'[n].votedFor = node[n].votedFor
           \/ node[n].votedFor = None
           \/ node[n].role = "candidate" /\ node'[n].role = "leader"]_vars

-----------------------------------------------------------------------------
(***************************************************************************)
(* Replication, when no two replicas stand for the same term.              *)
(***************************************************************************)
Stands(n, t) == t \in 1 .. MaxTerm /\ n \in Standing[t]

Staggered == \A t \in 1 .. MaxTerm : \A a, b \in Standing[t] : a = b

\* Two logs that have an item of the same term at an index are the same up to it.
LogMatching == \A a, b \in Replica : LogsMatch(node[a].log, node[b].log)

\* While a replica leads a term it never drops or rewrites an item of its log
\* (it handles its own heartbeats as any other replica does).
LeaderAppendOnly == [][\A n \in Replica :
    /\ node[n].role = "leader" /\ node'[n].role = "leader"
    /\ node[n].term = node'[n].term
    => SameUpTo(node[n].log, node'[n].log, Len(node[n].log))]_vars

\* What a leader has committed through an item of its own term is in the log of
\* every leader of a later term.  It is not, when an answer to a request of an
\* older term of its own is among those it counts (HandleAppendEntriesResponse).
LeaderCompleteness == \A a, b \in Replica :
    LET commit == node[a].commitIndex IN
    /\ node[a].role = "leader" /\ node[b].role = "leader"
    /\ node[a].term < node[b].term
    /\ commit > 0 /\ TermAt(node[a].log, commit) = node[a].term
    => SameUpTo(node[a].log, node[b].log, commit)

\* A vote that is counted or on its way is for a log that is not behind the
\* voter's: neither log changes until the voter hears of a later term or the
\* candidate leads.
VotersNotAhead == \A v, c \in Replica :
    LET own == node[v].log  its == node[c].log IN
    /\ node[c].role = "candidate" /\ Vote(v, c, node[c].term)
    /\ node[v].term = node[c].term
    => \/ LastLogTerm(own) < LastLogTerm(its)
       \/ LastLogTerm(own) = LastLogTerm(its) /\ Len(own) <= Len(its)

\* "TODO: unexpected" at node.cpp:153-156: a request never brings an item that
\* differs from the one of the same term the receiver has at its index.
NoConflictWithinTerm == \A m \in InTransit : m.type = "AppendEntriesRequest" =>
    \A k \in DOMAIN m.entries : LET log == node[m.to].log IN
        (m.prev + k \in DOMAIN log /\ log[m.prev + k].term = m.entries[k].term)
            => log[m.prev + k] = m.entries[k]
-----------------------------------------------------------------------------
(***************************************************************************)
(* Commands and reads.                                                     *)
(***************************************************************************)
\* Where the promise of a command is: in the queue of a replica (index 0), or
\* under the index of the item its replica answers for.
Promises(c) ==
    {<<n, 0>> : n \in {q \in Replica : c \in Commands(incoming_commands[q])}}
    \cup UNION {{<<n, i>> : i \in {j \in DOMAIN items_to_response[n] :
                                       items_to_response[n][j] = c}} : n \in Replica}

\* A waiting client's promise is in exactly one place, so it can be answered and
\* is answered once; nobody holds the promise of a future that is ready.
OnePromise == \A c \in Command :
    Cardinality(Promises(c)) = IF answer[c] = "waiting" THEN 1 ELSE 0

\* A client that is sent to another replica may submit its command there: the
\* replica that sent it away has not put it in a log, nor will anyone else.
RedirectedNotLogged == \A c \in Command : answer[c] \in Replica =>
    /\ \A n \in Replica : \A i \in DOMAIN node[n].log : node[n].log[i].command # c
    /\ \A m \in InTransit : m.type = "AppendEntriesRequest" =>
           \A k \in DOMAIN m.entries : m.entries[k].command # c

\* A command reported persisted is in the logs of a majority.
PersistedOnQuorum == \A c \in Command : answer[c] = "persisted" =>
    IsQuorum({n \in Replica : \E i \in DOMAIN node[n].log : node[n].log[i].command = c})

\* What two replicas have committed is the same, item by item, and lies in
\* their logs.
StateMachineSafety == \A a, b \in Replica :
    /\ node[a].commitIndex <= Len(node[a].log)
    /\ \A i \in 1 .. node[a].commitIndex :
           i <= node[b].commitIndex => node[a].log[i] = node[b].log[i]

\* What a leader takes for matched is there: the replica's log is the leader's up
\* to that index, unless the replica has moved on to a later term.
MatchIndexTrue == \A n, q \in Replica :
    /\ node[n].role = "leader"
    /\ node[q].term <= node[n].term
    => SameUpTo(node[n].log, node[q].log, node[n].matchIndex[q])

\* A replica never commits ahead of the leader of its term: it takes over
\* leader_commit, and only the leader counts.
CommitNotAhead == \A n, q \in Replica :
    /\ node[n].role = "leader"
    /\ node[q].term = node[n].term
    => node[q].commitIndex <= node[n].commitIndex

\* A step never takes back what a replica has committed: its commit index does
\* not fall, and the items up to it stay as they are.
CommittedStays == [][\A n \in Replica :
    /\ node[n].commitIndex <= node'[n].commitIndex
    /\ SameUpTo(node[n].log, node'[n].log, node[n].commitIndex)]_vars

\* Two reads from the same index, on whatever replicas, see the same commands
\* as far as both go.
ReadsAgree == \A r, s \in Reader :
    /\ reply[r] # None /\ reply[s] # None
    /\ query[r].from = query[s].from
    => \A k \in DOMAIN reply[r] \cap DOMAIN reply[s] : reply[r][k] = reply[s][k]

\* A client whose call was accepted is answered at some point.
EveryCallAnswered == \A c \in Command : answer[c] = "waiting" ~> answer[c] # "waiting"

\* A replica that leads for good brings its whole log to every other one that it
\* reaches and hears.
LaggardsCatchUp == \A n \in Replica :
    <>[](node[n].role = "leader") =>
        <>[](\A q \in {p \in Replica : {<<n, p>>, <<p, n>>} \subseteq Linked} :
                 SameUpTo(node[n].log, node[q].log, Len(node[n].log)))
=============================================================================
