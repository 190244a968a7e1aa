------------------------ MODULE ConsensusNodeProofs ------------------------
(***************************************************************************)
(* The type invariant of ConsensusNode, proved for every value of its      *)
(* constants, with the facts about bags of messages it rests on.           *)
(***************************************************************************)
EXTENDS ConsensusNode, FiniteSetTheorems, SequenceTheorems, TLAPS

-----------------------------------------------------------------------------
(***************************************************************************)
(* Bags of messages.                                                       *)
(***************************************************************************)
IsMessageBag(B) == IsABag(B) /\ BagToSet(B) \subseteq Message

\* The union of two bags of messages is one, with the messages of both.
LEMMA AddBags ==
  ASSUME NEW A, NEW B, IsMessageBag(A), IsMessageBag(B)
  PROVE  /\ IsMessageBag(A (+) B)
         /\ BagToSet(A (+) B) = BagToSet(A) \cup BagToSet(B)
BY DEF IsMessageBag, IsABag, BagToSet, (+)

\* What is left of a bag of messages is a bag of messages.
LEMMA SubtractBags ==
  ASSUME NEW A, NEW B, IsMessageBag(A), IsMessageBag(B)
  PROVE  /\ IsMessageBag(A (-) B)
         /\ BagToSet(A (-) B) \subseteq BagToSet(A)
BY DEF IsMessageBag, IsABag, BagToSet, (-)

\* One copy of each message of a set is a bag of messages.
LEMMA SetBags ==
  ASSUME NEW S, S \subseteq Message
  PROVE  IsMessageBag(SetToBag(S)) /\ BagToSet(SetToBag(S)) = S
BY DEF IsMessageBag, IsABag, BagToSet, SetToBag

\* The empty bag is a bag of messages.
LEMMA EmptyBags == IsMessageBag(EmptyBag) /\ BagToSet(EmptyBag) = {}
BY SetBags DEF EmptyBag

\* What is in flight after a call of Send was in flight before it or is sent.
LEMMA SendBags ==
  ASSUME NEW B, NEW S, IsMessageBag(B), S \subseteq Message
  PROVE  /\ IsMessageBag(Send(B, S))
         /\ BagToSet(Send(B, S)) \subseteq BagToSet(B) \cup S
<1> DEFINE sent == {m \in S : \/ m.from = m.to
                              \/ /\ <<m.from, m.to>> \in Linked
                                 /\ Cardinality(Foreign(B, m.to)) < Capacity}
           copies(m) == (IF BagIn(m, B) THEN B[m] ELSE 0) + (IF m \in sent THEN 1 ELSE 0)
           D == BagToSet(B) \cup sent
           R == [m \in D |-> IF copies(m) <= MaxCopies THEN copies(m) ELSE MaxCopies]
<1>1. Send(B, S) = R
  BY Zenon DEF Send
<1>2. ASSUME NEW m \in D
      PROVE  copies(m) \in Nat \ {0}
  BY <1>2 DEF IsMessageBag, IsABag, BagToSet, BagIn
<1>3. MaxCopies \in Nat \ {0}
  BY BoundsAssumption
<1> HIDE DEF sent, copies
<1>4. R \in [D -> {k \in Nat : k > 0}]
  BY <1>2, <1>3
<1>5. D \subseteq Message
  BY DEF IsMessageBag, sent
<1>6. D \subseteq BagToSet(B) \cup S
  BY DEF sent
<1>7. QED
  BY <1>1, <1>4, <1>5, <1>6 DEF IsMessageBag, IsABag, BagToSet
-----------------------------------------------------------------------------
(***************************************************************************)
(* Types: the operators of the model.                                      *)
(***************************************************************************)
LEMMA BoundTypes ==
  /\ MaxTerm \in Nat
  /\ Term \subseteq Nat
  /\ 0 \in Term
  /\ Huge \in Nat
  /\ Zero \in [Replica -> Nat]
  /\ Zero \in [Replica -> Term]
BY BoundsAssumption, HugeAssumption DEF Term, Zero

\* Slices and ends of a log, and the bounds of its indices and terms.
LEMMA LogTypes ==
  ASSUME NEW log \in Seq(Item)
  PROVE  /\ LastLogIndex(log) \in Nat
         /\ LastLogTerm(log) \in Term
         /\ \A i \in Nat : i <= Len(log) => TermAt(log, i) \in Term
         /\ \A i \in Nat \ {0} : ItemsFrom(log, i) \in Seq(Item)
<1>1. LastLogIndex(log) \in Nat
  BY DEF LastLogIndex
<1>2. \A i \in Nat : i <= Len(log) => TermAt(log, i) \in Term
  <2> SUFFICES ASSUME NEW i \in Nat, i <= Len(log)
               PROVE  TermAt(log, i) \in Term
    OBVIOUS
  <2>1. CASE i = 0
    BY <2>1, BoundTypes DEF TermAt
  <2>2. CASE i # 0
    <3>1. log[i] \in Item
      BY <2>2
    <3>2. QED
      BY <3>1, <2>2 DEF TermAt, Item
  <2>3. QED
    BY <2>1, <2>2
<1>3. LastLogTerm(log) \in Term
  BY <1>2 DEF LastLogTerm
<1>4. \A i \in Nat \ {0} : ItemsFrom(log, i) \in Seq(Item)
  BY DEF ItemsFrom
<1>5. QED
  BY <1>1, <1>2, <1>3, <1>4

\* What the loop of HandleAppendEntriesRequest makes of a log is a log.
LEMMA AppendItemsType ==
  ASSUME NEW log \in Seq(Item), NEW prev \in Nat, NEW items \in Seq(Item), prev <= Len(log)
  PROVE  AppendItems(log, prev, items) \in Seq(Item)
<1>1. SubSeq(log, 1, prev) \in Seq(Item)
  OBVIOUS
<1>2. QED
  BY <1>1 DEF AppendItems

\* A decremented uint64_t is a natural number, wrapped around or not.
LEMMA DecrementType ==
  ASSUME NEW i \in Nat
  PROVE  /\ Decrement(i) \in Nat
         /\ Decrement(i) # Huge => i = Decrement(i) + 1
BY BoundTypes DEF Decrement

\* Changes of role keep a replica's state well-typed.
LEMMA RoleTypes ==
  ASSUME NEW s \in State
  PROVE  /\ BecomeFollower(s) \in State
         /\ \A t \in Term : AdoptTerm(s, t) \in State
         /\ \A n \in Replica : s.term < MaxTerm => BecomeCandidate(s, n) \in State
         /\ BecomeLeader(s) \in State
<1>1. BecomeFollower(s) \in State
  BY BoundTypes DEF BecomeFollower, State
<1>2. ASSUME NEW t \in Term
      PROVE  AdoptTerm(s, t) \in State
  <2>1. [s EXCEPT !.term = t] \in State
    BY DEF State
  <2>2. BecomeFollower([s EXCEPT !.term = t]) \in State
    BY <2>1, BoundTypes DEF BecomeFollower, State
  <2>3. QED
    BY <2>2 DEF AdoptTerm
<1>3. ASSUME NEW n \in Replica, s.term < MaxTerm
      PROVE  BecomeCandidate(s, n) \in State
  <2>1. s.term + 1 \in Term
    BY <1>3, BoundTypes DEF State, Term
  <2>2. QED
    BY <2>1, BoundTypes DEF BecomeCandidate, State
<1>4. BecomeLeader(s) \in State
  <2>1. LastLogIndex(s.log) + 1 \in Nat
    BY LogTypes DEF State
  <2>2. QED
    BY <2>1, BoundTypes DEF BecomeLeader, State
<1>5. QED
  BY <1>1, <1>2, <1>3, <1>4

\* The index CommitIfPossible goes up to is a natural number.
LEMMA CommitTargetType ==
  ASSUME NEW s \in State
  PROVE  CommitTarget(s) \in Nat
<1> DEFINE range == s.commitIndex + 1 .. LastLogIndex(s.log)
           matched == {i \in range : IsQuorum({q \in Replica : s.matchIndex[q] >= i})}
<1>1. s.commitIndex \in Nat /\ LastLogIndex(s.log) \in Nat
  BY LogTypes DEF State
<1>2. IsFiniteSet(range)
  BY <1>1, FS_Interval, SMTT(20)
<1>3. Cardinality(matched) \in Nat
  <2>1. matched \subseteq range
    OBVIOUS
  <2> HIDE DEF matched, range
  <2>2. IsFiniteSet(matched)
    BY <1>2, <2>1, FS_Subset
  <2>3. QED
    BY <2>2, FS_CardinalityType
<1>4. CommitTarget(s) = s.commitIndex + Cardinality(matched)
  BY Zenon DEF CommitTarget
<1> HIDE DEF matched
<1>5. QED
  BY <1>1, <1>3, <1>4

\* Accepting a request's items keeps a replica's state well-typed.
LEMMA AcceptEntriesType ==
  ASSUME NEW s \in State, NEW m \in AppendEntriesRequest, m.prev <= Len(s.log)
  PROVE  AcceptEntries(s, m) \in State
<1>1. AppendItems(s.log, m.prev, m.entries) \in Seq(Item)
  BY AppendItemsType DEF State, AppendEntriesRequest
<1>2. m.commit \in Nat /\ m.prev + Len(m.entries) \in Nat /\ s.commitIndex \in Nat
  BY DEF State, AppendEntriesRequest
<1>3. QED
  BY <1>1, <1>2 DEF AcceptEntries, State

\* A leader's requests are messages, what lies outside its log included.
LEMMA AppendEntriesToAllType ==
  ASSUME NEW n \in Replica, NEW s \in State, NEW read \in [Replica -> Term]
  PROVE  AppendEntriesToAll(n, s, read) \subseteq AppendEntriesRequest
<1> SUFFICES ASSUME NEW q \in Replica
             PROVE  [type |-> "AppendEntriesRequest", from |-> n, to |-> q, term |-> s.term,
                     prev |-> PrevIndex(s, q),
                     prevTerm |-> IF OutsideLog(s, q) THEN read[q]
                                  ELSE TermAt(s.log, PrevIndex(s, q)),
                     entries |-> IF OutsideLog(s, q) THEN << >>
                                 ELSE ItemsFrom(s.log, s.nextIndex[q]),
                     commit |-> s.commitIndex] \in AppendEntriesRequest
  BY DEF AppendEntriesToAll
<1>1. s.nextIndex[q] \in Nat /\ s.term \in Term /\ s.log \in Seq(Item) /\ s.commitIndex \in Nat
  BY DEF State
<1>2. PrevIndex(s, q) \in Nat
  BY <1>1, DecrementType DEF PrevIndex
<1>3. ~ OutsideLog(s, q) => /\ PrevIndex(s, q) <= Len(s.log)
                            /\ s.nextIndex[q] \in Nat \ {0}
  <2> SUFFICES ASSUME ~ OutsideLog(s, q)
               PROVE  PrevIndex(s, q) <= Len(s.log) /\ s.nextIndex[q] \in Nat \ {0}
    OBVIOUS
  <2>1. PrevIndex(s, q) # Huge /\ PrevIndex(s, q) <= Len(s.log)
    BY <1>1, <1>2 DEF OutsideLog, LastLogIndex
  <2>2. s.nextIndex[q] = PrevIndex(s, q) + 1
    BY <1>1, <2>1, DecrementType DEF PrevIndex
  <2>3. QED
    BY <1>2, <2>1, <2>2
<1>4. ~ OutsideLog(s, q) => /\ TermAt(s.log, PrevIndex(s, q)) \in Term
                            /\ ItemsFrom(s.log, s.nextIndex[q]) \in Seq(Item)
  BY <1>1, <1>2, <1>3, LogTypes
<1>5. << >> \in Seq(Item)
  OBVIOUS
<1>6. QED
  BY <1>1, <1>2, <1>4, <1>5 DEF AppendEntriesRequest
-----------------------------------------------------------------------------
(***************************************************************************)
(* Types: the steps.                                                       *)
(***************************************************************************)
\* Taking a message from the inbox leaves a bag, and the message is one.
LEMMA TakesType ==
  ASSUME TypeOK, NEW n \in Replica, NEW m \in BagToSet(inbox), Takes(n, m)
  PROVE  /\ m \in Message
         /\ IsMessageBag(inbox')
         /\ BagToSet(inbox') \subseteq BagToSet(inbox)
         /\ tick.node = n
<1>1. m \in Message /\ IsMessageBag(inbox)
  BY DEF TypeOK, IsMessageBag
<1>2. IsMessageBag(SetToBag({m}))
  BY <1>1, SetBags
<1>3. QED
  BY <1>1, <1>2, SubtractBags DEF Takes

\* A replica that goes on in a well-typed state, having sent messages.
LEMMA BecomesType ==
  ASSUME TypeOK, NEW n \in Replica, NEW s \in State, NEW reset \in BOOLEAN,
         NEW S, S \subseteq Message, Becomes(n, s, reset, S)
  PROVE  /\ node' \in [Replica -> State]
         /\ tick' \in [node : Replica \cup {None}, role : {"follower", "candidate", "leader"},
                       timerReset : BOOLEAN]
         /\ IsMessageBag(messages')
         /\ BagToSet(messages') \subseteq BagToSet(messages) \cup S
<1>1. node' \in [Replica -> State]
  BY DEF TypeOK, Becomes
<1>2. tick' \in [node : Replica \cup {None}, role : {"follower", "candidate", "leader"},
                 timerReset : BOOLEAN]
  BY DEF TypeOK, Becomes
<1>3. IsMessageBag(messages)
  BY DEF TypeOK, IsMessageBag
<1>4. QED
  BY <1>1, <1>2, <1>3, SendBags DEF Becomes

\* Answering calls keeps the answers well-typed.
LEMMA AnsweredType ==
  ASSUME TypeOK, NEW S, NEW a \in Answer
  PROVE  Answered(S, a) \in [Command -> Answer]
BY DEF TypeOK, Answered

\* The state after HandleAppendEntriesRequest.
LEMMA AppendEntriesRequestType ==
  ASSUME TypeOK, NEW n \in Replica, NEW m \in BagToSet(inbox), HandleAppendEntriesRequest(n, m)
  PROVE  TypeOK'
<1> DEFINE s == AdoptTerm(node[n], m.term)
           stale == m.term < s.term
           accepted == ~ stale /\ HasPrev(s.log, m.prev, m.prevTerm)
           t == IF accepted THEN AcceptEntries(s, m) ELSE s
           sent == m.prev + Len(m.entries)
           matched == IF LastLogIndex(t.log) <= sent THEN LastLogIndex(t.log) ELSE sent
           r == AppendEntriesReply(m, t.term, accepted, IF accepted THEN matched ELSE 0)
<1>1. /\ m \in AppendEntriesRequest
      /\ IsMessageBag(inbox')
  BY TakesType DEF HandleAppendEntriesRequest, Message, AppendEntriesRequest,
       RequestVoteRequest, AppendEntriesResponse, RequestVoteResponse
<1>2. /\ Becomes(n, t, TRUE, {r})
      /\ \/ UNCHANGED <<incoming_commands, answer>>
         \/ Redirect(n, m.from)
      /\ UNCHANGED <<items_to_response, query, reply>>
  BY Zenon DEF HandleAppendEntriesRequest, readVars
<1>3. s \in State
  BY <1>1, RoleTypes DEF TypeOK, AppendEntriesRequest
<1> HIDE DEF s
<1>4. t \in State
  BY <1>1, <1>3, AcceptEntriesType DEF HasPrev
<1>5. accepted \in BOOLEAN
  BY DEF HasPrev
<1> HIDE DEF t, accepted
<1>6. matched \in Nat
  <2>1. LastLogIndex(t.log) \in Nat
    BY <1>4, LogTypes DEF State
  <2>2. sent \in Nat
    BY <1>1 DEF AppendEntriesRequest
  <2>3. QED
    BY <2>1, <2>2
<1> HIDE DEF matched
<1>7. r \in Message
  BY <1>1, <1>4, <1>5, <1>6 DEF AppendEntriesReply, Message, AppendEntriesRequest,
       AppendEntriesResponse, State
<1> HIDE DEF r
<1>8. /\ node' \in [Replica -> State]
      /\ tick' \in [node : Replica \cup {None}, role : {"follower", "candidate", "leader"},
                    timerReset : BOOLEAN]
      /\ IsMessageBag(messages')
  BY <1>2, <1>4, <1>7, BecomesType
<1>9. incoming_commands' \in [Replica -> Seq(Command)] /\ answer' \in [Command -> Answer]
  <2>1. CASE UNCHANGED <<incoming_commands, answer>>
    BY <2>1 DEF TypeOK
  <2>2. CASE Redirect(n, m.from)
    <3>1. m.from \in Answer
      BY <1>1 DEF AppendEntriesRequest, Answer
    <3>2. << >> \in Seq(Command)
      OBVIOUS
    <3>3. QED
      BY <2>2, <3>1, <3>2, AnsweredType DEF Redirect, TypeOK
  <2>3. QED
    BY <1>2, <2>1, <2>2
<1>10. QED
  BY <1>1, <1>2, <1>8, <1>9 DEF TypeOK, IsMessageBag

\* The state after HandleRequestVoteRequest.
LEMMA RequestVoteRequestType ==
  ASSUME TypeOK, NEW n \in Replica, NEW m \in BagToSet(inbox), HandleRequestVoteRequest(n, m)
  PROVE  TypeOK'
<1> DEFINE s == AdoptTerm(node[n], m.term)
           stale == m.term < s.term
           granted == ~ stale /\ MayVote(s, m) /\ UpToDate(s.log, m.lastTerm, m.lastIndex)
           t == IF granted THEN [s EXCEPT !.votedFor = m.from] ELSE s
           r == RequestVoteReply(m, IF stale THEN 0 ELSE t.term, granted,
                                 IF granted THEN m.term ELSE 0)
<1>1. /\ m \in RequestVoteRequest
      /\ IsMessageBag(inbox')
  BY TakesType DEF HandleRequestVoteRequest, Message, AppendEntriesRequest,
       RequestVoteRequest, AppendEntriesResponse, RequestVoteResponse
<1>2. /\ Becomes(n, t, node[n].term < m.term, {r})
      /\ UNCHANGED <<clientVars, readVars>>
  BY Zenon DEF HandleRequestVoteRequest
<1>3. s \in State
  BY <1>1, RoleTypes DEF TypeOK, RequestVoteRequest
<1> HIDE DEF s
<1>4. t \in State
  BY <1>1, <1>3 DEF State, RequestVoteRequest
<1>5. granted \in BOOLEAN /\ stale \in BOOLEAN /\ (node[n].term < m.term) \in BOOLEAN
  BY DEF MayVote, UpToDate
<1> HIDE DEF t, granted, stale
<1>6. r \in Message
  BY <1>1, <1>4, <1>5, BoundTypes DEF RequestVoteReply, Message, RequestVoteRequest,
       RequestVoteResponse, State
<1> HIDE DEF r
<1>7. /\ node' \in [Replica -> State]
      /\ tick' \in [node : Replica \cup {None}, role : {"follower", "candidate", "leader"},
                    timerReset : BOOLEAN]
      /\ IsMessageBag(messages')
  BY <1>2, <1>4, <1>5, <1>6, BecomesType
<1>8. QED
  BY <1>1, <1>2, <1>7 DEF TypeOK, IsMessageBag, clientVars, readVars

\* The state after HandleAppendEntriesResponse.
LEMMA AppendEntriesResponseType ==
  ASSUME TypeOK, NEW n \in Replica, NEW m \in BagToSet(inbox), HandleAppendEntriesResponse(n, m)
  PROVE  TypeOK'
<1> DEFINE s == AdoptTerm(node[n], m.term)
           match == IF m.matched <= s.matchIndex[m.from] THEN s.matchIndex[m.from]
                                                         ELSE m.matched
           next == IF match + 1 <= s.nextIndex[m.from] THEN s.nextIndex[m.from]
                                                       ELSE match + 1
           t == IF s.role # "leader" THEN s
                ELSE IF m.success
                THEN [s EXCEPT !.matchIndex[m.from] = match, !.nextIndex[m.from] = next]
                ELSE [s EXCEPT !.nextIndex[m.from] = Decrement(@)]
           reset == node[n].term < m.term
<1>1. /\ m \in AppendEntriesResponse
      /\ IsMessageBag(inbox')
  BY TakesType DEF HandleAppendEntriesResponse, Message, AppendEntriesRequest,
       RequestVoteRequest, AppendEntriesResponse, RequestVoteResponse
<1>2. /\ Becomes(n, t, reset, {})
      /\ UNCHANGED <<clientVars, readVars>>
  BY Zenon DEF HandleAppendEntriesResponse
<1>3. s \in State
  BY <1>1, RoleTypes DEF TypeOK, AppendEntriesResponse
<1> HIDE DEF s
<1>4. match \in Nat /\ next \in Nat
  BY <1>1, <1>3 DEF State, AppendEntriesResponse
<1>5. Decrement(s.nextIndex[m.from]) \in Nat
  BY <1>1, <1>3, DecrementType DEF State, AppendEntriesResponse
<1> HIDE DEF match, next
<1>6. t \in State
  BY <1>1, <1>3, <1>4, <1>5 DEF State
<1>7. reset \in BOOLEAN
  OBVIOUS
<1> HIDE DEF t, reset
<1>8. /\ node' \in [Replica -> State]
      /\ tick' \in [node : Replica \cup {None}, role : {"follower", "candidate", "leader"},
                    timerReset : BOOLEAN]
      /\ IsMessageBag(messages')
  BY <1>2, <1>6, <1>7, BecomesType
<1>9. QED
  BY <1>1, <1>2, <1>8 DEF TypeOK, IsMessageBag, clientVars, readVars

\* The state after HandleRequestVoteResponse.
LEMMA RequestVoteResponseType ==
  ASSUME TypeOK, NEW n \in Replica, NEW m \in BagToSet(inbox), HandleRequestVoteResponse(n, m)
  PROVE  TypeOK'
<1> DEFINE s == AdoptTerm(node[n], m.term)
           t == [s EXCEPT !.votes = @ \cup {m.from}]
           l == BecomeLeader(t)
           reset == node[n].term < m.term
<1>1. /\ m \in RequestVoteResponse
      /\ IsMessageBag(inbox')
  BY TakesType DEF HandleRequestVoteResponse, Message, AppendEntriesRequest,
       RequestVoteRequest, AppendEntriesResponse, RequestVoteResponse
<1>2. /\ \/ Becomes(n, s, reset, {})
         \/ Becomes(n, l, reset, AppendEntriesToAll(n, l, Zero))
         \/ Becomes(n, t, reset, {})
      /\ UNCHANGED <<clientVars, readVars>>
  BY Zenon DEF HandleRequestVoteResponse
<1>3. s \in State
  BY <1>1, RoleTypes DEF TypeOK, RequestVoteResponse
<1>4. reset \in BOOLEAN
  OBVIOUS
<1> HIDE DEF s, reset
<1>5. t \in State
  BY <1>1, <1>3 DEF State, RequestVoteResponse
<1> HIDE DEF t
<1>6. l \in State
  BY <1>5, RoleTypes
<1> HIDE DEF l
<1>7. AppendEntriesToAll(n, l, Zero) \subseteq Message
  BY <1>6, BoundTypes, AppendEntriesToAllType DEF Message
<1>8. /\ node' \in [Replica -> State]
      /\ tick' \in [node : Replica \cup {None}, role : {"follower", "candidate", "leader"},
                    timerReset : BOOLEAN]
      /\ IsMessageBag(messages')
  <2>1. CASE Becomes(n, s, reset, {})
    BY <1>3, <1>4, <2>1, BecomesType
  <2>2. CASE Becomes(n, l, reset, AppendEntriesToAll(n, l, Zero))
    BY <1>4, <1>6, <1>7, <2>2, BecomesType
  <2>3. CASE Becomes(n, t, reset, {})
    BY <1>4, <1>5, <2>3, BecomesType
  <2>4. QED
    BY <1>2, <2>1, <2>2, <2>3
<1>9. QED
  BY <1>1, <1>2, <1>8 DEF TypeOK, IsMessageBag, clientVars, readVars

\* A tick begins with well-typed batches.
LEMMA BatchTypes ==
  ASSUME TypeOK, NEW n \in Replica
  PROVE  /\ \A B \in Batches(n) : IsMessageBag(B) /\ BagToSet(B) \subseteq BagToSet(messages)
         /\ IsMessageBag(Own(n)) /\ BagToSet(Own(n)) \subseteq BagToSet(messages)
<1>1. IsMessageBag(messages)
  BY DEF TypeOK, IsMessageBag
<1>2. \A S \in SUBSET BagToSet(messages) :
          IsMessageBag(Copies(S)) /\ BagToSet(Copies(S)) \subseteq BagToSet(messages)
  BY <1>1 DEF Copies, IsMessageBag, IsABag, BagToSet
<1>3. \A S \in SUBSET BagToSet(messages) :
          IsMessageBag(SetToBag(S)) /\ BagToSet(SetToBag(S)) \subseteq BagToSet(messages)
  BY <1>1, SetBags DEF IsMessageBag
<1>4. Foreign(messages, n) \in SUBSET BagToSet(messages)
  BY DEF Foreign
<1>5. ASSUME NEW B \in Batches(n)
      PROVE  \E S \in SUBSET BagToSet(messages) : B = Copies(S) \/ B = SetToBag(S)
  BY <1>4, <1>5 DEF Batches
<1>6. \A B \in Batches(n) : IsMessageBag(B) /\ BagToSet(B) \subseteq BagToSet(messages)
  BY <1>2, <1>3, <1>5
<1>7. IsMessageBag(Own(n)) /\ BagToSet(Own(n)) \subseteq BagToSet(messages)
  BY <1>2 DEF Own
<1>8. QED
  BY <1>6, <1>7

\* The start of a tick, with the leader's commit, preserves the types.
LEMMA BeginTickType ==
  ASSUME TypeOK, NEW n \in Replica, BeginTick(n)
  PROVE  TypeOK'
<1>1. reply' \in [Reader -> Seq(Command \cup {Garbage}) \cup {None}]
  <2>1. ASSUME NEW r \in Reader
        PROVE  PersistentCommands(node[n], query[r]) \in Seq(Command \cup {Garbage})
    <3> DEFINE s == node[n]
               q == query[r]
               from == IF q.from = 0 THEN 1 ELSE q.from
               upto == IF from + q.count <= s.commitIndex + 1 THEN from + q.count
                                                               ELSE s.commitIndex + 1
               N == IF from < upto THEN upto - from ELSE 0
               item(k) == IF from + k - 1 <= LastLogIndex(s.log)
                          THEN s.log[from + k - 1].command ELSE Garbage
    <3>1. s \in State /\ q.from \in Nat /\ q.count \in Nat
      BY DEF TypeOK
    <3> HIDE DEF s, q
    <3>2. s.log \in Seq(Item) /\ s.commitIndex \in Nat
      BY <3>1 DEF State
    <3>3. from \in Nat \ {0} /\ upto \in Nat /\ N \in Nat
      <4>1. from \in Nat \ {0}
        BY <3>1
      <4> HIDE DEF from
      <4>2. upto \in Nat
        BY <3>1, <3>2, <4>1
      <4> HIDE DEF upto
      <4>3. QED
        BY <4>1, <4>2
    <3> HIDE DEF from, upto
    <3>4. ASSUME NEW k \in 1 .. N
          PROVE  item(k) \in Command \cup {Garbage}
      <4>1. CASE from + k - 1 <= Len(s.log)
        <5>1. from + k - 1 \in 1 .. Len(s.log)
          BY <3>2, <3>3, <4>1
        <5> DEFINE i == from + k - 1
        <5> HIDE DEF i
        <5>2. s.log[i] \in Item
          BY <3>2, <5>1 DEF i
        <5>3. s.log[i].command \in Command
          BY <5>2 DEF Item
        <5>4. QED
          BY <4>1, <5>3 DEF i, LastLogIndex
      <4>2. CASE ~ (from + k - 1 <= Len(s.log))
        BY <4>2 DEF LastLogIndex
      <4>3. QED
        BY <4>1, <4>2
    <3>5. PersistentCommands(s, q) = [k \in 1 .. N |-> item(k)]
      BY Zenon DEF PersistentCommands, from, upto
    <3> HIDE DEF N, item
    <3>6. [k \in 1 .. N |-> item(k)] \in Seq(Command \cup {Garbage})
      BY <3>3, <3>4
    <3>7. QED
      BY <3>5, <3>6 DEF s, q
  <2>2. reply' = [r \in Reader |-> IF Asking(r) /\ query[r].node = n
                                   THEN PersistentCommands(node[n], query[r]) ELSE reply[r]]
    BY DEF BeginTick, ServeReads
  <2>3. QED
    BY <2>1, <2>2 DEF TypeOK
<1>2. tick' \in [node : Replica \cup {None}, role : {"follower", "candidate", "leader"},
                 timerReset : BOOLEAN]
  BY DEF BeginTick, TypeOK, State
<1>3. /\ node' \in [Replica -> State]
      /\ answer' \in [Command -> Answer]
      /\ DOMAIN items_to_response' = Replica
      /\ \A q \in Replica : \A i \in DOMAIN items_to_response'[q] :
             i \in Nat \ {0} /\ items_to_response'[q][i] \in Command
  <2>1. CASE Commit(n)
    <3> DEFINE done == node[n].commitIndex + 1 .. CommitTarget(node[n])
    <3>1. node' = [node EXCEPT ![n].commitIndex = CommitTarget(node[n])]
      BY <2>1 DEF Commit
    <3>2. node' \in [Replica -> State]
      <4> DEFINE upto == CommitTarget(node[n])
      <4>1. upto \in Nat
        BY CommitTargetType DEF TypeOK
      <4> HIDE DEF upto
      <4>2. node' = [node EXCEPT ![n] = [node[n] EXCEPT !.commitIndex = upto]]
        BY <3>1 DEF upto
      <4>3. node[n] \in State
        BY DEF TypeOK
      <4> DEFINE s == node[n]
      <4> HIDE DEF s
      <4>4. [s EXCEPT !.commitIndex = upto] \in State
        BY <4>1, <4>3 DEF State, s
      <4>5. QED
        BY <4>2, <4>4 DEF TypeOK, s
    <3>3. "persisted" \in Answer
      BY DEF Answer
    <3>4. answer' \in [Command -> Answer]
      BY <2>1, <3>3, AnsweredType DEF Commit
    <3>5. items_to_response' =
             [items_to_response EXCEPT ![n] =
                 [i \in DOMAIN items_to_response[n] \ done |-> items_to_response[n][i]]]
      BY <2>1 DEF Commit
    <3> HIDE DEF done
    <3>6. QED
      BY <3>2, <3>4, <3>5 DEF TypeOK
  <2>2. CASE UNCHANGED <<node, answer, items_to_response>>
    BY <2>2 DEF TypeOK
  <2>3. QED
    BY <2>1, <2>2 DEF BeginTick
<1>4. IsMessageBag(inbox') /\ IsMessageBag(messages')
  <2>1. PICK B \in Batches(n) : inbox' = B (+) Own(n)
    BY DEF BeginTick
  <2>2. IsMessageBag(inbox')
    BY <2>1, BatchTypes, AddBags
  <2>3. IsMessageBag(messages)
    BY DEF TypeOK, IsMessageBag
  <2>4. QED
    BY <2>2, <2>3, SubtractBags DEF BeginTick
<1>5. QED
  BY <1>1, <1>2, <1>3, <1>4 DEF TypeOK, BeginTick, IsMessageBag

\* Heartbeats and AddNewCommandsToLog preserve the types.
LEMMA EndLeaderTickType ==
  ASSUME TypeOK, NEW n \in Replica, EndLeaderTick(n)
  PROVE  TypeOK'
<1>1. tick' = Idle /\ UNCHANGED <<inbox, query, reply>>
  BY DEF EndLeaderTick, readVars
<1>2. CASE UNCHANGED <<node, messages, clientVars>>
  BY <1>1, <1>2 DEF TypeOK, clientVars, Idle
<1>3. ASSUME NEW read \in TermsRead(node[n]),
             messages' = Send(messages, AppendEntriesToAll(n, node[n], read)),
             AddNewCommandsToLog(n)
      PROVE  TypeOK'
  <2>1. node[n] \in State
    BY DEF TypeOK
  <2>2. read \in [Replica -> Term]
    BY <1>3, BoundTypes DEF TermsRead
  <2>3. AppendEntriesToAll(n, node[n], read) \subseteq Message
    BY <2>1, <2>2, AppendEntriesToAllType DEF Message
  <2>4. IsMessageBag(messages')
    <3>1. IsMessageBag(messages)
      BY DEF TypeOK, IsMessageBag
    <3>2. QED
      BY <1>3, <2>3, <3>1, SendBags
  <2> DEFINE s == node[n]
             new == incoming_commands[n]
             base == LastLogIndex(s.log)
             added == base + 1 .. base + Len(new)
             tail == NewItems(s, new)
  <2>5. new \in Seq(Command)
    BY DEF TypeOK
  <2>6. s.log \in Seq(Item) /\ s.term \in Term /\ base \in Nat
    BY <2>1, LogTypes DEF State
  <2>7. /\ node' = [node EXCEPT ![n].log = s.log \o tail]
        /\ items_to_response' =
               [items_to_response EXCEPT ![n] =
                   [i \in DOMAIN items_to_response[n] \cup added |->
                        IF i \in added THEN new[i - base] ELSE items_to_response[n][i]]]
        /\ answer' = Answered(Owed(n, added), "broken")
        /\ incoming_commands' = [incoming_commands EXCEPT ![n] = << >>]
    BY <1>3 DEF AddNewCommandsToLog
  <2> HIDE DEF s, new, base
  <2>8. tail \in Seq(Item)
    BY <2>5, <2>6 DEF Item, NewItems
  <2> HIDE DEF tail
  <2>9. node' \in [Replica -> State]
    <3>1. s.log \o tail \in Seq(Item)
      BY <2>6, <2>8
    <3> DEFINE log == s.log \o tail
    <3> HIDE DEF log
    <3>2. node' = [node EXCEPT ![n] = [s EXCEPT !.log = log]]
      BY <2>7 DEF s, log
    <3>3. [s EXCEPT !.log = log] \in State
      BY <2>1, <3>1 DEF State, s, log
    <3>4. QED
      BY <3>2, <3>3 DEF TypeOK
  <2>10. incoming_commands' \in [Replica -> Seq(Command)]
    <3>1. << >> \in Seq(Command)
      OBVIOUS
    <3>2. QED
      BY <2>7, <3>1 DEF TypeOK
  <2>11. answer' \in [Command -> Answer]
    <3>1. "broken" \in Answer
      BY DEF Answer
    <3>2. QED
      BY <2>7, <3>1, AnsweredType
  <2>12. ASSUME NEW i \in added
         PROVE  i \in Nat \ {0} /\ new[i - base] \in Command
    <3>1. i \in Nat \ {0} /\ i - base \in 1 .. Len(new)
      BY <2>5, <2>6, <2>12
    <3>2. QED
      BY <2>5, <3>1
  <2> HIDE DEF added
  <2>13. /\ DOMAIN items_to_response' = Replica
         /\ \A q \in Replica : \A i \in DOMAIN items_to_response'[q] :
                i \in Nat \ {0} /\ items_to_response'[q][i] \in Command
    BY <2>7, <2>12 DEF TypeOK
  <2>14. QED
    BY <1>1, <2>4, <2>9, <2>10, <2>11, <2>13 DEF TypeOK, IsMessageBag, Idle
<1>4. QED
  BY <1>2, <1>3 DEF EndLeaderTick

\* Standing for the next term preserves the types.
LEMMA EndExpiredTickType ==
  ASSUME TypeOK, NEW n \in Replica, EndExpiredTick(n)
  PROVE  TypeOK'
<1> DEFINE s == BecomeCandidate(node[n], n)
<1>1. /\ node' = [node EXCEPT ![n] = s]
      /\ messages' = Send(messages, RequestVoteToAll(n, s))
      /\ tick' = Idle
      /\ UNCHANGED <<inbox, clientVars, readVars>>
      /\ node[n].term < MaxTerm
  BY DEF TimerMayExpire, EndExpiredTick
<1>2. s \in State
  BY <1>1, RoleTypes DEF TypeOK
<1> HIDE DEF s
<1>3. RequestVoteToAll(n, s) \subseteq Message
  BY <1>2, LogTypes DEF RequestVoteToAll, Message, RequestVoteRequest, State
<1>4. IsMessageBag(messages')
  BY <1>1, <1>3, SendBags DEF TypeOK, IsMessageBag
<1>5. QED
  BY <1>1, <1>2, <1>4 DEF TypeOK, IsMessageBag, clientVars, readVars, Idle

\* AddCommand and GetPersistentCommands preserve the types.
LEMMA CallType ==
  ASSUME TypeOK, NEW n \in Replica, Call(n)
  PROVE  TypeOK'
<1>1. ASSUME NEW c \in Command, AddCommand(n, c)
      PROVE  TypeOK'
  <2>1. "waiting" \in Answer
    BY DEF Answer
  <2>2. answer' \in [Command -> Answer]
    BY <1>1, <2>1 DEF AddCommand, TypeOK
  <2>3. incoming_commands' \in [Replica -> Seq(Command)]
    BY <1>1 DEF AddCommand, TypeOK
  <2>4. QED
    BY <1>1, <2>2, <2>3 DEF AddCommand, TypeOK, replicaVars, readVars
<1>2. ASSUME NEW r \in Reader, NEW q \in Query, GetPersistentCommands(n, r, q)
      PROVE  TypeOK'
  <2>1. q.from \in Nat /\ q.count \in Nat
    BY QueryAssumption
  <2>2. QED
    BY <1>2, <2>1 DEF GetPersistentCommands, TypeOK, replicaVars, clientVars
<1>3. QED
  BY <1>1, <1>2 DEF Call

\* The initial state is well-typed.
LEMMA TypeInit == Init => TypeOK
<1> SUFFICES ASSUME Init PROVE TypeOK
  OBVIOUS
<1>1. NewNode \in State
  BY BoundTypes DEF NewNode, State
<1>2. IsMessageBag(EmptyBag)
  BY EmptyBags
<1>3. << >> \in Seq(Command)
  OBVIOUS
<1>4. QED
  BY <1>1, <1>2, <1>3 DEF Init, TypeOK, IsMessageBag, Idle, NotAsked, Answer

\* Every step preserves the types.
LEMMA TypeStep == TypeOK /\ [Next]_vars => TypeOK'
<1> SUFFICES ASSUME TypeOK, [Next]_vars PROVE TypeOK'
  OBVIOUS
<1>1. CASE UNCHANGED vars
  BY <1>1 DEF TypeOK, vars
<1>2. ASSUME NEW n \in Replica, Call(n) \/ BeginTick(n) \/ Receive(n) \/ EndTick(n)
      PROVE  TypeOK'
  <2>1. CASE Call(n)
    BY <2>1, CallType
  <2>2. CASE BeginTick(n)
    BY <2>2, BeginTickType
  <2>3. CASE Receive(n)
    BY <2>3, AppendEntriesRequestType, RequestVoteRequestType, AppendEntriesResponseType,
       RequestVoteResponseType DEF Receive
  <2>4. CASE EndTick(n)
    <3>1. CASE EndLeaderTick(n)
      BY <3>1, EndLeaderTickType
    <3>2. CASE EndQuietTick(n)
      BY <3>2 DEF EndQuietTick, TypeOK, clientVars, readVars, Idle
    <3>3. CASE EndExpiredTick(n)
      BY <3>3, EndExpiredTickType
    <3>4. QED
      BY <2>4, <3>1, <3>2, <3>3 DEF EndTick
  <2>5. QED
    BY <1>2, <2>1, <2>2, <2>3, <2>4
<1>3. QED
  BY <1>1, <1>2 DEF Next

\* Every reachable state is well-typed: in particular the bags of messages stay
\* bags, terms stay within the bound, and the indices that wrap around in the
\* code stay natural numbers.
THEOREM TypeCorrect == Spec => []TypeOK
<1>1. QED
  BY TypeInit, TypeStep, PTL DEF Spec
-----------------------------------------------------------------------------
(***************************************************************************)
(* What a step does.  One lemma for each handler and each part of a tick   *)
(* names the states it goes through and what it sends; the proofs of       *)
(* the properties start from here.                                         *)
(***************************************************************************)
\* A higher term makes a follower of that term; no other changes anything.
LEMMA AdoptTermFacts ==
  ASSUME NEW s \in State, NEW t \in Term
  PROVE  /\ AdoptTerm(s, t) \in State
         /\ AdoptTerm(s, t).log = s.log
         /\ AdoptTerm(s, t).commitIndex = s.commitIndex
         /\ AdoptTerm(s, t).term >= s.term
         /\ AdoptTerm(s, t).term >= t
         /\ AdoptTerm(s, t).term = s.term => AdoptTerm(s, t) = s
         /\ AdoptTerm(s, t).role # "follower" => AdoptTerm(s, t) = s
         /\ AdoptTerm(s, t) # s => /\ AdoptTerm(s, t).votedFor = None
                                   /\ AdoptTerm(s, t).votes = {}
                                   /\ AdoptTerm(s, t).matchIndex = Zero
<1>1. s.term \in Nat /\ t \in Nat
  BY BoundTypes DEF State
<1>2. CASE s.term < t
  <2>1. AdoptTerm(s, t) = BecomeFollower([s EXCEPT !.term = t])
    BY <1>2 DEF AdoptTerm
  <2>2. /\ AdoptTerm(s, t).term = t
        /\ AdoptTerm(s, t).log = s.log
        /\ AdoptTerm(s, t).commitIndex = s.commitIndex
        /\ AdoptTerm(s, t).role = "follower"
        /\ AdoptTerm(s, t).votedFor = None
        /\ AdoptTerm(s, t).votes = {}
        /\ AdoptTerm(s, t).matchIndex = Zero
    BY <2>1 DEF BecomeFollower, State
  <2>3. QED
    BY <1>1, <1>2, <2>2, RoleTypes
<1>3. CASE ~ (s.term < t)
  <2>1. AdoptTerm(s, t) = s
    BY <1>3 DEF AdoptTerm
  <2>2. QED
    BY <1>1, <1>3, <2>1
<1>4. QED
  BY <1>2, <1>3

\* The requests in transit have well-typed senders, terms and items.
LEMMA RequestFacts ==
  ASSUME TypeOK, NEW m \in InTransit, m.type = "AppendEntriesRequest"
  PROVE  m \in AppendEntriesRequest /\ m.from \in Replica /\ m.term \in Term
         /\ m.prev \in Nat /\ m.entries \in Seq(Item)
<1>1. m \in Message
  BY DEF TypeOK, InTransit
<1>2. m \in AppendEntriesRequest
  BY <1>1 DEF Message, RequestVoteRequest, AppendEntriesResponse, RequestVoteResponse
<1>3. QED
  BY <1>2 DEF AppendEntriesRequest

\* After a message is handled, what is in transit was before, or is sent.
LEMMA ReceiveTransit ==
  ASSUME TypeOK, NEW n \in Replica, NEW m \in BagToSet(inbox), Takes(n, m),
         NEW s \in State, NEW reset \in BOOLEAN, NEW A, A \subseteq Message,
         Becomes(n, s, reset, A)
  PROVE  InTransit' \subseteq InTransit \cup A
BY TakesType, BecomesType DEF InTransit

\* Handling a message: it is one for the replica in its tick, what is sent
\* goes with what was in flight, and only this replica's state changes.
Handled(n, t, A) ==
    /\ node' = [node EXCEPT ![n] = t]
    /\ InTransit' \subseteq InTransit \cup A
    /\ BagToSet(inbox') \subseteq BagToSet(inbox)
    /\ tick.node = n /\ tick'.node = n

LEMMA HandledFacts ==
  ASSUME TypeOK, NEW n \in Replica, NEW m \in BagToSet(inbox), Takes(n, m),
         NEW t \in State, NEW reset \in BOOLEAN, NEW A, A \subseteq Message,
         Becomes(n, t, reset, A)
  PROVE  Handled(n, t, A)
<1>1. tick' = [tick EXCEPT !.timerReset = @ \/ reset] /\ node' = [node EXCEPT ![n] = t]
  BY Zenon DEF Becomes
<1>2. tick'.node = tick.node
  BY <1>1 DEF TypeOK
<1>3. InTransit' \subseteq InTransit \cup A
  BY ReceiveTransit
<1>4. QED
  BY <1>1, <1>2, <1>3, TakesType DEF Handled

\* AppendEntries: the state s after the term, t after the items, and the reply.
AppendEntriesRequestEffect(n, m, s, t, accepted, matched) ==
    /\ s = AdoptTerm(node[n], m.term)
    /\ accepted => m.term = s.term /\ HasPrev(s.log, m.prev, m.prevTerm)
    /\ t = IF accepted THEN AcceptEntries(s, m) ELSE s
    /\ t.term = s.term /\ t.role = s.role /\ t.votedFor = s.votedFor
    /\ t.votes = s.votes /\ t.matchIndex = s.matchIndex
    /\ t.log = IF accepted THEN AppendItems(s.log, m.prev, m.entries) ELSE s.log
    /\ matched <= Len(t.log)
    /\ accepted => matched <= m.prev + Len(m.entries)
    /\ AppendEntriesReply(m, t.term, accepted, IF accepted THEN matched ELSE 0)
           \in AppendEntriesResponse
    /\ Handled(n, t, {AppendEntriesReply(m, t.term, accepted,
                                         IF accepted THEN matched ELSE 0)})
    /\ \/ UNCHANGED <<incoming_commands, answer>>
       \/ s.role # "leader" /\ Redirect(n, m.from)

LEMMA AppendEntriesRequestStep ==
  ASSUME TypeOK, NEW n \in Replica, NEW m \in BagToSet(inbox), HandleAppendEntriesRequest(n, m)
  PROVE  /\ m \in AppendEntriesRequest /\ m \in InTransit
         /\ \E s, t \in State, accepted \in BOOLEAN, matched \in Nat :
                AppendEntriesRequestEffect(n, m, s, t, accepted, matched)
         /\ UNCHANGED <<items_to_response, query, reply>>
<1> DEFINE s == AdoptTerm(node[n], m.term)
           stale == m.term < s.term
           accepted == ~ stale /\ HasPrev(s.log, m.prev, m.prevTerm)
           t == IF accepted THEN AcceptEntries(s, m) ELSE s
           sent == m.prev + Len(m.entries)
           matched == IF LastLogIndex(t.log) <= sent THEN LastLogIndex(t.log) ELSE sent
           r == AppendEntriesReply(m, t.term, accepted, IF accepted THEN matched ELSE 0)
<1>1. m \in AppendEntriesRequest /\ m \in InTransit /\ Takes(n, m)
  BY TakesType DEF HandleAppendEntriesRequest, Message, AppendEntriesRequest,
       RequestVoteRequest, AppendEntriesResponse, RequestVoteResponse, InTransit
<1>2. /\ Becomes(n, t, TRUE, {r})
      /\ \/ UNCHANGED <<incoming_commands, answer>>
         \/ s.role # "leader" /\ Redirect(n, m.from)
      /\ UNCHANGED <<items_to_response, query, reply>>
  BY Zenon DEF HandleAppendEntriesRequest, readVars
<1>3. /\ s \in State /\ s.term \in Nat /\ m.term \in Nat /\ s.term >= m.term
      /\ s.log \in Seq(Item)
  <2>1. node[n] \in State /\ m.term \in Term
    BY <1>1 DEF TypeOK, AppendEntriesRequest
  <2>2. s \in State /\ s.term >= m.term
    BY <2>1, AdoptTermFacts
  <2> HIDE DEF s
  <2>3. QED
    BY <2>1, <2>2, BoundTypes DEF State
<1>4. s = AdoptTerm(node[n], m.term)
  OBVIOUS
<1> HIDE DEF s
<1>5. /\ accepted \in BOOLEAN
      /\ accepted => m.term = s.term /\ HasPrev(s.log, m.prev, m.prevTerm)
  BY <1>3 DEF HasPrev
<1>6. /\ t \in State
      /\ t.term = s.term /\ t.role = s.role /\ t.votedFor = s.votedFor
      /\ t.votes = s.votes /\ t.matchIndex = s.matchIndex
      /\ t.log = IF accepted THEN AppendItems(s.log, m.prev, m.entries) ELSE s.log
  <2>1. CASE accepted
    <3>1. t \in State
      BY <1>1, <1>3, <2>1, AcceptEntriesType DEF HasPrev
    <3>2. QED
      BY <1>3, <2>1, <3>1 DEF AcceptEntries, State
  <2>2. CASE ~ accepted
    BY <1>3, <2>2
  <2>3. QED
    BY <2>1, <2>2
<1>7. t = IF accepted THEN AcceptEntries(s, m) ELSE s
  OBVIOUS
<1> HIDE DEF t, accepted
<1>8. matched \in Nat /\ matched <= Len(t.log) /\ matched <= m.prev + Len(m.entries)
  <2>1. t.log \in Seq(Item) /\ Len(t.log) \in Nat
    BY <1>6 DEF State
  <2>2. sent \in Nat
    BY <1>1 DEF AppendEntriesRequest
  <2>3. QED
    BY <2>1, <2>2 DEF LastLogIndex
<1> HIDE DEF matched
<1>9. r \in AppendEntriesResponse /\ r \in Message
  BY <1>1, <1>5, <1>6, <1>8 DEF AppendEntriesReply, Message, AppendEntriesRequest,
       AppendEntriesResponse, State
<1> HIDE DEF r
<1>10. Handled(n, t, {r})
  BY <1>1, <1>2, <1>6, <1>9, HandledFacts
<1>11. QED
  BY <1>1, <1>2, <1>3, <1>4, <1>5, <1>6, <1>7, <1>8, <1>9, <1>10 DEF r, AppendEntriesRequestEffect

\* RequestVote: the vote is given in the request's term, to a log not behind.
RequestVoteRequestEffect(n, m, s, t, granted, u) ==
    /\ s = AdoptTerm(node[n], m.term)
    /\ granted => /\ m.term = s.term
                  /\ s.votedFor \in {None, m.from}
                  /\ UpToDate(s.log, m.lastTerm, m.lastIndex)
    /\ t = IF granted THEN [s EXCEPT !.votedFor = m.from] ELSE s
    /\ t.term = s.term /\ t.role = s.role /\ t.votes = s.votes
    /\ t.log = s.log /\ t.commitIndex = s.commitIndex
    /\ t.matchIndex = s.matchIndex
    /\ t.votedFor = IF granted THEN m.from ELSE s.votedFor
    /\ RequestVoteReply(m, u, granted, IF granted THEN m.term ELSE 0)
           \in RequestVoteResponse
    /\ Handled(n, t, {RequestVoteReply(m, u, granted, IF granted THEN m.term ELSE 0)})

LEMMA RequestVoteRequestStep ==
  ASSUME TypeOK, NEW n \in Replica, NEW m \in BagToSet(inbox), HandleRequestVoteRequest(n, m)
  PROVE  /\ m \in RequestVoteRequest /\ m \in InTransit
         /\ \E s, t \in State, granted \in BOOLEAN, u \in Term :
                RequestVoteRequestEffect(n, m, s, t, granted, u)
         /\ UNCHANGED <<clientVars, readVars>>
<1> DEFINE s == AdoptTerm(node[n], m.term)
           stale == m.term < s.term
           granted == ~ stale /\ MayVote(s, m) /\ UpToDate(s.log, m.lastTerm, m.lastIndex)
           t == IF granted THEN [s EXCEPT !.votedFor = m.from] ELSE s
           u == IF stale THEN 0 ELSE t.term
           r == RequestVoteReply(m, u, granted, IF granted THEN m.term ELSE 0)
           reset == node[n].term < m.term
<1>1. m \in RequestVoteRequest /\ m \in InTransit /\ Takes(n, m)
  BY TakesType DEF HandleRequestVoteRequest, Message, AppendEntriesRequest,
       RequestVoteRequest, AppendEntriesResponse, RequestVoteResponse, InTransit
<1>2. Becomes(n, t, reset, {r}) /\ UNCHANGED <<clientVars, readVars>>
  BY Zenon DEF HandleRequestVoteRequest
<1>3. s \in State /\ s.term \in Nat /\ m.term \in Nat /\ s.term >= m.term
  <2>1. node[n] \in State /\ m.term \in Term
    BY <1>1 DEF TypeOK, RequestVoteRequest
  <2>2. s \in State /\ s.term >= m.term
    BY <2>1, AdoptTermFacts
  <2> HIDE DEF s
  <2>3. QED
    BY <2>1, <2>2, BoundTypes DEF State
<1>4. s = AdoptTerm(node[n], m.term)
  OBVIOUS
<1> HIDE DEF s
<1>5. /\ granted \in BOOLEAN
      /\ granted => /\ m.term = s.term
                    /\ s.votedFor \in {None, m.from}
                    /\ UpToDate(s.log, m.lastTerm, m.lastIndex)
  BY <1>3 DEF MayVote, UpToDate
<1>6. /\ t \in State
      /\ t.term = s.term /\ t.role = s.role /\ t.votes = s.votes
      /\ t.log = s.log /\ t.commitIndex = s.commitIndex /\ t.matchIndex = s.matchIndex
      /\ t.votedFor = IF granted THEN m.from ELSE s.votedFor
  BY <1>1, <1>3 DEF State, RequestVoteRequest
<1>7. t = IF granted THEN [s EXCEPT !.votedFor = m.from] ELSE s
  OBVIOUS
<1> HIDE DEF t, granted
<1>8. u \in Term /\ reset \in BOOLEAN
  BY <1>6, BoundTypes DEF State
<1> HIDE DEF u, reset
<1>9. r \in RequestVoteResponse /\ r \in Message
  BY <1>1, <1>5, <1>8, BoundTypes DEF RequestVoteReply, Message, RequestVoteRequest,
       RequestVoteResponse
<1> HIDE DEF r
<1>10. Handled(n, t, {r})
  BY <1>1, <1>2, <1>6, <1>8, <1>9, HandledFacts
<1>11. QED
  BY <1>1, <1>2, <1>3, <1>4, <1>5, <1>6, <1>7, <1>8, <1>9, <1>10 DEF r, RequestVoteRequestEffect

\* An answer to AppendEntries: a leader may take its index for matched.
AppendEntriesResponseEffect(n, m, s, t) ==
    /\ s = AdoptTerm(node[n], m.term)
    /\ t.term = s.term /\ t.role = s.role /\ t.votedFor = s.votedFor
    /\ t.votes = s.votes /\ t.log = s.log /\ t.commitIndex = s.commitIndex
    /\ \A q \in Replica :
           \/ t.matchIndex[q] = s.matchIndex[q]
           \/ /\ s.role = "leader" /\ m.success /\ q = m.from
              /\ t.matchIndex[q] = m.matched
    /\ Handled(n, t, {})

LEMMA AppendEntriesResponseStep ==
  ASSUME TypeOK, NEW n \in Replica, NEW m \in BagToSet(inbox), HandleAppendEntriesResponse(n, m)
  PROVE  /\ m \in AppendEntriesResponse /\ m \in InTransit
         /\ \E s, t \in State : AppendEntriesResponseEffect(n, m, s, t)
         /\ UNCHANGED <<clientVars, readVars>>
<1> DEFINE s == AdoptTerm(node[n], m.term)
           match == IF m.matched <= s.matchIndex[m.from] THEN s.matchIndex[m.from]
                                                         ELSE m.matched
           next == IF match + 1 <= s.nextIndex[m.from] THEN s.nextIndex[m.from]
                                                       ELSE match + 1
           t == IF s.role # "leader" THEN s
                ELSE IF m.success
                THEN [s EXCEPT !.matchIndex[m.from] = match, !.nextIndex[m.from] = next]
                ELSE [s EXCEPT !.nextIndex[m.from] = Decrement(@)]
           reset == node[n].term < m.term
<1>1. m \in AppendEntriesResponse /\ m \in InTransit /\ Takes(n, m)
  BY TakesType DEF HandleAppendEntriesResponse, Message, AppendEntriesRequest,
       RequestVoteRequest, AppendEntriesResponse, RequestVoteResponse, InTransit
<1>2. Becomes(n, t, reset, {}) /\ UNCHANGED <<clientVars, readVars>>
  BY Zenon DEF HandleAppendEntriesResponse
<1>3. s \in State
  BY <1>1, RoleTypes DEF TypeOK, AppendEntriesResponse
<1>4. s = AdoptTerm(node[n], m.term)
  OBVIOUS
<1> HIDE DEF s
<1>5. /\ match \in Nat /\ next \in Nat
      /\ match = s.matchIndex[m.from] \/ match = m.matched
  BY <1>1, <1>3 DEF State, AppendEntriesResponse
<1>6. Decrement(s.nextIndex[m.from]) \in Nat
  BY <1>1, <1>3, DecrementType DEF State, AppendEntriesResponse
<1> HIDE DEF match, next
<1>7. t \in State
  BY <1>1, <1>3, <1>5, <1>6 DEF State
<1>8. /\ t.term = s.term /\ t.role = s.role /\ t.votedFor = s.votedFor
      /\ t.votes = s.votes /\ t.log = s.log /\ t.commitIndex = s.commitIndex
  BY <1>3 DEF State
<1>9. \A q \in Replica :
          \/ t.matchIndex[q] = s.matchIndex[q]
          \/ /\ s.role = "leader" /\ m.success /\ q = m.from
             /\ t.matchIndex[q] = m.matched
  BY <1>3, <1>5 DEF State
<1>10. reset \in BOOLEAN
  OBVIOUS
<1> HIDE DEF t, reset
<1>11. Handled(n, t, {})
  BY <1>1, <1>2, <1>7, <1>10, HandledFacts
<1>12. QED
  BY <1>1, <1>2, <1>3, <1>4, <1>7, <1>8, <1>9, <1>11 DEF AppendEntriesResponseEffect

\* A vote: it does not count, or is counted, or makes the leader.
RequestVoteResponseEffect(n, m, s, t, A) ==
    /\ s = AdoptTerm(node[n], m.term)
    /\ t.term = s.term /\ t.log = s.log /\ t.commitIndex = s.commitIndex
    /\ Handled(n, t, A)
    /\ \/ t = s /\ A = {}
       \/ /\ Counts(s, m) /\ A = {}
          /\ t.role = s.role /\ t.votedFor = s.votedFor
          /\ t.votes = s.votes \cup {m.from} /\ t.matchIndex = s.matchIndex
       \/ /\ Counts(s, m) /\ IsQuorum(s.votes \cup {m.from})
          /\ t.role = "leader" /\ t.votedFor = None
          /\ t.votes = {} /\ t.matchIndex = Zero
          /\ A = AppendEntriesToAll(n, t, Zero)

LEMMA RequestVoteResponseStep ==
  ASSUME TypeOK, NEW n \in Replica, NEW m \in BagToSet(inbox), HandleRequestVoteResponse(n, m)
  PROVE  /\ m \in RequestVoteResponse /\ m \in InTransit
         /\ \E s, t \in State, A \in SUBSET AppendEntriesRequest :
                RequestVoteResponseEffect(n, m, s, t, A)
         /\ UNCHANGED <<clientVars, readVars>>
<1> DEFINE s == AdoptTerm(node[n], m.term)
           t == [s EXCEPT !.votes = @ \cup {m.from}]
           l == BecomeLeader(t)
           reset == node[n].term < m.term
           A == AppendEntriesToAll(n, l, Zero)
<1>1. m \in RequestVoteResponse /\ m \in InTransit /\ Takes(n, m)
  BY TakesType DEF HandleRequestVoteResponse, Message, AppendEntriesRequest,
       RequestVoteRequest, AppendEntriesResponse, RequestVoteResponse, InTransit
<1>2. /\ \/ Becomes(n, s, reset, {})
         \/ Counts(s, m) /\ IsQuorum(t.votes) /\ Becomes(n, l, reset, A)
         \/ Counts(s, m) /\ Becomes(n, t, reset, {})
      /\ UNCHANGED <<clientVars, readVars>>
  BY Zenon DEF HandleRequestVoteResponse
<1>3. s \in State /\ s = AdoptTerm(node[n], m.term)
  BY <1>1, RoleTypes DEF TypeOK, RequestVoteResponse
<1>4. reset \in BOOLEAN
  OBVIOUS
<1> HIDE DEF s, reset
<1>5. /\ t \in State
      /\ t.term = s.term /\ t.log = s.log /\ t.commitIndex = s.commitIndex
      /\ t.role = s.role /\ t.votedFor = s.votedFor
      /\ t.votes = s.votes \cup {m.from} /\ t.matchIndex = s.matchIndex
  BY <1>1, <1>3 DEF State, RequestVoteResponse
<1> HIDE DEF t
<1>6. l \in State
  BY <1>5, RoleTypes
<1>7. /\ l.term = s.term /\ l.log = s.log /\ l.commitIndex = s.commitIndex
      /\ l.role = "leader" /\ l.votedFor = None /\ l.votes = {} /\ l.matchIndex = Zero
  BY <1>5 DEF BecomeLeader, State
<1> HIDE DEF l
<1>8. A \subseteq AppendEntriesRequest /\ A \subseteq Message
  BY <1>6, BoundTypes, AppendEntriesToAllType DEF Message
<1>9. A = AppendEntriesToAll(n, l, Zero)
  OBVIOUS
<1> HIDE DEF A
<1>10. CASE Becomes(n, s, reset, {})
  <2>1. Handled(n, s, {})
    BY <1>1, <1>3, <1>4, <1>10, HandledFacts
  <2>2. QED
    BY <1>1, <1>2, <1>3, <2>1 DEF RequestVoteResponseEffect
<1>11. CASE Counts(s, m) /\ Becomes(n, t, reset, {})
  <2>1. Handled(n, t, {})
    BY <1>1, <1>4, <1>5, <1>11, HandledFacts
  <2>2. QED
    BY <1>1, <1>2, <1>3, <1>5, <1>11, <2>1
       DEF RequestVoteResponseEffect
<1>12. CASE Counts(s, m) /\ IsQuorum(t.votes) /\ Becomes(n, l, reset, A)
  <2>1. Handled(n, l, A)
    BY <1>1, <1>4, <1>6, <1>8, <1>12, HandledFacts
  <2>2. QED
    BY <1>1, <1>2, <1>3, <1>5, <1>6, <1>7, <1>8, <1>9, <1>12, <2>1
       DEF RequestVoteResponseEffect
<1>13. QED
  BY <1>2, <1>10, <1>11, <1>12

\* The start of a tick takes messages to n out of the network and sends none; a
\* leader's commit index moves, and nothing else of its state.
LEMMA BeginTickStep ==
  ASSUME TypeOK, NEW n \in Replica, BeginTick(n)
  PROVE  /\ InTransit' \subseteq InTransit
         /\ \A m \in BagToSet(inbox') : m.to = n
         /\ tick'.node = n
         /\ ServeReads(n)
         /\ UNCHANGED <<incoming_commands, query>>
         /\ \/ UNCHANGED <<node, answer, items_to_response>>
            \/ /\ node[n].role = "leader"
               /\ Commit(n)
               /\ \E t \in State :
                      /\ node' = [node EXCEPT ![n] = t]
                      /\ t = [node[n] EXCEPT !.commitIndex = CommitTarget(node[n])]
<1>1. PICK B \in Batches(n) : inbox' = B (+) Own(n)
  BY DEF BeginTick
<1>2. /\ IsMessageBag(inbox') /\ BagToSet(inbox') \subseteq BagToSet(messages)
      /\ BagToSet(inbox') = BagToSet(B) \cup BagToSet(Own(n))
  BY <1>1, BatchTypes, AddBags
<1>3. BagToSet(messages') \subseteq BagToSet(messages)
  BY <1>2, SubtractBags DEF BeginTick, TypeOK, IsMessageBag
<1>4. \A m \in BagToSet(Own(n)) : m.to = n
  BY DEF Own, Copies, BagToSet
<1>5. \A m \in BagToSet(B) : m.to = n
  <2>1. \A S \in SUBSET Foreign(messages, n) :
            /\ \A m \in BagToSet(Copies(S)) : m.to = n
            /\ \A m \in BagToSet(SetToBag(S)) : m.to = n
    BY DEF Foreign, Copies, BagToSet, SetToBag
  <2>2. \E S \in SUBSET Foreign(messages, n) : B = Copies(S) \/ B = SetToBag(S)
    BY DEF Batches
  <2>3. QED
    BY <2>1, <2>2
<1>6. ASSUME Commit(n)
      PROVE  \E t \in State : /\ node' = [node EXCEPT ![n] = t]
                              /\ t = [node[n] EXCEPT !.commitIndex = CommitTarget(node[n])]
  <2> DEFINE upto == CommitTarget(node[n])
             s == node[n]
  <2>1. upto \in Nat
    BY CommitTargetType DEF TypeOK
  <2>2. node' = [node EXCEPT ![n].commitIndex = upto]
    BY <1>6 DEF Commit
  <2> HIDE DEF upto
  <2>3. node' = [node EXCEPT ![n] = [node[n] EXCEPT !.commitIndex = upto]]
    BY <2>2
  <2>4. s \in State
    BY DEF TypeOK
  <2> HIDE DEF s
  <2>5. [s EXCEPT !.commitIndex = upto] \in State
    BY <2>1, <2>4 DEF State
  <2>6. QED
    BY <2>3, <2>5 DEF s, upto
<1>7. /\ tick'.node = n /\ ServeReads(n) /\ UNCHANGED <<incoming_commands, query>>
      /\ \/ UNCHANGED <<node, answer, items_to_response>>
         \/ node[n].role = "leader" /\ Commit(n)
  BY DEF BeginTick
<1>8. QED
  BY <1>2, <1>3, <1>4, <1>5, <1>6, <1>7 DEF InTransit

\* The end of a leader's tick sends requests cut from its log, then puts the new
\* commands behind it.
LEMMA EndLeaderTickStep ==
  ASSUME TypeOK, NEW n \in Replica, EndLeaderTick(n)
  PROVE  /\ UNCHANGED <<inbox, readVars>>
         /\ BagToSet(inbox) = {}
         /\ \/ UNCHANGED <<node, messages, clientVars>>
            \/ /\ node[n].role = "leader"
               /\ AddNewCommandsToLog(n)
               /\ \E t \in State, read \in [Replica -> Term], tail \in Seq(Item) :
                      /\ tail = NewItems(node[n], incoming_commands[n])
                      /\ Len(tail) = Len(incoming_commands[n])
                      /\ t = [node[n] EXCEPT !.log = node[n].log \o tail]
                      /\ node' = [node EXCEPT ![n] = t]
                      /\ AppendEntriesToAll(n, node[n], read) \subseteq AppendEntriesRequest
                      /\ InTransit' \subseteq InTransit \cup AppendEntriesToAll(n, node[n], read)
<1>1. UNCHANGED <<inbox, readVars>> /\ BagToSet(inbox) = {}
  BY EmptyBags DEF EndLeaderTick
<1>2. CASE UNCHANGED <<node, messages, clientVars>>
  BY <1>1, <1>2
<1>3. ASSUME NEW read \in TermsRead(node[n]), node[n].role = "leader",
             messages' = Send(messages, AppendEntriesToAll(n, node[n], read)),
             AddNewCommandsToLog(n)
      PROVE  \E t \in State, r \in [Replica -> Term], tail \in Seq(Item) :
                 /\ tail = NewItems(node[n], incoming_commands[n])
                 /\ Len(tail) = Len(incoming_commands[n])
                 /\ t = [node[n] EXCEPT !.log = node[n].log \o tail]
                 /\ node' = [node EXCEPT ![n] = t]
                 /\ AppendEntriesToAll(n, node[n], r) \subseteq AppendEntriesRequest
                 /\ InTransit' \subseteq InTransit \cup AppendEntriesToAll(n, node[n], r)
  <2> DEFINE s == node[n]
             new == incoming_commands[n]
             tail == NewItems(s, new)
             log == s.log \o tail
             A == AppendEntriesToAll(n, s, read)
  <2>1. s \in State /\ new \in Seq(Command)
    BY DEF TypeOK
  <2>2. read \in [Replica -> Term]
    BY <1>3, BoundTypes DEF TermsRead
  <2>3. node' = [node EXCEPT ![n].log = log] /\ messages' = Send(messages, A)
    BY <1>3 DEF AddNewCommandsToLog
  <2>4. node' = [node EXCEPT ![n] = [s EXCEPT !.log = log]]
    BY <2>3
  <2> HIDE DEF s, new
  <2>5. A \subseteq AppendEntriesRequest /\ A \subseteq Message
    BY <2>1, <2>2, AppendEntriesToAllType DEF Message
  <2> HIDE DEF A
  <2>6. BagToSet(messages') \subseteq BagToSet(messages) \cup A
    BY <2>3, <2>5, SendBags DEF TypeOK, IsMessageBag
  <2>7. InTransit' \subseteq InTransit \cup A
    BY <1>1, <2>6 DEF InTransit
  <2>8. tail \in Seq(Item) /\ Len(tail) = Len(new)
    BY <2>1 DEF NewItems, Item, State
  <2> HIDE DEF tail
  <2>9. log \in Seq(Item)
    BY <2>1, <2>8 DEF State
  <2> HIDE DEF log
  <2>10. [s EXCEPT !.log = log] \in State
    BY <2>1, <2>9 DEF State
  <2>11. QED
    BY <2>2, <2>4, <2>5, <2>7, <2>8, <2>10 DEF s, new, tail, log, A
<1>4. QED
  BY <1>1, <1>2, <1>3 DEF EndLeaderTick

\* The end of a tick with the timer expired makes a candidate of the next term.
LEMMA EndExpiredTickStep ==
  ASSUME TypeOK, NEW n \in Replica, EndExpiredTick(n)
  PROVE  /\ UNCHANGED <<inbox, clientVars, readVars>>
         /\ BagToSet(inbox) = {}
         /\ n \in Standing[node[n].term + 1] /\ node[n].term + 1 \in 1 .. MaxTerm
         /\ \E t \in State :
                /\ node' = [node EXCEPT ![n] = t]
                /\ t.term = node[n].term + 1 /\ t.role = "candidate" /\ t.votedFor = n
                /\ t.votes = {} /\ t.matchIndex = Zero
                /\ t.log = node[n].log /\ t.commitIndex = node[n].commitIndex
                /\ RequestVoteToAll(n, t) \subseteq RequestVoteRequest
                /\ InTransit' \subseteq InTransit \cup RequestVoteToAll(n, t)
<1> DEFINE t == BecomeCandidate(node[n], n)
           A == RequestVoteToAll(n, t)
<1>1. /\ node' = [node EXCEPT ![n] = t]
      /\ messages' = Send(messages, A)
      /\ UNCHANGED <<inbox, clientVars, readVars>>
      /\ inbox = EmptyBag
      /\ node[n].term < MaxTerm
      /\ n \in Standing[node[n].term + 1]
  BY DEF TimerMayExpire, EndExpiredTick
<1>2. /\ node[n] \in State /\ node[n].term \in Nat /\ MaxTerm \in Nat
      /\ t \in State
  <2>1. node[n] \in State
    BY DEF TypeOK
  <2>2. t \in State
    BY <1>1, <2>1, RoleTypes
  <2>3. node[n].term \in Nat /\ MaxTerm \in Nat
    BY <2>1, BoundTypes DEF State
  <2>4. QED
    BY <2>1, <2>2, <2>3
<1>3. /\ t.term = node[n].term + 1 /\ t.role = "candidate" /\ t.votedFor = n
      /\ t.votes = {} /\ t.matchIndex = Zero
      /\ t.log = node[n].log /\ t.commitIndex = node[n].commitIndex
  <2> DEFINE s == node[n]
  <2>1. s \in State /\ t = BecomeCandidate(s, n)
    BY <1>2
  <2> HIDE DEF s, t
  <2>2. /\ t.term = s.term + 1 /\ t.role = "candidate" /\ t.votedFor = n
        /\ t.votes = {} /\ t.matchIndex = Zero
        /\ t.log = s.log /\ t.commitIndex = s.commitIndex
    BY <2>1 DEF BecomeCandidate, State
  <2>3. QED
    BY <2>2 DEF s
<1> HIDE DEF t
<1>4. A \subseteq RequestVoteRequest /\ A \subseteq Message
  <2>1. LastLogIndex(t.log) \in Nat /\ LastLogTerm(t.log) \in Term /\ t.term \in Term
    BY <1>2, LogTypes DEF State
  <2>2. QED
    BY <2>1 DEF RequestVoteToAll, Message, RequestVoteRequest
<1> HIDE DEF A
<1>5. BagToSet(messages') \subseteq BagToSet(messages) \cup A
  BY <1>1, <1>4, SendBags DEF TypeOK, IsMessageBag
<1>6. InTransit' \subseteq InTransit \cup A
  BY <1>1, <1>5 DEF InTransit
<1>7. node[n].term + 1 \in 1 .. MaxTerm
  BY <1>1, <1>2
<1>8. QED
  BY <1>1, <1>2, <1>3, <1>4, <1>6, <1>7, EmptyBags DEF A
=============================================================================
