------------------- MODULE ConsensusNodeElectionProofs -------------------
(***************************************************************************)
(* Votes and leaders of ConsensusNode, proved for every value of its       *)
(* constants: any timers may expire, any message may be late or lost.      *)
(***************************************************************************)
EXTENDS ConsensusNodeProofs

\* The messages a tick has taken are for the replica that is in it.
InboxInv == \A m \in BagToSet(inbox) : m.to = tick.node

\* A candidate votes for itself.
OwnVote == \A n \in Replica : node[n].role = "candidate" => node[n].votedFor = n

\* W has every vote that was ever given, as <<voter, candidate, term>>: all that
\* may still be counted, and a majority for every leader.  A voter has two votes in
\* one term only if one of them is its own; it stands by its last one.
Ballots(W) ==
    /\ \A v, c \in Replica, t \in Term : Vote(v, c, t) => <<v, c, t>> \in W
    /\ \A n \in Replica : node[n].role = "leader" =>
           IsQuorum({v \in Replica : <<v, n, node[n].term>> \in W})
    /\ \A v, c, d \in Replica, t \in Term :
           <<v, c, t>> \in W /\ <<v, d, t>> \in W => c = d \/ v = c \/ v = d
    /\ \A v, c \in Replica, t \in Term : <<v, c, t>> \in W =>
           /\ t <= node[v].term
           /\ t = node[v].term =>
                  node[v].votedFor = c \/ (c = v /\ node[v].role = "leader")

ElectionInv == InboxInv /\ VotesBacked /\ LeaderBacked /\ OwnVote /\ \E W : Ballots(W)

EInv == TypeOK /\ ElectionInv

\* What VoteKept says of one step.
KeepsVotes == \A n \in Replica :
    /\ node[n].term <= node'[n].term
    /\ node[n].term = node'[n].term =>
           \/ node'[n].votedFor = node[n].votedFor
           \/ node[n].votedFor = None
           \/ node[n].role = "candidate" /\ node'[n].role = "leader"
-----------------------------------------------------------------------------
(***************************************************************************)
(* A step of replica n to the state t, as elections see it.                *)
(***************************************************************************)
\* The term does not fall; within a term a vote stays and a leader leads; what
\* is counted was given; a candidate votes for itself, and a new leader has a
\* majority of votes.
Elects(n, t) ==
    /\ node[n].term <= t.term
    /\ node[n].term = t.term =>
           /\ \/ t.votedFor = node[n].votedFor
              \/ node[n].votedFor = None
              \/ node[n].role = "candidate" /\ t.role = "leader"
           /\ node[n].role = "leader" => t.role = "leader"
    /\ \A v \in t.votes : Vote(v, n, t.term)
    /\ t.role = "candidate" => t.votedFor = n
    /\ t.role = "leader" =>
           \/ node[n].role = "leader" /\ node[n].term = t.term
           \/ \E Q \in SUBSET Replica : IsQuorum(Q) /\ \A v \in Q : Vote(v, n, t.term)

\* The message m, if it grants a vote, is n's, for its term and the replica it
\* has voted for.
GrantedBy(n, t, m) ==
    m.type = "RequestVoteResponse" /\ m.granted =>
        m.from = n /\ m.candidateTerm = t.term /\ m.to = t.votedFor

\* Terms are numbers.
LEMMA TermFacts ==
  ASSUME NEW s \in State
  PROVE  s.term \in Nat
BY BoundTypes DEF State

\* A set of replicas that contains a majority is one.
LEMMA QuorumGrows ==
  ASSUME NEW S \in SUBSET Replica, NEW T \in SUBSET Replica, S \subseteq T, IsQuorum(S)
  PROVE  IsQuorum(T)
<1>1. IsFiniteSet(S) /\ IsFiniteSet(T)
  BY ReplicaAssumption, FS_Subset
<1>2. Cardinality(S) <= Cardinality(T)
  BY <1>1, FS_Subset
<1>3. Cardinality(S) \in Nat /\ Cardinality(T) \in Nat /\ Cardinality(Replica) \in Nat
  BY <1>1, ReplicaAssumption, FS_CardinalityType
<1>4. QED
  BY <1>2, <1>3 DEF IsQuorum

\* Every vote after the step was there before it, or has just been given by n.
LEMMA VotesBefore ==
  ASSUME TypeOK, NEW n \in Replica, NEW t \in State, Elects(n, t),
         node' = [node EXCEPT ![n] = t],
         \A m \in InTransit' : m \in InTransit \/ GrantedBy(n, t, m),
         NEW v \in Replica, NEW c \in Replica, NEW u \in Term, Vote(v, c, u)'
  PROVE  Vote(v, c, u) \/ (v = n /\ u = t.term /\ c = t.votedFor)
<1>1. CASE \E m \in InTransit' : /\ m.type = "RequestVoteResponse"
                                 /\ m.granted /\ m.from = v /\ m.to = c /\ m.candidateTerm = u
  <2>1. PICK m \in InTransit' : /\ m.type = "RequestVoteResponse"
                                /\ m.granted /\ m.from = v /\ m.to = c /\ m.candidateTerm = u
    BY <1>1
  <2>2. CASE m \in InTransit
    BY <2>1, <2>2 DEF Vote
  <2>3. CASE m \notin InTransit
    BY <2>1, <2>3 DEF GrantedBy
  <2>4. QED
    BY <2>2, <2>3
<1>2. CASE v \in node'[c].votes /\ node'[c].term = u
  <2>1. CASE c = n
    BY <1>2, <2>1 DEF TypeOK, Elects
  <2>2. CASE c # n
    BY <1>2, <2>2 DEF TypeOK, Vote
  <2>3. QED
    BY <2>1, <2>2
<1>3. QED
  BY <1>1, <1>2 DEF Vote

\* The vote that n stands by after the step joins those given before.
LEMMA BallotStep ==
  ASSUME TypeOK, OwnVote, NEW W, Ballots(W),
         NEW n \in Replica, NEW t \in State, Elects(n, t),
         node' = [node EXCEPT ![n] = t],
         \A m \in InTransit' : m \in InTransit \/ GrantedBy(n, t, m)
  PROVE  Ballots(W \cup {<<n, t.votedFor, t.term>>})'
<1> DEFINE X == W \cup {<<n, t.votedFor, t.term>>}
<1>1. /\ node'[n] = t
      /\ \A q \in Replica \ {n} : node'[q] = node[q]
      /\ \A q \in Replica : node[q].term \in Nat
      /\ t.term \in Nat /\ Term \subseteq Nat /\ None \notin Replica
      /\ node[n].term <= t.term
  BY BoundTypes, ReplicaAssumption DEF TypeOK, State, Elects
<1>2. ASSUME NEW v \in Replica, NEW c \in Replica, NEW u \in Term, Vote(v, c, u)'
      PROVE  <<v, c, u>> \in X
  <2>1. Vote(v, c, u) \/ (v = n /\ u = t.term /\ c = t.votedFor)
    BY <1>2, VotesBefore
  <2>2. QED
    BY <2>1 DEF Ballots
<1>3. ASSUME NEW q \in Replica, node'[q].role = "leader"
      PROVE  IsQuorum({v \in Replica : <<v, q, node'[q].term>> \in X})
  <2>1. CASE node[q].role = "leader" /\ node[q].term = node'[q].term
    <3>1. IsQuorum({v \in Replica : <<v, q, node[q].term>> \in W})
      BY <2>1 DEF Ballots
    <3>2. {v \in Replica : <<v, q, node[q].term>> \in W}
              \subseteq {v \in Replica : <<v, q, node'[q].term>> \in X}
      BY <2>1
    <3>3. QED
      BY <3>1, <3>2, QuorumGrows
  <2>2. CASE ~ (node[q].role = "leader" /\ node[q].term = node'[q].term)
    <3>1. q = n
      BY <1>1, <1>3, <2>2
    <3>2. PICK Q \in SUBSET Replica : IsQuorum(Q) /\ \A v \in Q : Vote(v, n, t.term)
      BY <1>1, <1>3, <2>2, <3>1 DEF Elects
    <3>3. Q \subseteq {v \in Replica : <<v, q, node'[q].term>> \in X}
      <4>1. t.term \in Term
        BY DEF State
      <4>2. \A v \in Q : <<v, n, t.term>> \in W
        BY <3>2, <4>1 DEF Ballots
      <4>3. QED
        BY <1>1, <3>1, <4>2
    <3>4. QED
      BY <3>2, <3>3, QuorumGrows
  <2>3. QED
    BY <2>1, <2>2
<1>4. ASSUME NEW v \in Replica, NEW c \in Replica, NEW u \in Term, <<v, c, u>> \in W
      PROVE  /\ u <= node[v].term
             /\ u = node[v].term =>
                    node[v].votedFor = c \/ (c = v /\ node[v].role = "leader")
  BY <1>4 DEF Ballots
<1>5. \/ t.votedFor = node[n].votedFor
      \/ node[n].votedFor = None
      \/ node[n].votedFor = n /\ t.role = "leader"
      \/ node[n].term # t.term
  BY DEF Elects, OwnVote
<1>6. ASSUME NEW c \in Replica, NEW u \in Term, <<n, c, u>> \in W, u = t.term
      PROVE  node[n].term = t.term /\ (t.votedFor = c \/ (c = n /\ t.role = "leader"))
  <2>1. u = node[n].term
    BY <1>1, <1>4, <1>6
  <2>2. node[n].votedFor = c \/ (c = n /\ node[n].role = "leader")
    BY <1>4, <1>6, <2>1
  <2>3. node[n].role = "leader" => t.role = "leader"
    BY <1>6, <2>1 DEF Elects
  <2>4. QED
    BY <1>1, <1>5, <1>6, <2>1, <2>2, <2>3
<1>7. ASSUME NEW v \in Replica, NEW c \in Replica, NEW u \in Term, <<v, c, u>> \in X
      PROVE  /\ u <= node'[v].term
             /\ u = node'[v].term =>
                    node'[v].votedFor = c \/ (c = v /\ node'[v].role = "leader")
  <2>1. CASE <<v, c, u>> \in W /\ v = n
    <3>1. u <= t.term
      BY <1>1, <1>4, <2>1
    <3>2. QED
      BY <1>1, <1>6, <2>1, <3>1
  <2>2. CASE <<v, c, u>> \in W /\ v # n
    BY <1>1, <1>4, <2>2
  <2>3. CASE v = n /\ c = t.votedFor /\ u = t.term
    BY <1>1, <2>3
  <2>4. QED
    BY <1>7, <2>1, <2>2, <2>3
<1>8. ASSUME NEW v \in Replica, NEW c \in Replica, NEW d \in Replica, NEW u \in Term,
             <<v, c, u>> \in X, <<v, d, u>> \in X
      PROVE  c = d \/ v = c \/ v = d
  <2>1. CASE <<v, c, u>> \in W /\ <<v, d, u>> \in W
    BY <2>1 DEF Ballots
  <2>2. CASE v = n /\ u = t.term
    BY <1>1, <1>7, <1>8, <2>2
  <2>3. QED
    BY <1>8, <2>1, <2>2
<1> HIDE DEF X
<1>9. Ballots(X)'
  BY <1>2, <1>3, <1>7, <1>8 DEF Ballots
<1>10. QED
  BY <1>9 DEF X

\* Such a step preserves what holds of votes and leaders.
LEMMA ElectionStep ==
  ASSUME TypeOK, ElectionInv,
         NEW n \in Replica, NEW t \in State, Elects(n, t),
         node' = [node EXCEPT ![n] = t],
         \A m \in InTransit' : m \in InTransit \/ GrantedBy(n, t, m)
  PROVE  VotesBacked' /\ LeaderBacked' /\ OwnVote' /\ (\E W : Ballots(W))' /\ KeepsVotes
<1>1. /\ node'[n] = t
      /\ \A q \in Replica \ {n} : node'[q] = node[q]
      /\ \A q \in Replica : node[q] \in State /\ node[q].term \in Nat
      /\ t.term \in Nat /\ t.term \in Term
  BY BoundTypes DEF TypeOK, State
<1>2. KeepsVotes
  <2> SUFFICES ASSUME NEW q \in Replica
               PROVE  /\ node[q].term <= node'[q].term
                      /\ node[q].term = node'[q].term =>
                             \/ node'[q].votedFor = node[q].votedFor
                             \/ node[q].votedFor = None
                             \/ node[q].role = "candidate" /\ node'[q].role = "leader"
    BY DEF KeepsVotes
  <2>1. CASE q = n
    BY <1>1, <2>1 DEF Elects
  <2>2. CASE q # n
    BY <1>1, <2>2
  <2>3. QED
    BY <2>1, <2>2
<1>3. \A q \in Replica : node[q].term <= node'[q].term /\ node'[q].term \in Nat
  BY <1>1 DEF Elects
<1>4. ASSUME NEW v \in Replica, NEW c \in Replica, NEW u \in Term, Vote(v, c, u)'
      PROVE  \/ node'[v].term > u
             \/ node'[v].term = u /\ (node'[v].votedFor = c \/ node'[v].role = "leader")
  <2>1. u \in Nat /\ c # None
    BY BoundTypes, ReplicaAssumption
  <2>2. CASE Vote(v, c, u)
    <3>1. \/ node[v].term > u
          \/ node[v].term = u /\ (node[v].votedFor = c \/ node[v].role = "leader")
      BY <2>2 DEF ElectionInv, VotesBacked
    <3>2. CASE v # n
      BY <1>1, <3>1, <3>2
    <3>3. CASE v = n
      BY <1>1, <2>1, <3>1, <3>3 DEF Elects
    <3>4. QED
      BY <3>2, <3>3
  <2>3. CASE v = n /\ u = t.term /\ c = t.votedFor
    BY <1>1, <2>3
  <2>4. QED
    BY <1>4, <2>2, <2>3, VotesBefore, ZenonT(30)
<1>5. VotesBacked'
  BY <1>4 DEF VotesBacked
<1>6. ASSUME NEW q \in Replica, node'[q].role = "leader"
      PROVE  IsQuorum({p \in Replica : node'[p].term >= node'[q].term})
  <2>1. CASE node[q].role = "leader" /\ node[q].term = node'[q].term
    <3>1. IsQuorum({p \in Replica : node[p].term >= node[q].term})
      BY <2>1 DEF ElectionInv, LeaderBacked
    <3>2. {p \in Replica : node[p].term >= node[q].term}
              \subseteq {p \in Replica : node'[p].term >= node'[q].term}
      BY <1>1, <1>3, <2>1
    <3>3. QED
      BY <3>1, <3>2, QuorumGrows
  <2>2. CASE ~ (node[q].role = "leader" /\ node[q].term = node'[q].term)
    <3>1. q = n
      BY <1>1, <1>6, <2>2
    <3>2. PICK Q \in SUBSET Replica : IsQuorum(Q) /\ \A v \in Q : Vote(v, n, t.term)
      BY <1>1, <1>6, <2>2, <3>1 DEF Elects
    <3>3. \A v \in Q : node[v].term >= t.term
      BY <1>1, <3>2 DEF ElectionInv, VotesBacked
    <3>4. Q \subseteq {p \in Replica : node'[p].term >= node'[q].term}
      BY <1>1, <1>3, <3>1, <3>3
    <3>5. QED
      BY <3>2, <3>4, QuorumGrows
  <2>3. QED
    BY <2>1, <2>2
<1>7. LeaderBacked'
  BY <1>6 DEF LeaderBacked
<1>8. OwnVote'
  BY <1>1 DEF ElectionInv, OwnVote, Elects
<1>9. (\E W : Ballots(W))'
  <2>1. PICK W : Ballots(W)
    BY DEF ElectionInv
  <2>2. Ballots(W \cup {<<n, t.votedFor, t.term>>})'
    BY <2>1, BallotStep DEF ElectionInv
  <2>3. QED
    BY <2>2
<1>10. QED
  BY <1>2, <1>5, <1>7, <1>8, <1>9

\* A replica that adopts a term, gives its vote or nothing, elects nobody new.
LEMMA AdoptElects ==
  ASSUME TypeOK, ElectionInv, NEW n \in Replica, NEW u \in Term, NEW s \in State, NEW t \in State,
         s = AdoptTerm(node[n], u),
         t.term = s.term, t.role = s.role,
         \A v \in t.votes : v \in s.votes \/ Vote(v, n, t.term),
         t.votedFor = s.votedFor \/ s.votedFor = None
  PROVE  Elects(n, t)
<1>1. /\ node[n] \in State /\ node[n].term \in Nat /\ s.term \in Nat
      /\ s.term >= node[n].term
      /\ s.term = node[n].term => s = node[n]
      /\ s.role # "follower" => s = node[n]
      /\ s # node[n] => s.votes = {}
  <2>1. node[n] \in State
    BY DEF TypeOK
  <2>2. /\ s.term >= node[n].term
        /\ s.term = node[n].term => s = node[n]
        /\ s.role # "follower" => s = node[n]
        /\ s # node[n] => s.votes = {}
    BY <2>1, AdoptTermFacts
  <2>3. node[n].term \in Nat /\ s.term \in Nat
    BY <2>1, BoundTypes DEF State
  <2>4. QED
    BY <2>1, <2>2, <2>3
<1>2. \A v \in t.votes : Vote(v, n, t.term)
  BY <1>1 DEF Vote
<1>3. t.role = "candidate" => t.votedFor = n
  <2>1. node[n].role = "candidate" => node[n].votedFor = n /\ n # None
    BY ReplicaAssumption DEF ElectionInv, OwnVote
  <2>2. QED
    BY <1>1, <2>1
<1>4. QED
  BY <1>1, <1>2, <1>3 DEF Elects
-----------------------------------------------------------------------------
(***************************************************************************)
(* The actions.                                                            *)
(***************************************************************************)
\* Handling a message, if the replica's step is of that kind.
LEMMA HandledElection ==
  ASSUME TypeOK, ElectionInv, NEW n \in Replica, NEW t \in State, NEW A, Handled(n, t, A),
         Elects(n, t), \A m \in A : GrantedBy(n, t, m)
  PROVE  ElectionInv' /\ KeepsVotes
<1>1. InboxInv'
  BY DEF Handled, InboxInv, ElectionInv
<1>2. VotesBacked' /\ LeaderBacked' /\ OwnVote' /\ (\E W : Ballots(W))' /\ KeepsVotes
  BY ElectionStep DEF Handled
<1>3. QED
  BY <1>1, <1>2 DEF ElectionInv

\* Handling AppendEntries changes no vote.
LEMMA AppendEntriesRequestElection ==
  ASSUME TypeOK, ElectionInv, NEW n \in Replica, NEW m \in BagToSet(inbox),
         HandleAppendEntriesRequest(n, m)
  PROVE  ElectionInv' /\ KeepsVotes
<1>1. m.term \in Term
  BY AppendEntriesRequestStep DEF AppendEntriesRequest
<1>2. PICK s, t \in State, accepted \in BOOLEAN, matched \in Nat :
          AppendEntriesRequestEffect(n, m, s, t, accepted, matched)
  BY AppendEntriesRequestStep
<1> DEFINE r == AppendEntriesReply(m, t.term, accepted, IF accepted THEN matched ELSE 0)
<1>3. /\ s = AdoptTerm(node[n], m.term)
      /\ t.term = s.term /\ t.role = s.role /\ t.votedFor = s.votedFor /\ t.votes = s.votes
      /\ Handled(n, t, {r})
  BY <1>2 DEF AppendEntriesRequestEffect
<1>4. Elects(n, t)
  BY <1>1, <1>3, AdoptElects
<1>5. \A a \in {r} : GrantedBy(n, t, a)
  BY DEF GrantedBy, AppendEntriesReply
<1>6. QED
  BY <1>3, <1>4, <1>5, HandledElection

\* A vote is given for the request's term, which is then the voter's own.
LEMMA RequestVoteRequestElection ==
  ASSUME TypeOK, ElectionInv, NEW n \in Replica, NEW m \in BagToSet(inbox),
         HandleRequestVoteRequest(n, m)
  PROVE  ElectionInv' /\ KeepsVotes
<1>1. m.term \in Term
  BY RequestVoteRequestStep DEF RequestVoteRequest
<1>2. PICK s, t \in State, granted \in BOOLEAN, u \in Term :
          RequestVoteRequestEffect(n, m, s, t, granted, u)
  BY RequestVoteRequestStep
<1> DEFINE r == RequestVoteReply(m, u, granted, IF granted THEN m.term ELSE 0)
<1>3. /\ s = AdoptTerm(node[n], m.term)
      /\ granted => m.term = s.term /\ s.votedFor \in {None, m.from}
      /\ t.term = s.term /\ t.role = s.role /\ t.votes = s.votes
      /\ t.votedFor = IF granted THEN m.from ELSE s.votedFor
      /\ Handled(n, t, {r})
  BY <1>2 DEF RequestVoteRequestEffect
<1>4. Elects(n, t)
  BY <1>1, <1>3, AdoptElects
<1>5. m.to = n
  BY <1>3 DEF ElectionInv, InboxInv, Handled
<1>6. \A a \in {r} : GrantedBy(n, t, a)
  BY <1>3, <1>5 DEF GrantedBy, RequestVoteReply
<1>7. QED
  BY <1>3, <1>4, <1>6, HandledElection

\* An answer to AppendEntries changes no vote.
LEMMA AppendEntriesResponseElection ==
  ASSUME TypeOK, ElectionInv, NEW n \in Replica, NEW m \in BagToSet(inbox),
         HandleAppendEntriesResponse(n, m)
  PROVE  ElectionInv' /\ KeepsVotes
<1>1. m.term \in Term
  BY AppendEntriesResponseStep DEF AppendEntriesResponse
<1>2. PICK s, t \in State : AppendEntriesResponseEffect(n, m, s, t)
  BY AppendEntriesResponseStep
<1>3. /\ s = AdoptTerm(node[n], m.term)
      /\ t.term = s.term /\ t.role = s.role /\ t.votedFor = s.votedFor /\ t.votes = s.votes
      /\ Handled(n, t, {})
  BY <1>2 DEF AppendEntriesResponseEffect
<1>4. Elects(n, t)
  BY <1>1, <1>3, AdoptElects
<1>5. QED
  BY <1>3, <1>4, HandledElection

\* A vote that counts was given in the candidate's term; with it a majority may
\* be behind the replica, which then leads.
LEMMA RequestVoteResponseElection ==
  ASSUME TypeOK, ElectionInv, NEW n \in Replica, NEW m \in BagToSet(inbox),
         HandleRequestVoteResponse(n, m)
  PROVE  ElectionInv' /\ KeepsVotes
<1>1. /\ m \in InTransit /\ m.type = "RequestVoteResponse"
      /\ m.term \in Term /\ m.from \in Replica
  BY RequestVoteResponseStep DEF RequestVoteResponse
<1>2. PICK s, t \in State, A \in SUBSET AppendEntriesRequest :
          RequestVoteResponseEffect(n, m, s, t, A)
  BY RequestVoteResponseStep
<1>3. /\ s = AdoptTerm(node[n], m.term)
      /\ t.term = s.term
      /\ Handled(n, t, A)
      /\ \/ t = s /\ A = {}
         \/ /\ Counts(s, m)
            /\ t.role = s.role /\ t.votedFor = s.votedFor
            /\ t.votes = s.votes \cup {m.from}
         \/ /\ Counts(s, m) /\ IsQuorum(s.votes \cup {m.from})
            /\ t.role = "leader" /\ t.votes = {}
  BY <1>2 DEF RequestVoteResponseEffect
<1>4. m.to = n
  BY <1>3 DEF ElectionInv, InboxInv, Handled
<1>5. Counts(s, m) => Vote(m.from, n, s.term) /\ s = node[n] /\ s.role = "candidate"
  <2>1. s.role # "follower" => s = node[n]
    BY <1>1, <1>3, AdoptTermFacts DEF TypeOK
  <2>2. QED
    BY <1>1, <1>4, <2>1 DEF Counts, Vote
<1>6. \A a \in A : GrantedBy(n, t, a)
  BY DEF GrantedBy, AppendEntriesRequest
<1>7. CASE t = s /\ A = {}
  <2>1. Elects(n, t)
    BY <1>1, <1>3, <1>7, AdoptElects
  <2>2. QED
    BY <1>3, <1>6, <2>1, HandledElection
<1>8. CASE /\ Counts(s, m)
           /\ t.role = s.role /\ t.votedFor = s.votedFor
           /\ t.votes = s.votes \cup {m.from}
  <2>1. Elects(n, t)
    BY <1>1, <1>3, <1>5, <1>8, AdoptElects
  <2>2. QED
    BY <1>3, <1>6, <2>1, HandledElection
<1>9. CASE /\ Counts(s, m) /\ IsQuorum(s.votes \cup {m.from})
           /\ t.role = "leader" /\ t.votes = {}
  <2>1. s.votes \cup {m.from} \in SUBSET Replica
    BY <1>1 DEF State
  <2>2. \A v \in s.votes \cup {m.from} : Vote(v, n, t.term)
    BY <1>3, <1>5, <1>9 DEF Vote
  <2>3. node[n].term <= t.term
    <3>1. t.term = node[n].term /\ t.term \in Nat
      BY <1>3, <1>5, <1>9, TermFacts
    <3>2. QED
      BY <3>1
  <2>4. Elects(n, t)
    BY <1>3, <1>5, <1>9, <2>1, <2>2, <2>3 DEF Elects
  <2>5. QED
    BY <1>3, <1>6, <2>4, HandledElection
<1>10. QED
  BY <1>3, <1>7, <1>8, <1>9

\* A step that changes no replica but for its log and commit index, and sends
\* requests only.
LEMMA SameElection ==
  ASSUME TypeOK, ElectionInv, InboxInv', NEW n \in Replica, NEW t \in State,
         t.term = node[n].term, t.role = node[n].role, t.votedFor = node[n].votedFor,
         t.votes = node[n].votes,
         node' = [node EXCEPT ![n] = t],
         NEW A, A \subseteq AppendEntriesRequest, InTransit' \subseteq InTransit \cup A
  PROVE  ElectionInv' /\ KeepsVotes
<1>1. node[n].term <= t.term
  <2>1. t.term \in Nat
    BY TermFacts
  <2>2. QED
    BY <2>1
<1>2. Elects(n, t)
  BY <1>1 DEF Elects, Vote, ElectionInv, OwnVote
<1>3. \A m \in InTransit' : m \in InTransit \/ GrantedBy(n, t, m)
  BY DEF GrantedBy, AppendEntriesRequest
<1>4. QED
  BY <1>2, <1>3, ElectionStep DEF ElectionInv

\* A step that changes no replica and sends nothing.
LEMMA QuietElection ==
  ASSUME TypeOK, ElectionInv, InboxInv', UNCHANGED node, InTransit' \subseteq InTransit
  PROVE  ElectionInv' /\ KeepsVotes
<1>1. PICK n \in Replica : TRUE
  BY ReplicaAssumption
<1>2. node[n] \in State /\ node' = [node EXCEPT ![n] = node[n]]
  BY DEF TypeOK
<1>3. QED
  BY <1>2, SameElection

\* The start of a tick.
LEMMA BeginTickElection ==
  ASSUME TypeOK, ElectionInv, NEW n \in Replica, BeginTick(n)
  PROVE  ElectionInv' /\ KeepsVotes
<1>1. InboxInv' /\ InTransit' \subseteq InTransit
  BY BeginTickStep DEF InboxInv
<1>2. CASE UNCHANGED node
  BY <1>1, <1>2, QuietElection
<1>3. ASSUME NEW t \in State, node' = [node EXCEPT ![n] = t],
             t = [node[n] EXCEPT !.commitIndex = CommitTarget(node[n])]
      PROVE  ElectionInv' /\ KeepsVotes
  <2>1. /\ t.term = node[n].term /\ t.role = node[n].role
        /\ t.votedFor = node[n].votedFor /\ t.votes = node[n].votes
    BY <1>3 DEF TypeOK, State
  <2>2. QED
    BY <1>1, <1>3, <2>1, SameElection
<1>4. QED
  BY <1>2, <1>3, BeginTickStep

\* The end of a leader's tick.
LEMMA EndLeaderTickElection ==
  ASSUME TypeOK, ElectionInv, NEW n \in Replica, EndLeaderTick(n)
  PROVE  ElectionInv' /\ KeepsVotes
<1>1. InboxInv' /\ UNCHANGED inbox
  BY EndLeaderTickStep DEF InboxInv
<1>2. CASE UNCHANGED <<node, messages>>
  BY <1>1, <1>2, QuietElection DEF InTransit
<1>3. ASSUME NEW t \in State, NEW read \in [Replica -> Term], NEW tail \in Seq(Item),
             t = [node[n] EXCEPT !.log = node[n].log \o tail],
             node' = [node EXCEPT ![n] = t],
             AppendEntriesToAll(n, node[n], read) \subseteq AppendEntriesRequest,
             InTransit' \subseteq InTransit \cup AppendEntriesToAll(n, node[n], read)
      PROVE  ElectionInv' /\ KeepsVotes
  <2>1. /\ t.term = node[n].term /\ t.role = node[n].role
        /\ t.votedFor = node[n].votedFor /\ t.votes = node[n].votes
    BY <1>3 DEF TypeOK, State
  <2>2. QED
    BY <1>1, <1>3, <2>1, SameElection
<1>4. QED
  BY <1>2, <1>3, EndLeaderTickStep

\* Standing for the next term: the votes of the last one are forgotten.
LEMMA EndExpiredTickElection ==
  ASSUME TypeOK, ElectionInv, NEW n \in Replica, EndExpiredTick(n)
  PROVE  ElectionInv' /\ KeepsVotes
<1>1. InboxInv'
  BY EndExpiredTickStep DEF InboxInv
<1>2. PICK t \in State :
          /\ node' = [node EXCEPT ![n] = t]
          /\ t.term = node[n].term + 1 /\ t.role = "candidate" /\ t.votedFor = n
          /\ t.votes = {}
          /\ RequestVoteToAll(n, t) \subseteq RequestVoteRequest
          /\ InTransit' \subseteq InTransit \cup RequestVoteToAll(n, t)
  BY EndExpiredTickStep
<1>3. node[n].term <= t.term /\ node[n].term # t.term
  <2>1. node[n].term \in Nat
    BY TermFacts DEF TypeOK
  <2>2. QED
    BY <1>2, <2>1
<1>4. Elects(n, t)
  BY <1>2, <1>3 DEF Elects
<1>5. \A m \in InTransit' : m \in InTransit \/ GrantedBy(n, t, m)
  BY <1>2 DEF GrantedBy, RequestVoteRequest
<1>6. QED
  BY <1>1, <1>2, <1>4, <1>5, ElectionStep DEF ElectionInv
-----------------------------------------------------------------------------
(***************************************************************************)
(* The invariant, and what it implies.                                     *)
(***************************************************************************)
LEMMA ElectionInit == Init => ElectionInv
<1> SUFFICES ASSUME Init PROVE ElectionInv
  OBVIOUS
<1>1. \A n \in Replica : node[n].role = "follower" /\ node[n].votes = {}
  BY DEF Init, NewNode
<1>2. InTransit = {} /\ BagToSet(inbox) = {}
  BY EmptyBags DEF Init, InTransit
<1>3. InboxInv /\ LeaderBacked
  BY <1>1, <1>2 DEF InboxInv, LeaderBacked
<1>4. VotesBacked
  BY <1>1, <1>2 DEF VotesBacked, Vote
<1>5. OwnVote
  BY <1>1 DEF OwnVote
<1>6. Ballots({})
  BY <1>1, <1>2 DEF Ballots, Vote
<1>7. QED
  BY <1>3, <1>4, <1>5, <1>6 DEF ElectionInv

\* Every step preserves the invariant and keeps the votes.
LEMMA ElectionNext ==
  ASSUME TypeOK, ElectionInv, [Next]_vars
  PROVE  ElectionInv' /\ KeepsVotes
<1>1. CASE UNCHANGED vars
  BY <1>1, QuietElection DEF vars, InTransit, InboxInv, ElectionInv
<1>2. ASSUME NEW n \in Replica, Call(n) \/ BeginTick(n) \/ Receive(n) \/ EndTick(n)
      PROVE  ElectionInv' /\ KeepsVotes
  <2>1. CASE Call(n)
    <3>1. UNCHANGED <<node, tick, inbox, messages>>
      BY <2>1 DEF Call, AddCommand, GetPersistentCommands, replicaVars
    <3>2. QED
      BY <3>1, QuietElection DEF InTransit, InboxInv, ElectionInv
  <2>2. CASE BeginTick(n)
    BY <2>2, BeginTickElection
  <2>3. CASE Receive(n)
    BY <2>3, AppendEntriesRequestElection, RequestVoteRequestElection,
       AppendEntriesResponseElection, RequestVoteResponseElection DEF Receive
  <2>4. CASE EndTick(n)
    <3>1. CASE EndLeaderTick(n)
      BY <3>1, EndLeaderTickElection
    <3>2. CASE EndQuietTick(n)
      BY <3>2, QuietElection, EmptyBags DEF EndQuietTick, InTransit, InboxInv
    <3>3. CASE EndExpiredTick(n)
      BY <3>3, EndExpiredTickElection
    <3>4. QED
      BY <2>4, <3>1, <3>2, <3>3 DEF EndTick
  <2>5. QED
    BY <1>2, <2>1, <2>2, <2>3, <2>4
<1>3. QED
  BY <1>1, <1>2, Zenon DEF Next

\* The messages a tick has taken stay those of its replica.
LEMMA InboxNext == TypeOK /\ InboxInv /\ [Next]_vars => InboxInv'
<1> SUFFICES ASSUME TypeOK, InboxInv, [Next]_vars PROVE InboxInv'
  OBVIOUS
<1>1. CASE UNCHANGED <<inbox, tick>>
  BY <1>1 DEF InboxInv
<1>2. CASE BagToSet(inbox') = {}
  BY <1>2 DEF InboxInv
<1>3. ASSUME NEW n \in Replica, BeginTick(n)
      PROVE  InboxInv'
  BY <1>3, BeginTickStep DEF InboxInv
<1>4. ASSUME NEW n \in Replica, Receive(n)
      PROVE  InboxInv'
  <2>1. ASSUME NEW m \in BagToSet(inbox)
        PROVE  /\ HandleAppendEntriesRequest(n, m) => \E t, A : Handled(n, t, A)
               /\ HandleRequestVoteRequest(n, m) => \E t, A : Handled(n, t, A)
               /\ HandleAppendEntriesResponse(n, m) => \E t, A : Handled(n, t, A)
               /\ HandleRequestVoteResponse(n, m) => \E t, A : Handled(n, t, A)
    <3>1. HandleAppendEntriesRequest(n, m) => \E t, A : Handled(n, t, A)
      <4> SUFFICES ASSUME HandleAppendEntriesRequest(n, m)
                   PROVE  \E t, A : Handled(n, t, A)
        OBVIOUS
      <4>1. PICK a, t \in State, accepted \in BOOLEAN, matched \in Nat :
                AppendEntriesRequestEffect(n, m, a, t, accepted, matched)
        BY AppendEntriesRequestStep
      <4>2. QED
        BY <4>1 DEF AppendEntriesRequestEffect
    <3>2. HandleRequestVoteRequest(n, m) => \E t, A : Handled(n, t, A)
      <4> SUFFICES ASSUME HandleRequestVoteRequest(n, m)
                   PROVE  \E t, A : Handled(n, t, A)
        OBVIOUS
      <4>1. PICK a, t \in State, granted \in BOOLEAN, u \in Term :
                RequestVoteRequestEffect(n, m, a, t, granted, u)
        BY RequestVoteRequestStep
      <4>2. QED
        BY <4>1 DEF RequestVoteRequestEffect
    <3>3. HandleAppendEntriesResponse(n, m) => \E t, A : Handled(n, t, A)
      BY AppendEntriesResponseStep DEF AppendEntriesResponseEffect
    <3>4. HandleRequestVoteResponse(n, m) => \E t, A : Handled(n, t, A)
      <4> SUFFICES ASSUME HandleRequestVoteResponse(n, m)
                   PROVE  \E t, A : Handled(n, t, A)
        OBVIOUS
      <4>1. PICK a, t \in State, A \in SUBSET AppendEntriesRequest :
                RequestVoteResponseEffect(n, m, a, t, A)
        BY RequestVoteResponseStep
      <4>2. QED
        BY <4>1 DEF RequestVoteResponseEffect
    <3>5. QED
      BY <3>1, <3>2, <3>3, <3>4
  <2>2. PICK t, A : Handled(n, t, A)
    BY <1>4, <2>1, Zenon DEF Receive
  <2>3. QED
    BY <2>2 DEF Handled, InboxInv
<1>5. ASSUME NEW n \in Replica, EndTick(n)
      PROVE  BagToSet(inbox') = {}
  BY <1>5, EndLeaderTickStep, EndExpiredTickStep, EmptyBags DEF EndTick, EndQuietTick
<1>6. ASSUME NEW n \in Replica, Call(n)
      PROVE  UNCHANGED <<inbox, tick>>
  BY <1>6 DEF Call, AddCommand, GetPersistentCommands, replicaVars
<1>7. UNCHANGED vars => UNCHANGED <<inbox, tick>>
  BY DEF vars
<1>8. QED
  BY <1>1, <1>2, <1>3, <1>4, <1>5, <1>6, <1>7, Zenon DEF Next

LEMMA ElectionInvariance == Spec => []EInv
<1>1. Init => EInv
  BY TypeInit, ElectionInit DEF EInv
<1>2. EInv /\ [Next]_vars => EInv'
  BY TypeStep, ElectionNext DEF EInv
<1>3. QED
  BY <1>1, <1>2, PTL DEF Spec

\* A vote that is counted or on its way is still its voter's, whatever the
\* network does and whoever's timers expire.
THEOREM VotesBackedHolds == Spec => []VotesBacked
<1>1. EInv => VotesBacked
  BY DEF EInv, ElectionInv
<1>2. QED
  BY <1>1, ElectionInvariance, PTL

\* Whoever leads has a majority that has reached its term, so that an older leader
\* or candidate hears nothing more from that majority.
THEOREM LeaderBackedHolds == Spec => []LeaderBacked
<1>1. EInv => LeaderBacked
  BY DEF EInv, ElectionInv
<1>2. QED
  BY <1>1, ElectionInvariance, PTL

\* Two majorities have a voter in common.
LEMMA QuorumsMeet ==
  ASSUME NEW S \in SUBSET Replica, NEW T \in SUBSET Replica, IsQuorum(S), IsQuorum(T)
  PROVE  \E v \in Replica : v \in S /\ v \in T
<1>1. IsFiniteSet(S) /\ IsFiniteSet(T)
  BY ReplicaAssumption, FS_Subset
<1>2. Cardinality(S) \in Nat /\ Cardinality(T) \in Nat /\ Cardinality(Replica) \in Nat
  BY <1>1, ReplicaAssumption, FS_CardinalityType
<1>3. Cardinality(S) + Cardinality(T) > Cardinality(Replica)
  BY <1>2 DEF IsQuorum
<1>4. S \cap T # {}
  BY <1>3, ReplicaAssumption, FS_MajoritiesIntersect
<1>5. QED
  BY <1>4

\* Whoever's timers expire and whatever is late or lost: a voter that two leaders of
\* one term have in common is one of the two, and stands by its vote for the other.
THEOREM RivalLeadersHolds == Spec => []RivalLeaders
<1>1. EInv => RivalLeaders
  <2> SUFFICES ASSUME EInv, NEW a \in Replica, NEW b \in Replica, a # b,
                      node[a].role = "leader", node[b].role = "leader",
                      node[a].term = node[b].term
               PROVE  node[a].votedFor = b \/ node[b].votedFor = a
    BY DEF RivalLeaders
  <2>1. PICK W : Ballots(W)
    BY DEF EInv, ElectionInv
  <2> DEFINE For(n) == {v \in Replica : <<v, n, node[a].term>> \in W}
  <2>2. IsQuorum(For(a)) /\ IsQuorum(For(b))
    BY <2>1 DEF Ballots
  <2>3. PICK v \in Replica : v \in For(a) /\ v \in For(b)
    BY <2>2, QuorumsMeet
  <2>4. node[a].term \in Term
    BY DEF EInv, TypeOK, State
  <2>5. v = a \/ v = b
    BY <2>1, <2>3, <2>4 DEF Ballots
  <2>6. QED
    BY <2>1, <2>3, <2>4, <2>5 DEF Ballots
<1>2. QED
  BY <1>1, ElectionInvariance, PTL

\* No step takes a replica back to an older term or moves its vote within a term
\* from one candidate to another.
THEOREM VoteKeptHolds == Spec => VoteKept
<1>1. EInv /\ [Next]_vars => [KeepsVotes]_vars
  BY ElectionNext DEF EInv
<1>2. Spec => [][KeepsVotes]_vars
  BY <1>1, ElectionInvariance, PTL DEF Spec
<1>3. QED
  BY <1>2 DEF VoteKept, KeepsVotes
=============================================================================
