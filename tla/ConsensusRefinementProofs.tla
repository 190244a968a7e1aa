--------------------- MODULE ConsensusRefinementProofs ---------------------
(***************************************************************************)
(* What the replicas of ConsensusNode have in common, and that they make a *)
(* replicated log (ConsensusRefinement), proved for every value of the     *)
(* constants as long as nobody but one replica is elected.                 *)
(***************************************************************************)
EXTENDS ConsensusRefinement, ConsensusNodeElectionProofs, ConsensusNodeCommandProofs
-----------------------------------------------------------------------------
(***************************************************************************)
(* Logs that begin alike.                                                  *)
(***************************************************************************)
\* The log a is where the log b begins.
Begins(a, b) == SameUpTo(a, b, Len(a))

LEMMA BeginsFacts ==
  ASSUME NEW a \in Seq(Item), NEW b \in Seq(Item), NEW c \in Seq(Item)
  PROVE  /\ Begins(a, a)
         /\ Begins(a, b) /\ Begins(b, c) => Begins(a, c)
         /\ Begins(a, b) => Len(a) <= Len(b) /\ \A i \in DOMAIN a : i \in DOMAIN b /\ b[i] = a[i]
         /\ Begins(a, b) /\ Begins(b, a) => a = b
<1>1. Begins(a, a) /\ (Begins(a, b) /\ Begins(b, c) => Begins(a, c))
  BY DEF Begins, SameUpTo
<1>2. Begins(a, b) => Len(a) <= Len(b) /\ \A i \in DOMAIN a : i \in DOMAIN b /\ b[i] = a[i]
  BY DEF Begins, SameUpTo
<1>3. ASSUME Begins(a, b), Begins(b, a)
      PROVE  a = b
  <2>1. Len(a) = Len(b) /\ \A i \in 1 .. Len(a) : a[i] = b[i]
    BY <1>3 DEF Begins, SameUpTo
  <2>2. QED
    BY <2>1, SeqEqual
<1>4. QED
  BY <1>1, <1>2, <1>3

\* The items of m are those of the log behind the previous item of m.
Fits(m, log) == \A k \in DOMAIN m.entries :
    m.prev + k \in DOMAIN log /\ log[m.prev + k] = m.entries[k]

\* Items still fit when the log grows.
LEMMA FitsGrow ==
  ASSUME NEW a \in Seq(Item), NEW b \in Seq(Item), Begins(a, b), NEW m, Fits(m, a)
  PROVE  Fits(m, b)
BY BeginsFacts DEF Fits

\* A log that accepts items of a log it begins grows towards it.
LEMMA FittingItems ==
  ASSUME NEW f \in Seq(Item), NEW g \in Seq(Item), Begins(f, g),
         NEW prev \in Nat, prev <= Len(f), NEW items \in Seq(Item),
         \A k \in DOMAIN items : prev + k \in DOMAIN g /\ g[prev + k] = items[k],
         NEW h, h = AppendItems(f, prev, items)
  PROVE  h \in Seq(Item) /\ Begins(f, h) /\ Begins(h, g) /\ prev + Len(items) <= Len(h)
<1>1. CASE Contains(f, prev, items)
  BY <1>1, BeginsFacts DEF AppendItems, Contains
<1>2. CASE ~ Contains(f, prev, items)
  <2> DEFINE head == SubSeq(f, 1, prev)
  <2>1. h = head \o items
    BY <1>2 DEF AppendItems
  <2>2. head \in Seq(Item) /\ Len(head) = prev /\ \A j \in 1 .. prev : head[j] = f[j]
    OBVIOUS
  <2> HIDE DEF head
  <2>3. /\ h \in Seq(Item) /\ Len(h) = prev + Len(items)
        /\ \A j \in 1 .. Len(h) : j <= prev => h[j] = head[j]
        /\ \A j \in 1 .. Len(h) : j > prev => /\ h[j] = items[j - prev]
                                              /\ j - prev \in DOMAIN items
                                              /\ prev + (j - prev) = j
    <3>1. h \in Seq(Item) /\ Len(h) = prev + Len(items)
      BY <2>1, <2>2, ConcatProperties
    <3>2. \A j \in 1 .. Len(h) :
              /\ j <= prev => h[j] = head[j]
              /\ j > prev => h[j] = items[j - prev] /\ j - prev \in DOMAIN items
      BY <2>1, <2>2, <3>1, ExtensionFacts
    <3>3. QED
      BY <3>1, <3>2
  <2>4. \A j \in DOMAIN f : j \in DOMAIN g /\ g[j] = f[j]
    BY BeginsFacts
  <2>5. \A j \in 1 .. Len(h) : j \in DOMAIN g /\ h[j] = g[j]
    <3> SUFFICES ASSUME NEW j \in 1 .. Len(h)
                 PROVE  j \in DOMAIN g /\ h[j] = g[j]
      OBVIOUS
    <3>1. CASE j <= prev
      <4>1. j \in 1 .. prev /\ j \in DOMAIN f
        BY <2>3, <3>1
      <4>2. QED
        BY <2>2, <2>3, <2>4, <3>1, <4>1
    <3>2. CASE j > prev
      BY <2>3, <3>2
    <3>3. QED
      BY <2>3, <3>1, <3>2
  <2>6. Len(h) <= Len(g)
    <3>1. CASE Len(h) = 0
      BY <3>1
    <3>2. CASE Len(h) # 0
      <4>1. Len(h) \in 1 .. Len(h)
        BY <2>3, <3>2
      <4>2. QED
        BY <2>5, <4>1
    <3>3. QED
      BY <3>1, <3>2
  <2>7. Begins(h, g)
    BY <2>5, <2>6 DEF Begins, SameUpTo
  <2>8. Len(f) <= Len(h)
    <3>1. SUFFICES ASSUME Len(f) > Len(h)
                   PROVE  Contains(f, prev, items)
      BY <1>2, <2>3
    <3>2. \A k \in DOMAIN items : prev + k \in DOMAIN f /\ g[prev + k] = items[k]
      BY <2>3, <3>1
    <3>3. QED
      BY <2>3, <2>4, <3>1, <3>2 DEF Contains
  <2>9. Begins(f, h)
    <3>1. \A j \in 1 .. Len(f) : j \in 1 .. Len(h)
      BY <2>3, <2>8
    <3>2. QED
      BY <2>4, <2>5, <2>8, <3>1 DEF Begins, SameUpTo
  <2>10. QED
    BY <2>3, <2>7, <2>9
<1>3. QED
  BY <1>1, <1>2

\* No command is twice in the log.
Distinct(log) == \A i, j \in DOMAIN log : log[i].command = log[j].command => i = j

\* Such a log is not longer than there are commands: an index that has wrapped
\* around lies beyond it.
LEMMA DistinctBound ==
  ASSUME NEW log \in Seq(Item), Distinct(log)
  PROVE  Len(log) < Huge
<1> DEFINE c == [i \in DOMAIN log |-> log[i].command]
<1>1. c \in [DOMAIN log -> Command]
  <2>1. \A i \in DOMAIN log : log[i] \in Item
    OBVIOUS
  <2>2. QED
    BY <2>1 DEF Item
<1>2. \A i, j \in DOMAIN log : c[i] = c[j] => i = j
  BY DEF Distinct
<1> HIDE DEF c
<1>3. c \in Injection(DOMAIN log, Command)
  BY <1>1, <1>2 DEF Injection, IsInjective
<1>4. Cardinality(DOMAIN log) <= Cardinality(Command)
  BY <1>3, CommandAssumption, FS_Injection
<1>5. Cardinality(DOMAIN log) = Len(log)
  <2>1. DOMAIN log = 1 .. Len(log) /\ Len(log) \in Nat
    OBVIOUS
  <2>2. QED
    BY <2>1, FS_Interval, SMTT(30)
<1>6. Cardinality(Command) \in Nat /\ Len(log) \in Nat
  BY CommandAssumption, FS_CardinalityType
<1>7. QED
  BY <1>4, <1>5, <1>6, HugeAssumption

\* What a leader sends fits its log and reaches its end, where all it has
\* committed lies.
LEMMA SentFits ==
  ASSUME NEW n \in Replica, NEW s \in State, s.role = "leader", NEW read \in [Replica -> Term],
         Distinct(s.log), NEW m \in AppendEntriesToAll(n, s, read)
  PROVE  /\ m.type = "AppendEntriesRequest" /\ Fits(m, s.log) /\ m.from = n
         /\ m.commit = s.commitIndex /\ Len(s.log) <= m.prev + Len(m.entries)
<1>1. PICK q \in Replica :
          m = [type |-> "AppendEntriesRequest", from |-> n, to |-> q, term |-> s.term,
               prev |-> PrevIndex(s, q),
               prevTerm |-> IF OutsideLog(s, q) THEN read[q] ELSE TermAt(s.log, PrevIndex(s, q)),
               entries |-> IF OutsideLog(s, q) THEN << >> ELSE ItemsFrom(s.log, s.nextIndex[q]),
               commit |-> s.commitIndex]
  BY Zenon DEF AppendEntriesToAll
<1>2. s.log \in Seq(Item) /\ s.nextIndex[q] \in Nat /\ Len(s.log) < Huge /\ Huge \in Nat
  BY DistinctBound, BoundTypes DEF State
<1>3. PrevIndex(s, q) \in Nat
  BY <1>2, DecrementType DEF PrevIndex
<1>4. CASE OutsideLog(s, q)
  <2>1. m.prev = PrevIndex(s, q) /\ m.entries = << >>
    BY <1>1, <1>4
  <2>2. Len(s.log) <= PrevIndex(s, q)
    BY <1>2, <1>3, <1>4 DEF OutsideLog, LastLogIndex
  <2>3. QED
    BY <1>1, <1>3, <2>1, <2>2 DEF Fits
<1>5. CASE ~ OutsideLog(s, q)
  <2>1. PrevIndex(s, q) # Huge /\ PrevIndex(s, q) <= Len(s.log)
    BY <1>2, <1>3, <1>5 DEF OutsideLog, LastLogIndex
  <2>2. s.nextIndex[q] = PrevIndex(s, q) + 1
    BY <1>2, <2>1, DecrementType DEF PrevIndex
  <2>3. m.prev = PrevIndex(s, q) /\ m.entries = SubSeq(s.log, PrevIndex(s, q) + 1, Len(s.log))
    BY <1>1, <1>5, <2>2 DEF ItemsFrom
  <2>4. Len(s.log) = m.prev + Len(m.entries)
    BY <1>2, <1>3, <2>1, <2>3, SMTT(30)
  <2>5. Fits(m, s.log)
    BY SentItems DEF Fits
  <2>6. QED
    BY <1>1, <1>2, <2>4, <2>5
<1>6. QED
  BY <1>4, <1>5
-----------------------------------------------------------------------------
(***************************************************************************)
(* One log.                                                                *)
(***************************************************************************)
\* Every log is where the log of s begins, and what is sent is cut out of it.
PrefixInv(s) == \A q \in Replica : Begins(node[q].log, node[s].log)

RequestInv(s) == \A m \in InTransit :
    m.type = "AppendEntriesRequest" => Fits(m, node[s].log)

OneLogInv(s) == OnlyLeads(s) /\ PrefixInv(s) /\ RequestInv(s) /\ Distinct(node[s].log)

\* No log loses an item or changes one.
LogsGrow == \A q \in Replica : Begins(node[q].log, node'[q].log)

LEMMA LogSeqs ==
  ASSUME TypeOK
  PROVE  \A q \in Replica : node[q] \in State /\ node[q].log \in Seq(Item)
BY DEF TypeOK, State

\* A step of n to the state t that only lets its log grow, towards that of s.
LEMMA GrowStep ==
  ASSUME TypeOK, NEW s \in Replica, OneLogInv(s), NEW n \in Replica, NEW t \in State,
         node' = [node EXCEPT ![n] = t],
         t.role = "leader" => n = s,
         Begins(node[n].log, t.log),
         IF n = s THEN Distinct(t.log) ELSE Begins(t.log, node[s].log),
         \A m \in InTransit' : m.type = "AppendEntriesRequest" =>
             m \in InTransit \/ Fits(m, node[s].log)
  PROVE  OneLogInv(s)' /\ LogsGrow
<1>1. node'[n] = t /\ \A q \in Replica \ {n} : node'[q] = node[q]
  BY DEF TypeOK
<1>2. /\ \A q \in Replica : node[q].log \in Seq(Item) /\ node'[q].log \in Seq(Item)
  BY <1>1, LogSeqs DEF State
<1>3. LogsGrow
  BY <1>1, <1>2, BeginsFacts DEF LogsGrow
<1>4. OnlyLeads(s)' /\ Distinct(node[s].log)'
  BY <1>1 DEF OneLogInv, OnlyLeads
<1>5. PrefixInv(s)'
  <2> SUFFICES ASSUME NEW q \in Replica
               PROVE  Begins(node'[q].log, node'[s].log)
    BY DEF PrefixInv
  <2>1. CASE q = s
    BY <1>2, <2>1, BeginsFacts
  <2>2. CASE q # s
    <3>1. Begins(node'[q].log, node[s].log)
      BY <1>1, <2>2 DEF OneLogInv, PrefixInv
    <3>2. Begins(node[s].log, node'[s].log)
      BY <1>3 DEF LogsGrow
    <3>3. QED
      BY <1>2, <3>1, <3>2, BeginsFacts
  <2>3. QED
    BY <2>1, <2>2
<1>6. RequestInv(s)'
  <2> SUFFICES ASSUME NEW m \in InTransit', m.type = "AppendEntriesRequest"
               PROVE  Fits(m, node'[s].log)
    BY DEF RequestInv
  <2>1. Fits(m, node[s].log)
    BY DEF OneLogInv, RequestInv
  <2>2. QED
    BY <1>2, <1>3, <2>1, FitsGrow DEF LogsGrow
<1>7. QED
  BY <1>3, <1>4, <1>5, <1>6 DEF OneLogInv
-----------------------------------------------------------------------------
(***************************************************************************)
(* What is committed.                                                      *)
(***************************************************************************)
\* The commit index of a request lies within what its receiver has when it accepts.
Within(m) == m.commit <= m.prev + Len(m.entries)

AllWithin == \A m \in InTransit : m.type = "AppendEntriesRequest" => Within(m)

\* Every request is of s, and those that s sends itself are within its log.
SenderInv(s) == \A m \in InTransit : m.type = "AppendEntriesRequest" =>
    m.from = s /\ (m.to = s => Within(m))

\* What a replica has committed is in its own log.
OwnCommits == \A q \in Replica : node[q].commitIndex <= Len(node[q].log)

\* What holds even if leader_commit arrives as garbage and others die.
Base(s) == OneLogInv(s) /\ SenderInv(s) /\ OwnCommits

\* A request carries no commit index that s has not reached, or that lies behind
\* its items; what a replica says it matches is in its log.
MessageTrue(m, s) ==
    /\ m.type = "AppendEntriesRequest" =>
           m.commit <= node[s].commitIndex /\ m.commit <= m.prev + Len(m.entries)
    /\ m.type = "AppendEntriesResponse" /\ m.success => m.matched <= Len(node[m.from].log)

\* What s has committed is in the logs of a majority, and no other replica has
\* committed more; s takes for matched what is in the others' logs.
CommitInv(s) ==
    /\ \A m \in InTransit : MessageTrue(m, s)
    /\ \A q \in Replica : /\ node[q].commitIndex <= node[s].commitIndex
                          /\ node[s].matchIndex[q] <= Len(node[q].log)
    /\ IsQuorum({q \in Replica : node[s].commitIndex <= Len(node[q].log)})

\* No commit index falls.
CommitsGrow == \A q \in Replica : node[q].commitIndex <= node'[q].commitIndex

\* What a step does to logs and commit indices as long as no process dies: that of
\* s falls on no account, the others' unless a request has lost its leader_commit.
Grows(s) ==
    /\ LogsGrow
    /\ node[s].commitIndex <= node'[s].commitIndex
    /\ AllWithin => AllWithin' /\ CommitsGrow

\* A step preserves the base, and what is known of commit indices if it is known.
Kept(s) == Base(s)' /\ Grows(s) /\ (CommitInv(s) => CommitInv(s)')

\* The lengths of logs and the indices of replicas are numbers.
LEMMA IndexTypes ==
  ASSUME NEW s \in State
  PROVE  /\ s.log \in Seq(Item) /\ Len(s.log) \in Nat /\ s.commitIndex \in Nat
         /\ \A q \in Replica : s.matchIndex[q] \in Nat
BY DEF State

\* The senders and numbers of the messages in transit.
LEMMA MessageTypes ==
  ASSUME TypeOK, NEW m \in InTransit
  PROVE  /\ m.from \in Replica
         /\ m.type = "AppendEntriesRequest" =>
                m.commit \in Nat /\ m.prev \in Nat /\ m.entries \in Seq(Item)
         /\ m.type = "AppendEntriesResponse" => m.matched \in Nat
<1>1. m \in Message
  BY DEF TypeOK, InTransit
<1>2. QED
  BY <1>1 DEF Message, AppendEntriesRequest, RequestVoteRequest, AppendEntriesResponse,
       RequestVoteResponse

\* What a replica knows, in a state of its log that s has.
LEMMA BaseFacts ==
  ASSUME TypeOK, NEW s \in Replica, Base(s), NEW n \in Replica
  PROVE  /\ node[n] \in State /\ node[n].log \in Seq(Item) /\ node[s].log \in Seq(Item)
         /\ Begins(node[n].log, node[s].log)
         /\ node[n].commitIndex <= Len(node[n].log)
         /\ node[n].commitIndex \in Nat /\ node[s].commitIndex \in Nat
BY IndexTypes DEF Base, OneLogInv, PrefixInv, OwnCommits, TypeOK

\* A step of n to the state t that only lets its log grow, towards that of s.
LEMMA BaseStep ==
  ASSUME TypeOK, NEW s \in Replica, Base(s), NEW n \in Replica, NEW t \in State,
         node' = [node EXCEPT ![n] = t],
         t.role = "leader" => n = s,
         Begins(node[n].log, t.log),
         IF n = s THEN Distinct(t.log) ELSE Begins(t.log, node[s].log),
         t.commitIndex <= Len(t.log),
         n = s \/ AllWithin => node[n].commitIndex <= t.commitIndex,
         \A m \in InTransit' : m.type = "AppendEntriesRequest" =>
             m \in InTransit \/ (Fits(m, node[s].log) /\ m.from = s /\ Within(m))
  PROVE  Base(s)' /\ Grows(s)
<1>1. node'[n] = t /\ \A q \in Replica \ {n} : node'[q] = node[q]
  BY DEF TypeOK
<1>2. OneLogInv(s)' /\ LogsGrow
  BY GrowStep DEF Base
<1>3. SenderInv(s)'
  BY DEF Base, SenderInv
<1>4. OwnCommits'
  BY <1>1 DEF Base, OwnCommits
<1>5. \A q \in Replica : node[q].commitIndex \in Nat
  BY BaseFacts
<1>6. node[s].commitIndex <= node'[s].commitIndex
  BY <1>1, <1>5
<1>7. AllWithin => AllWithin' /\ CommitsGrow
  BY <1>1, <1>5 DEF AllWithin, CommitsGrow
<1>8. QED
  BY <1>2, <1>3, <1>4, <1>6, <1>7 DEF Base, Grows

\* No request in transit is beyond its items as long as s knows what is committed.
LEMMA TrueWithin ==
  ASSUME NEW s \in Replica, CommitInv(s)
  PROVE  AllWithin
BY DEF CommitInv, MessageTrue, AllWithin, Within

\* A step of n to the state t that takes no commit index back.
LEMMA CommitStep ==
  ASSUME TypeOK, NEW s \in Replica, CommitInv(s), LogsGrow, NEW n \in Replica, NEW t \in State,
         node' = [node EXCEPT ![n] = t],
         node[n].commitIndex <= t.commitIndex,
         n # s => t.commitIndex <= node[s].commitIndex,
         n = s => /\ IsQuorum({q \in Replica : t.commitIndex <= Len(node[q].log)})
                  /\ \A q \in Replica : t.matchIndex[q] <= Len(node[q].log),
         \A m \in InTransit' : m \in InTransit \/ MessageTrue(m, s)'
  PROVE  CommitInv(s)'
<1>1. node'[n] = t /\ \A q \in Replica \ {n} : node'[q] = node[q]
  BY DEF TypeOK
<1>2. \A q \in Replica : node[q] \in State /\ node'[q] \in State
  BY <1>1 DEF TypeOK
<1>3. \A q \in Replica : /\ node[q].commitIndex \in Nat /\ node'[q].commitIndex \in Nat
                         /\ Len(node[q].log) \in Nat /\ Len(node'[q].log) \in Nat
                         /\ node[s].matchIndex[q] \in Nat /\ node'[s].matchIndex[q] \in Nat
  BY <1>2, IndexTypes
<1>4. \A q \in Replica : Len(node[q].log) <= Len(node'[q].log)
  <2> TAKE q \in Replica
  <2>1. node[q].log \in Seq(Item) /\ node'[q].log \in Seq(Item) /\ Begins(node[q].log, node'[q].log)
    BY <1>2, IndexTypes DEF LogsGrow
  <2>2. QED
    BY <2>1, BeginsFacts
<1>5. node[s].commitIndex <= node'[s].commitIndex
  BY <1>1, <1>3
<1>6. ASSUME NEW m \in InTransit'
      PROVE  MessageTrue(m, s)'
  <2>1. CASE m \in InTransit
    <3>1. MessageTrue(m, s)
      BY <2>1 DEF CommitInv
    <3>2. QED
      BY <1>3, <1>4, <1>5, <2>1, <3>1, MessageTypes DEF MessageTrue
  <2>2. QED
    BY <1>6, <2>1
<1>7. ASSUME NEW q \in Replica
      PROVE  /\ node'[q].commitIndex <= node'[s].commitIndex
             /\ node'[s].matchIndex[q] <= Len(node'[q].log)
  <2>1. /\ node[q].commitIndex <= node[s].commitIndex
        /\ node[s].matchIndex[q] <= Len(node[q].log)
    BY DEF CommitInv
  <2>2. node'[q].commitIndex <= node'[s].commitIndex
    BY <1>1, <1>3, <1>5, <2>1
  <2>3. node'[s].matchIndex[q] <= Len(node[q].log)
    BY <1>1, <2>1
  <2>4. QED
    BY <1>3, <1>4, <2>2, <2>3
<1>8. IsQuorum({q \in Replica : node'[s].commitIndex <= Len(node'[q].log)})
  <2>1. IsQuorum({q \in Replica : node'[s].commitIndex <= Len(node[q].log)})
    BY <1>1 DEF CommitInv
  <2>2. {q \in Replica : node'[s].commitIndex <= Len(node[q].log)} \subseteq
            {q \in Replica : node'[s].commitIndex <= Len(node'[q].log)}
    BY <1>3, <1>4
  <2>3. QED
    BY <2>1, <2>2, QuorumGrows
<1>9. QED
  BY <1>6, <1>7, <1>8 DEF CommitInv
-----------------------------------------------------------------------------
(***************************************************************************)
(* The actions.                                                            *)
(***************************************************************************)
\* The commit index a replica takes over from a request that reaches it: no more
\* than it brings, and no less than the replica had, unless it lies beyond it.
LEMMA AcceptedCommit ==
  ASSUME NEW a \in State, NEW m \in AppendEntriesRequest
  PROVE  LET k == AcceptEntries(a, m).commitIndex IN
         /\ k \in {a.commitIndex, m.commit, m.prev + Len(m.entries)}
         /\ k = a.commitIndex \/ k <= m.prev + Len(m.entries)
         /\ Within(m) => a.commitIndex <= k /\ k \in {a.commitIndex, m.commit}
<1>1. /\ a.commitIndex \in Nat /\ m.commit \in Nat /\ m.prev \in Nat /\ Len(m.entries) \in Nat
  BY DEF State, AppendEntriesRequest
<1>2. AcceptEntries(a, m).commitIndex =
          IF m.commit <= a.commitIndex THEN a.commitIndex
          ELSE IF m.commit <= m.prev + Len(m.entries) THEN m.commit
          ELSE m.prev + Len(m.entries)
  BY DEF AcceptEntries, State
<1>3. QED
  BY <1>1, <1>2 DEF Within

\* Handling AppendEntries brings a log nearer to that of s, and s nothing.
LEMMA AppendEntriesRequestCore ==
  ASSUME TypeOK, InboxInv, NEW s \in Replica, Base(s),
         NEW n \in Replica, NEW m \in BagToSet(inbox), HandleAppendEntriesRequest(n, m)
  PROVE  Kept(s) /\ node'[s].log = node[s].log
<1>1. m \in AppendEntriesRequest /\ m \in InTransit
  BY AppendEntriesRequestStep
<1>2. PICK a, t \in State, accepted \in BOOLEAN, matched \in Nat :
          AppendEntriesRequestEffect(n, m, a, t, accepted, matched)
  BY AppendEntriesRequestStep
<1> DEFINE f == node[n].log
           g == node[s].log
           r == AppendEntriesReply(m, t.term, accepted, IF accepted THEN matched ELSE 0)
<1>3. /\ f \in Seq(Item) /\ g \in Seq(Item) /\ Begins(f, g) /\ Fits(m, g)
      /\ m.prev \in Nat /\ m.entries \in Seq(Item) /\ m.commit \in Nat
      /\ m.type = "AppendEntriesRequest"
  BY <1>1, BaseFacts DEF Base, OneLogInv, RequestInv, AppendEntriesRequest
<1>4. /\ a.log = f /\ a.commitIndex = node[n].commitIndex
      /\ a.role # "follower" => a = node[n]
      /\ a.matchIndex = node[n].matchIndex \/ a.matchIndex = Zero
  <2>1. a = AdoptTerm(node[n], m.term) /\ node[n] \in State /\ m.term \in Term
    BY <1>1, <1>2 DEF AppendEntriesRequestEffect, AppendEntriesRequest, TypeOK
  <2>2. QED
    BY <2>1, AdoptTermFacts
<1>5. /\ t.role = a.role /\ t.matchIndex = a.matchIndex
      /\ accepted => m.prev <= Len(f)
      /\ t.log = IF accepted THEN AppendItems(f, m.prev, m.entries) ELSE f
      /\ t.commitIndex = IF accepted THEN AcceptEntries(a, m).commitIndex ELSE a.commitIndex
      /\ matched <= Len(t.log)
      /\ Handled(n, t, {r})
  BY <1>2, <1>4 DEF AppendEntriesRequestEffect, HasPrev
<1> HIDE DEF r
<1>6. /\ t.log \in Seq(Item) /\ Begins(f, t.log) /\ Begins(t.log, g)
      /\ accepted => m.prev + Len(m.entries) <= Len(t.log)
  <2>1. CASE accepted
    <3>1. t.log = AppendItems(f, m.prev, m.entries) /\ m.prev <= Len(f)
      BY <1>5, <2>1
    <3>2. \A k \in DOMAIN m.entries : m.prev + k \in DOMAIN g /\ g[m.prev + k] = m.entries[k]
      BY <1>3 DEF Fits
    <3> HIDE DEF f, g
    <3>3. QED
      BY <1>3, <3>1, <3>2, FittingItems
  <2>2. CASE ~ accepted
    BY <1>3, <1>5, <2>2, BeginsFacts
  <2>3. QED
    BY <2>1, <2>2
<1>7. n = s => t.log = node[s].log
  BY <1>3, <1>6, BeginsFacts
<1>8. r.type = "AppendEntriesResponse" /\ r.from = n /\ r.success = accepted
      /\ (accepted => r.matched = matched) /\ m.to = n
  BY <1>5 DEF r, AppendEntriesReply, Handled, InboxInv
<1>9. /\ t.commitIndex <= Len(t.log)
      /\ Within(m) => /\ node[n].commitIndex <= t.commitIndex
                      /\ t.commitIndex \in {node[n].commitIndex, m.commit}
  <2>1. node[n].commitIndex \in Nat /\ node[n].commitIndex <= Len(f)
    BY BaseFacts
  <2>2. Len(f) <= Len(t.log) /\ Len(f) \in Nat /\ Len(t.log) \in Nat
    BY <1>3, <1>6, BeginsFacts
  <2>3. CASE accepted
    <3>1. /\ t.commitIndex \in {a.commitIndex, m.commit, m.prev + Len(m.entries)}
          /\ t.commitIndex = a.commitIndex \/ t.commitIndex <= m.prev + Len(m.entries)
          /\ Within(m) => /\ a.commitIndex <= t.commitIndex
                          /\ t.commitIndex \in {a.commitIndex, m.commit}
      BY <1>1, <1>5, <2>3, AcceptedCommit
    <3>2. QED
      BY <1>3, <1>4, <1>6, <2>1, <2>2, <2>3, <3>1
  <2>4. CASE ~ accepted
    BY <1>4, <1>5, <2>1, <2>2, <2>4
  <2>5. QED
    BY <2>3, <2>4
<1>10. Base(s)' /\ Grows(s)
  <2>1. t.role = "leader" => n = s
    BY <1>4, <1>5 DEF Base, OneLogInv, OnlyLeads
  <2>2. IF n = s THEN Distinct(t.log) ELSE Begins(t.log, node[s].log)
    BY <1>6, <1>7 DEF Base, OneLogInv
  <2>3. \A x \in InTransit' : x.type = "AppendEntriesRequest" => x \in InTransit
    BY <1>5, <1>8 DEF Handled
  <2>4. n = s \/ AllWithin => Within(m)
    BY <1>1, <1>3, <1>8 DEF Base, SenderInv, AllWithin
  <2>5. QED
    BY <1>5, <1>6, <1>9, <2>1, <2>2, <2>3, <2>4, BaseStep DEF Handled
<1>11. ASSUME CommitInv(s)
       PROVE  CommitInv(s)'
  <2>1. node'[n] = t
    BY <1>5 DEF Handled, TypeOK
  <2>2. \A x \in InTransit' : x \in InTransit \/ MessageTrue(x, s)'
    BY <1>5, <1>8, <2>1 DEF Handled, MessageTrue
  <2>3. /\ node[n].commitIndex <= t.commitIndex
        /\ t.commitIndex <= node[s].commitIndex
    <3>1. Within(m) /\ m.commit <= node[s].commitIndex /\ node[n].commitIndex <= node[s].commitIndex
      BY <1>1, <1>3, <1>11 DEF CommitInv, MessageTrue, Within
    <3>2. QED
      BY <1>9, <3>1
  <2>4. n = s => /\ IsQuorum({q \in Replica : t.commitIndex <= Len(node[q].log)})
                 /\ \A q \in Replica : t.matchIndex[q] <= Len(node[q].log)
    <3> SUFFICES ASSUME n = s
                 PROVE  /\ IsQuorum({q \in Replica : t.commitIndex <= Len(node[q].log)})
                        /\ \A q \in Replica : t.matchIndex[q] <= Len(node[q].log)
      OBVIOUS
    <3>1. t.commitIndex = node[s].commitIndex
      BY <2>3, BaseFacts, IndexTypes
    <3>2. \A q \in Replica : Zero[q] = 0 /\ Len(node[q].log) \in Nat
      BY BaseFacts DEF Zero
    <3>3. IsQuorum({q \in Replica : t.commitIndex <= Len(node[q].log)})
      BY <1>11, <3>1 DEF CommitInv
    <3>4. \A q \in Replica : node[s].matchIndex[q] <= Len(node[q].log)
      BY <1>11 DEF CommitInv
    <3>5. t.matchIndex \in {node[s].matchIndex, Zero}
      BY <1>4, <1>5
    <3>6. QED
      BY <3>2, <3>3, <3>4, <3>5
  <2>5. QED
    BY <1>5, <1>10, <1>11, <2>2, <2>3, <2>4, CommitStep DEF Handled, Grows
<1>12. node'[s].log = node[s].log
  BY <1>5, <1>7 DEF Handled, TypeOK
<1>13. QED
  BY <1>10, <1>11, <1>12 DEF Kept

\* A new message that is a request of s, or about votes.
FromLog(m, s) ==
    /\ m.type # "AppendEntriesResponse"
    /\ m.type = "AppendEntriesRequest" =>
           /\ Fits(m, node[s].log) /\ m.from = s
           /\ m.commit <= node[s].commitIndex /\ Within(m)

\* The requests a leader sends are of that kind.
LEMMA SentFromLog ==
  ASSUME TypeOK, NEW s \in Replica, Base(s), NEW t \in State, t.role = "leader",
         t.log = node[s].log, t.commitIndex = node[s].commitIndex,
         NEW read \in [Replica -> Term], NEW m \in AppendEntriesToAll(s, t, read)
  PROVE  FromLog(m, s)
<1>1. m \in AppendEntriesRequest
  BY AppendEntriesToAllType
<1>2. Distinct(t.log)
  BY DEF Base, OneLogInv
<1>3. /\ m.type = "AppendEntriesRequest" /\ Fits(m, t.log) /\ m.from = s
      /\ m.commit = t.commitIndex /\ Len(t.log) <= m.prev + Len(m.entries)
  BY <1>2, SentFits
<1>4. m.prev \in Nat /\ Len(m.entries) \in Nat
  BY <1>1 DEF AppendEntriesRequest
<1>5. /\ node[s].commitIndex \in Nat /\ Len(node[s].log) \in Nat
      /\ node[s].commitIndex <= Len(node[s].log)
  BY BaseFacts
<1>6. QED
  BY <1>3, <1>4, <1>5 DEF FromLog, Within

\* A step of n that changes neither its log nor its commit index.
LEMMA SameLogCore ==
  ASSUME TypeOK, NEW s \in Replica, Base(s), NEW n \in Replica, NEW t \in State,
         node' = [node EXCEPT ![n] = t],
         t.log = node[n].log, t.commitIndex = node[n].commitIndex,
         t.role = "leader" => n = s,
         CommitInv(s) /\ n = s => \A q \in Replica : t.matchIndex[q] <= Len(node[q].log),
         \A m \in InTransit' : m \in InTransit \/ FromLog(m, s)
  PROVE  Kept(s)
<1>1. /\ node[n].log \in Seq(Item) /\ node[n].commitIndex \in Nat
      /\ node[n].commitIndex <= Len(node[n].log)
      /\ Begins(node[n].log, node[s].log)
  BY BaseFacts
<1>2. Begins(node[n].log, t.log)
  BY <1>1, BeginsFacts
<1>3. Base(s)' /\ Grows(s)
  <2>1. IF n = s THEN Distinct(t.log) ELSE Begins(t.log, node[s].log)
    BY <1>1 DEF Base, OneLogInv
  <2>2. \A m \in InTransit' : m.type = "AppendEntriesRequest" =>
            m \in InTransit \/ (Fits(m, node[s].log) /\ m.from = s /\ Within(m))
    BY DEF FromLog
  <2>3. t.commitIndex <= Len(t.log) /\ node[n].commitIndex <= t.commitIndex
    BY <1>1
  <2>4. QED
    BY <1>2, <2>1, <2>2, <2>3, BaseStep
<1>4. ASSUME CommitInv(s)
      PROVE  CommitInv(s)'
  <2>1. node'[s].commitIndex = node[s].commitIndex
    BY DEF TypeOK
  <2>2. \A m \in InTransit' : m \in InTransit \/ MessageTrue(m, s)'
    BY <2>1 DEF FromLog, MessageTrue, Within
  <2>3. n = s => /\ IsQuorum({q \in Replica : t.commitIndex <= Len(node[q].log)})
                 /\ \A q \in Replica : t.matchIndex[q] <= Len(node[q].log)
    BY <1>4 DEF CommitInv
  <2>4. node[n].commitIndex <= t.commitIndex /\ t.commitIndex <= node[s].commitIndex
    BY <1>1, <1>4 DEF CommitInv
  <2>5. QED
    BY <1>3, <1>4, <2>2, <2>3, <2>4, CommitStep DEF Grows
<1>5. QED
  BY <1>3, <1>4 DEF Kept

\* What the first lines of the handlers leave of a replica's state.
LEMMA AdoptCore ==
  ASSUME TypeOK, NEW s \in Replica, Base(s), NEW n \in Replica, NEW u \in Term,
         NEW a, a = AdoptTerm(node[n], u)
  PROVE  /\ a.log = node[n].log /\ a.commitIndex = node[n].commitIndex
         /\ a.role = "leader" => n = s /\ a = node[n]
         /\ CommitInv(s) /\ n = s => \A q \in Replica : a.matchIndex[q] <= Len(node[q].log)
<1>1. node[n] \in State
  BY DEF TypeOK
<1>2. /\ a.log = node[n].log /\ a.commitIndex = node[n].commitIndex
      /\ a.role # "follower" => a = node[n]
      /\ a.matchIndex \in {node[n].matchIndex, Zero}
  BY <1>1, AdoptTermFacts
<1>3. \A q \in Replica : Zero[q] = 0 /\ Len(node[q].log) \in Nat
  BY BaseFacts DEF Zero
<1>4. CommitInv(s) => \A q \in Replica : node[s].matchIndex[q] <= Len(node[q].log)
  BY DEF CommitInv
<1>5. CommitInv(s) /\ n = s => \A q \in Replica : a.matchIndex[q] <= Len(node[q].log)
  BY <1>2, <1>3, <1>4
<1>6. a.role = "leader" => n = s
  BY <1>2 DEF Base, OneLogInv, OnlyLeads
<1>7. QED
  BY <1>2, <1>5, <1>6

\* Handling RequestVote touches no log.
LEMMA RequestVoteRequestCore ==
  ASSUME TypeOK, NEW s \in Replica, Base(s),
         NEW n \in Replica, NEW m \in BagToSet(inbox), HandleRequestVoteRequest(n, m)
  PROVE  Kept(s)
<1>1. m.term \in Term
  BY RequestVoteRequestStep DEF RequestVoteRequest
<1>2. PICK a, t \in State, granted \in BOOLEAN, u \in Term :
          RequestVoteRequestEffect(n, m, a, t, granted, u)
  BY RequestVoteRequestStep
<1> DEFINE r == RequestVoteReply(m, u, granted, IF granted THEN m.term ELSE 0)
<1>3. /\ a = AdoptTerm(node[n], m.term) /\ t.role = a.role /\ t.log = a.log
      /\ t.commitIndex = a.commitIndex /\ t.matchIndex = a.matchIndex
      /\ r \in RequestVoteResponse /\ Handled(n, t, {r})
  BY <1>2 DEF RequestVoteRequestEffect
<1>4. \A x \in {r} : FromLog(x, s)
  BY <1>3 DEF RequestVoteResponse, FromLog
<1> HIDE DEF r
<1>5. /\ node' = [node EXCEPT ![n] = t]
      /\ \A x \in InTransit' : x \in InTransit \/ FromLog(x, s)
  BY <1>3, <1>4 DEF Handled
<1>6. /\ t.log = node[n].log /\ t.commitIndex = node[n].commitIndex
      /\ t.role = "leader" => n = s
      /\ CommitInv(s) /\ n = s => \A q \in Replica : t.matchIndex[q] <= Len(node[q].log)
  BY <1>1, <1>3, AdoptCore
<1>7. QED
  BY <1>5, <1>6, SameLogCore

\* An answer to AppendEntries moves what s takes for matched to what is there.
LEMMA AppendEntriesResponseCore ==
  ASSUME TypeOK, NEW s \in Replica, Base(s),
         NEW n \in Replica, NEW m \in BagToSet(inbox), HandleAppendEntriesResponse(n, m)
  PROVE  Kept(s)
<1>1. m \in AppendEntriesResponse /\ m \in InTransit /\ m.term \in Term
  BY AppendEntriesResponseStep DEF AppendEntriesResponse
<1>2. PICK a, t \in State : AppendEntriesResponseEffect(n, m, a, t)
  BY AppendEntriesResponseStep
<1>3. /\ a = AdoptTerm(node[n], m.term) /\ t.role = a.role /\ t.log = a.log
      /\ t.commitIndex = a.commitIndex /\ Handled(n, t, {})
      /\ \A q \in Replica :
             \/ t.matchIndex[q] = a.matchIndex[q]
             \/ m.success /\ q = m.from /\ t.matchIndex[q] = m.matched
  BY <1>2 DEF AppendEntriesResponseEffect
<1>4. CommitInv(s) /\ m.success => m.matched <= Len(node[m.from].log)
  BY <1>1 DEF CommitInv, MessageTrue, AppendEntriesResponse
<1>5. CommitInv(s) /\ n = s => \A q \in Replica : t.matchIndex[q] <= Len(node[q].log)
  BY <1>1, <1>3, <1>4, AdoptCore
<1>6. /\ node' = [node EXCEPT ![n] = t]
      /\ \A x \in InTransit' : x \in InTransit \/ FromLog(x, s)
  BY <1>3 DEF Handled
<1>7. /\ t.log = node[n].log /\ t.commitIndex = node[n].commitIndex
      /\ t.role = "leader" => n = s
  BY <1>1, <1>3, AdoptCore
<1>8. QED
  BY <1>5, <1>6, <1>7, SameLogCore

\* A vote may make s the leader, whose requests are then cut out of its log.
LEMMA RequestVoteResponseCore ==
  ASSUME TypeOK, NEW s \in Replica, OnlyLeads(s)', Base(s),
         NEW n \in Replica, NEW m \in BagToSet(inbox), HandleRequestVoteResponse(n, m)
  PROVE  Kept(s)
<1>1. m.term \in Term
  BY RequestVoteResponseStep DEF RequestVoteResponse
<1>2. PICK a, t \in State, A \in SUBSET AppendEntriesRequest :
          RequestVoteResponseEffect(n, m, a, t, A)
  BY RequestVoteResponseStep
<1>3. /\ a = AdoptTerm(node[n], m.term)
      /\ t.log = a.log /\ t.commitIndex = a.commitIndex /\ Handled(n, t, A)
      /\ \/ t = a /\ A = {}
         \/ Counts(a, m) /\ A = {} /\ t.role = a.role /\ t.matchIndex = a.matchIndex
         \/ /\ Counts(a, m) /\ t.role = "leader" /\ t.matchIndex = Zero
            /\ A = AppendEntriesToAll(n, t, Zero)
  BY <1>2 DEF RequestVoteResponseEffect
<1>4. /\ a.log = node[n].log /\ a.commitIndex = node[n].commitIndex
      /\ a.role = "leader" => n = s
      /\ CommitInv(s) /\ n = s => \A q \in Replica : a.matchIndex[q] <= Len(node[q].log)
  BY <1>1, <1>3, AdoptCore
<1>5. t.role = "leader" => n = s
  BY <1>3 DEF Handled, OnlyLeads, TypeOK
<1>6. CommitInv(s) /\ n = s => \A q \in Replica : t.matchIndex[q] <= Len(node[q].log)
  <2>1. \A q \in Replica : Zero[q] = 0 /\ Len(node[q].log) \in Nat
    BY BaseFacts DEF Zero
  <2>2. t = a \/ t.matchIndex = a.matchIndex \/ t.matchIndex = Zero
    BY <1>3
  <2>3. QED
    BY <1>4, <2>1, <2>2
<1>7. \A x \in A : FromLog(x, s)
  <2>1. CASE A = {}
    BY <2>1
  <2>2. CASE t.role = "leader" /\ A = AppendEntriesToAll(n, t, Zero)
    <3>1. n = s /\ t.log = node[s].log /\ t.commitIndex = node[s].commitIndex
      BY <1>3, <1>4, <1>5, <2>2
    <3>2. QED
      BY <2>2, <3>1, SentFromLog, BoundTypes
  <2>3. QED
    BY <1>3, <2>1, <2>2
<1>8. QED
  BY <1>3, <1>4, <1>5, <1>6, <1>7, SameLogCore DEF Handled

\* A replica that stands leads no more and sends no items.
LEMMA EndExpiredTickCore ==
  ASSUME TypeOK, NEW s \in Replica, Base(s), NEW n \in Replica, EndExpiredTick(n)
  PROVE  Kept(s)
<1>1. PICK t \in State :
             /\ node' = [node EXCEPT ![n] = t]
             /\ t.role = "candidate" /\ t.matchIndex = Zero
             /\ t.log = node[n].log /\ t.commitIndex = node[n].commitIndex
             /\ RequestVoteToAll(n, t) \subseteq RequestVoteRequest
             /\ InTransit' \subseteq InTransit \cup RequestVoteToAll(n, t)
  BY EndExpiredTickStep
<1>2. \A q \in Replica : t.matchIndex[q] <= Len(node[q].log)
  BY <1>1, BaseFacts DEF Zero
<1>3. \A m \in InTransit' : m \in InTransit \/ FromLog(m, s)
  BY <1>1 DEF RequestVoteRequest, FromLog
<1>4. QED
  BY <1>1, <1>2, <1>3, SameLogCore

\* A step that changes no replica and sends nothing.
LEMMA QuietCore ==
  ASSUME TypeOK, NEW s \in Replica, Base(s), UNCHANGED node, InTransit' \subseteq InTransit
  PROVE  Kept(s)
<1>1. node[s] \in State /\ node' = [node EXCEPT ![s] = node[s]]
  BY DEF TypeOK
<1>2. CommitInv(s) => \A q \in Replica : node[s].matchIndex[q] <= Len(node[q].log)
  BY DEF CommitInv
<1>3. QED
  BY <1>1, <1>2, SameLogCore

\* CommitIfPossible goes up to an index a majority matches.
LEMMA CommitTargetFacts ==
  ASSUME NEW a \in State, a.commitIndex <= Len(a.log)
  PROVE  /\ CommitTarget(a) \in a.commitIndex .. Len(a.log)
         /\ \/ CommitTarget(a) = a.commitIndex
            \/ IsQuorum({q \in Replica : a.matchIndex[q] >= CommitTarget(a)})
<1> DEFINE c == a.commitIndex
           L == Len(a.log)
           Matching(i) == {q \in Replica : a.matchIndex[q] >= i}
           S == {i \in c + 1 .. L : IsQuorum(Matching(i))}
           k == Cardinality(S)
<1>1. c \in Nat /\ L \in Nat /\ c <= L /\ \A q \in Replica : a.matchIndex[q] \in Nat
  BY IndexTypes
<1>2. CommitTarget(a) = c + k
  BY Zenon DEF CommitTarget, LastLogIndex
<1>3. ASSUME NEW i \in S, NEW j \in c + 1 .. L, j <= i
      PROVE  j \in S
  <2>1. Matching(i) \subseteq Matching(j) /\ IsQuorum(Matching(i))
    BY <1>1, <1>3
  <2>2. QED
    BY <2>1, QuorumGrows
<1>4. S \subseteq c + 1 .. L /\ \A i \in S : IsQuorum(Matching(i))
  OBVIOUS
<1> HIDE DEF S, c, L
<1>5. IsFiniteSet(c + 1 .. L) /\ Cardinality(c + 1 .. L) = L - c
  <2>1. c + 1 \in Int /\ L \in Int
    BY <1>1
  <2>2. /\ IsFiniteSet(c + 1 .. L)
        /\ Cardinality(c + 1 .. L) = IF c + 1 > L THEN 0 ELSE L - (c + 1) + 1
    BY <2>1, FS_Interval
  <2>3. QED
    BY <1>1, <2>2
<1>6. k \in Nat /\ k <= L - c
  BY <1>4, <1>5, FS_Subset, FS_CardinalityType
<1>7. ASSUME k # 0, c + k \notin S
      PROVE  FALSE
  <2>1. c + k \in c + 1 .. L
    BY <1>1, <1>6, <1>7
  <2>2. \A i \in S : i \in c + 1 .. c + k - 1
    BY <1>1, <1>3, <1>4, <1>6, <1>7, <2>1
  <2>3. c + 1 \in Int /\ c + k - 1 \in Int
    BY <1>1, <1>6
  <2>4. /\ IsFiniteSet(c + 1 .. c + k - 1)
        /\ Cardinality(c + 1 .. c + k - 1) =
               IF c + 1 > c + k - 1 THEN 0 ELSE (c + k - 1) - (c + 1) + 1
    BY <2>3, FS_Interval
  <2>5. Cardinality(S) <= Cardinality(c + 1 .. c + k - 1)
    BY <2>2, <2>4, FS_Subset
  <2> HIDE DEF k
  <2>6. Cardinality(c + 1 .. c + k - 1) = k - 1
    BY <1>1, <1>6, <1>7, <2>4
  <2>7. QED
    BY <1>6, <2>5, <2>6 DEF k
<1>8. k = 0 \/ IsQuorum(Matching(c + k))
  BY <1>4, <1>7
<1> HIDE DEF k
<1>9. QED
  BY <1>1, <1>2, <1>6, <1>8 DEF c, L

\* At the start of a tick of s what a majority matches is committed.
LEMMA BeginTickCore ==
  ASSUME TypeOK, NEW s \in Replica, Base(s), NEW n \in Replica, BeginTick(n)
  PROVE  Kept(s)
<1>1. CASE UNCHANGED node
  BY <1>1, BeginTickStep, QuietCore
<1>2. ASSUME NEW t \in State, node[n].role = "leader",
             node' = [node EXCEPT ![n] = t],
             t = [node[n] EXCEPT !.commitIndex = CommitTarget(node[n])]
      PROVE  Kept(s)
  <2>1. n = s /\ node[n] \in State /\ node[n].commitIndex <= Len(node[n].log)
    BY <1>2, BaseFacts DEF Base, OneLogInv, OnlyLeads
  <2>2. /\ t.log = node[n].log /\ t.role = "leader" /\ t.matchIndex = node[n].matchIndex
        /\ t.commitIndex = CommitTarget(node[n])
    <3> DEFINE a == node[n]
               upto == CommitTarget(a)
    <3>1. a \in State /\ t = [a EXCEPT !.commitIndex = upto] /\ a.role = "leader"
      BY <1>2, <2>1
    <3> HIDE DEF a, upto
    <3>2. /\ t.log = a.log /\ t.role = "leader" /\ t.matchIndex = a.matchIndex
          /\ t.commitIndex = upto
      BY <3>1 DEF State
    <3>3. QED
      BY <3>2 DEF a, upto
  <2>3. /\ t.commitIndex \in node[n].commitIndex .. Len(node[n].log)
        /\ \/ t.commitIndex = node[n].commitIndex
           \/ IsQuorum({q \in Replica : node[n].matchIndex[q] >= t.commitIndex})
    BY <2>1, <2>2, CommitTargetFacts
  <2>4. InTransit' \subseteq InTransit
    BY BeginTickStep
  <2>5. Base(s)' /\ Grows(s)
    <3>1. Begins(node[n].log, t.log)
      BY <2>2, BaseFacts, BeginsFacts
    <3>2. IF n = s THEN Distinct(t.log) ELSE Begins(t.log, node[s].log)
      BY <2>1, <2>2 DEF Base, OneLogInv
    <3>3. node[n].commitIndex <= t.commitIndex /\ t.commitIndex <= Len(t.log)
      BY <2>2, <2>3
    <3>4. QED
      BY <1>2, <2>1, <2>4, <3>1, <3>2, <3>3, BaseStep
  <2>6. ASSUME CommitInv(s)
        PROVE  CommitInv(s)'
    <3>1. \A q \in Replica : node[s].matchIndex[q] <= Len(node[q].log)
      BY <2>6 DEF CommitInv
    <3>2. IsQuorum({q \in Replica : t.commitIndex <= Len(node[q].log)})
      <4>1. CASE t.commitIndex = node[n].commitIndex
        BY <2>1, <2>6, <4>1 DEF CommitInv
      <4>2. CASE IsQuorum({q \in Replica : node[n].matchIndex[q] >= t.commitIndex})
        <5>1. \A q \in Replica : /\ node[s].matchIndex[q] \in Nat /\ Len(node[q].log) \in Nat
                                 /\ t.commitIndex \in Nat
          BY <1>2, IndexTypes DEF TypeOK
        <5>2. {q \in Replica : node[n].matchIndex[q] >= t.commitIndex} \subseteq
                  {q \in Replica : t.commitIndex <= Len(node[q].log)}
          BY <2>1, <3>1, <5>1
        <5>3. QED
          BY <4>2, <5>2, QuorumGrows
      <4>3. QED
        BY <2>3, <4>1, <4>2
    <3>3. node[n].commitIndex <= t.commitIndex
      BY <2>2, <2>3
    <3>4. n = s => /\ IsQuorum({q \in Replica : t.commitIndex <= Len(node[q].log)})
                   /\ \A q \in Replica : t.matchIndex[q] <= Len(node[q].log)
      BY <2>1, <2>2, <3>1, <3>2
    <3>5. QED
      BY <1>2, <2>1, <2>4, <2>5, <2>6, <3>3, <3>4, CommitStep DEF Grows
  <2>7. QED
    BY <2>5, <2>6 DEF Kept
<1>3. QED
  BY <1>1, <1>2, BeginTickStep

\* At the end of its tick s puts new commands behind its log.
LEMMA EndLeaderTickCore ==
  ASSUME TypeOK, CommandInv, NEW s \in Replica, Base(s), NEW n \in Replica, EndLeaderTick(n)
  PROVE  Kept(s)
<1>1. CASE UNCHANGED <<node, messages>>
  BY <1>1, EndLeaderTickStep, QuietCore DEF InTransit
<1>2. ASSUME NEW t \in State, NEW read \in [Replica -> Term], NEW tail \in Seq(Item),
             node[n].role = "leader",
             tail = NewItems(node[n], incoming_commands[n]),
             Len(tail) = Len(incoming_commands[n]),
             t = [node[n] EXCEPT !.log = node[n].log \o tail],
             node' = [node EXCEPT ![n] = t],
             AppendEntriesToAll(n, node[n], read) \subseteq AppendEntriesRequest,
             InTransit' \subseteq InTransit \cup AppendEntriesToAll(n, node[n], read)
      PROVE  Kept(s)
  <2> DEFINE f == node[n].log
             new == incoming_commands[n]
  <2>1. /\ n = s /\ node[n] \in State /\ f \in Seq(Item) /\ new \in Seq(Command)
        /\ node[n].commitIndex \in Nat /\ node[n].commitIndex <= Len(f)
    BY <1>2, BaseFacts DEF Base, OneLogInv, OnlyLeads, TypeOK
  <2>2. /\ t.log = f \o tail /\ t.role = "leader" /\ t.matchIndex = node[n].matchIndex
        /\ t.commitIndex = node[n].commitIndex
    <3> DEFINE a == node[n]
               log == f \o tail
    <3>1. a \in State /\ t = [a EXCEPT !.log = log] /\ a.role = "leader"
      BY <1>2, <2>1
    <3> HIDE DEF a, log
    <3>2. /\ t.log = log /\ t.role = "leader" /\ t.matchIndex = a.matchIndex
          /\ t.commitIndex = a.commitIndex
      BY <3>1 DEF State
    <3>3. QED
      BY <3>2 DEF a, log
  <2>3. \A k \in DOMAIN tail : k \in DOMAIN new /\ tail[k].command = new[k]
    BY <1>2, <2>1 DEF NewItems
  <2> HIDE DEF f, new
  <2>4. /\ f \o tail \in Seq(Item) /\ Len(f \o tail) = Len(f) + Len(tail)
        /\ \A i \in 1 .. Len(f) : (f \o tail)[i] = f[i]
        /\ \A i \in 1 .. Len(f) + Len(tail) : i > Len(f) =>
               (f \o tail)[i] = tail[i - Len(f)] /\ i - Len(f) \in 1 .. Len(tail)
    BY <2>1, ExtensionFacts
  <2>5. Begins(f, t.log)
    BY <2>1, <2>2, <2>4 DEF Begins, SameUpTo
  <2>6. Distinct(t.log)
    <3>1. \A i, j \in DOMAIN f : f[i].command = f[j].command => i = j
      BY <2>1 DEF f, Base, OneLogInv, Distinct
    <3>2. \A j, k \in DOMAIN new : new[j] = new[k] => j = k
      BY <2>1 DEF new, CommandInv, PromiseInv, QueueInv
    <3>3. ASSUME NEW i \in DOMAIN f, NEW k \in DOMAIN new
          PROVE  f[i].command # new[k]
      <4>1. Logged(f[i].command)
        BY OwnLog DEF f
      <4>2. Holds(n, 0, new[k]) /\ new[k] \in Command
        BY <2>1 DEF new, Holds
      <4>3. QED
        BY <4>1, <4>2 DEF CommandInv, LoggedInv
    <3>4. ASSUME NEW i \in DOMAIN t.log
          PROVE  \/ i \in DOMAIN f /\ t.log[i] = f[i]
                 \/ /\ i > Len(f) /\ i - Len(f) \in DOMAIN new
                    /\ t.log[i].command = new[i - Len(f)]
      <4>1. i \in 1 .. Len(f) + Len(tail)
        BY <2>2, <2>4
      <4>2. CASE i <= Len(f)
        BY <2>1, <2>2, <2>4, <4>1, <4>2
      <4>3. CASE i > Len(f)
        BY <2>1, <2>2, <2>3, <2>4, <4>1, <4>3
      <4>4. QED
        BY <2>1, <4>1, <4>2, <4>3
    <3>5. ASSUME NEW i \in DOMAIN t.log, NEW j \in DOMAIN t.log,
                 t.log[i].command = t.log[j].command
          PROVE  i = j
      <4>1. i \in Nat /\ j \in Nat /\ Len(f) \in Nat
        BY <2>1, <2>2, <2>4
      <4>2. CASE i \in DOMAIN f /\ t.log[i] = f[i]
        BY <3>1, <3>3, <3>4, <3>5, <4>2
      <4>3. CASE j \in DOMAIN f /\ t.log[j] = f[j]
        BY <3>1, <3>3, <3>4, <3>5, <4>3
      <4>4. CASE /\ i - Len(f) \in DOMAIN new /\ t.log[i].command = new[i - Len(f)]
                 /\ j - Len(f) \in DOMAIN new /\ t.log[j].command = new[j - Len(f)]
        <5>1. i - Len(f) = j - Len(f)
          BY <3>2, <3>5, <4>4
        <5>2. QED
          BY <4>1, <5>1
      <4>5. QED
        BY <3>4, <4>2, <4>3, <4>4
    <3>6. QED
      BY <3>5 DEF Distinct
  <2>7. \A m \in AppendEntriesToAll(n, node[n], read) : FromLog(m, s)
    BY <1>2, <2>1, SentFromLog
  <2>8. node[n].commitIndex <= t.commitIndex /\ t.commitIndex <= Len(t.log)
    BY <2>1, <2>2, <2>4
  <2>9. Base(s)' /\ Grows(s)
    <3>1. \A m \in InTransit' : m.type = "AppendEntriesRequest" =>
              m \in InTransit \/ (Fits(m, node[s].log) /\ m.from = s /\ Within(m))
      BY <1>2, <2>7 DEF FromLog
    <3>2. IF n = s THEN Distinct(t.log) ELSE Begins(t.log, node[s].log)
      BY <2>1, <2>6
    <3>3. Begins(node[n].log, t.log)
      BY <2>5 DEF f
    <3>4. QED
      BY <1>2, <2>1, <2>8, <3>1, <3>2, <3>3, BaseStep
  <2>10. ASSUME CommitInv(s)
         PROVE  CommitInv(s)'
    <3>1. node'[s].commitIndex = node[s].commitIndex
      BY <1>2, <2>1, <2>2 DEF TypeOK
    <3>2. \A m \in InTransit' : m \in InTransit \/ MessageTrue(m, s)'
      BY <1>2, <2>7, <3>1 DEF FromLog, MessageTrue, Within
    <3>3. n = s => /\ IsQuorum({q \in Replica : t.commitIndex <= Len(node[q].log)})
                   /\ \A q \in Replica : t.matchIndex[q] <= Len(node[q].log)
      BY <2>2, <2>10 DEF CommitInv
    <3>4. node' = [node EXCEPT ![n] = t] /\ n = s /\ LogsGrow
      BY <1>2, <2>1, <2>9 DEF Grows
    <3>5. QED
      BY <2>8, <2>10, <3>2, <3>3, <3>4, CommitStep
  <2>11. QED
    BY <2>9, <2>10 DEF Kept
<1>3. QED
  BY <1>1, <1>2, EndLeaderTickStep
-----------------------------------------------------------------------------
(***************************************************************************)
(* The invariant of one log.                                               *)
(***************************************************************************)
\* All that the steps preserve together, and what is known of commit indices.
BaseInv(s) == TypeOK /\ InboxInv /\ CommandInv /\ Base(s)

SInv(s) == BaseInv(s) /\ CommitInv(s)

\* All replicas are a majority.
LEMMA AllQuorum == IsQuorum(Replica)
<1>1. Cardinality(Replica) \in Nat /\ Cardinality(Replica) # 0
  BY ReplicaAssumption, FS_CardinalityType, FS_EmptySet
<1>2. QED
  BY <1>1 DEF IsQuorum

LEMMA CoreInit ==
  ASSUME NEW s \in Replica, Init
  PROVE  Base(s) /\ CommitInv(s) /\ InboxInv
<1>1. \A n \in Replica : /\ node[n].log = << >> /\ node[n].role = "follower"
                         /\ node[n].commitIndex = 0 /\ node[n].matchIndex = Zero
  BY DEF Init, NewNode
<1>2. InTransit = {} /\ BagToSet(inbox) = {}
  BY EmptyBags DEF Init, InTransit
<1>3. /\ OnlyLeads(s) /\ RequestInv(s) /\ Distinct(node[s].log)
      /\ SenderInv(s) /\ OwnCommits /\ InboxInv
  BY <1>1, <1>2 DEF OnlyLeads, RequestInv, Distinct, SenderInv, OwnCommits, InboxInv
<1>4. PrefixInv(s)
  BY <1>1 DEF PrefixInv, Begins, SameUpTo
<1>5. {q \in Replica : node[s].commitIndex <= Len(node[q].log)} = Replica
  BY <1>1
<1>6. CommitInv(s)
  BY <1>1, <1>2, <1>5, AllQuorum DEF CommitInv, Zero
<1>7. QED
  BY <1>3, <1>4, <1>6 DEF Base, OneLogInv

\* Every step preserves the invariant; logs only grow, and commit indices as far as
\* requests tell them right.
LEMMA BaseNext ==
  ASSUME NEW s \in Replica, OnlyLeads(s)', BaseInv(s), [Next]_vars
  PROVE  BaseInv(s)' /\ Kept(s)
<1>1. TypeOK /\ InboxInv /\ CommandInv /\ Base(s)
  BY DEF BaseInv
<1>2. ASSUME UNCHANGED vars
      PROVE  Kept(s)
  <2>1. UNCHANGED <<node, inbox, messages>>
    BY <1>2 DEF vars
  <2>2. QED
    BY <1>1, <2>1, QuietCore DEF InTransit
<1>3. ASSUME NEW n \in Replica, Call(n) \/ BeginTick(n) \/ Receive(n) \/ EndTick(n)
      PROVE  Kept(s)
  <2>1. CASE Call(n)
    <3>1. UNCHANGED <<node, inbox, messages>>
      BY <2>1 DEF Call, AddCommand, GetPersistentCommands, replicaVars
    <3>2. QED
      BY <1>1, <3>1, QuietCore DEF InTransit
  <2>2. CASE BeginTick(n)
    BY <1>1, <2>2, BeginTickCore
  <2>3. CASE Receive(n)
    BY <1>1, <2>3, AppendEntriesRequestCore, RequestVoteRequestCore,
       AppendEntriesResponseCore, RequestVoteResponseCore DEF Receive
  <2>4. CASE EndTick(n)
    <3>1. CASE EndLeaderTick(n)
      BY <1>1, <3>1, EndLeaderTickCore
    <3>2. CASE EndQuietTick(n)
      BY <1>1, <3>2, QuietCore DEF EndQuietTick, InTransit
    <3>3. CASE EndExpiredTick(n)
      BY <1>1, <3>3, EndExpiredTickCore
    <3>4. QED
      BY <2>4, <3>1, <3>2, <3>3 DEF EndTick
  <2>5. QED
    BY <1>3, <2>1, <2>2, <2>3, <2>4
<1>4. Kept(s)
  BY <1>2, <1>3, Zenon DEF Next
<1>5. TypeOK' /\ InboxInv' /\ CommandInv'
  BY <1>1, TypeStep, InboxNext, CommandStep
<1>6. QED
  BY <1>4, <1>5 DEF BaseInv, Kept

LEMMA CoreInvariance ==
  ASSUME NEW s \in Replica
  PROVE  Spec /\ []OnlyLeads(s) => []SInv(s)
<1>1. Init => SInv(s)
  BY TypeInit, CommandInit, CoreInit DEF SInv, BaseInv
<1>2. SInv(s) /\ OnlyLeads(s)' /\ [Next]_vars => SInv(s)'
  BY BaseNext DEF SInv, Kept
<1>3. QED
  BY <1>1, <1>2, PTL DEF Spec

\* What is committed is a part of the log of s.
LEMMA SafeCommits ==
  ASSUME NEW s \in Replica, BaseInv(s)
  PROVE  StateMachineSafety
<1> SUFFICES ASSUME NEW a \in Replica, NEW b \in Replica
             PROVE  /\ node[a].commitIndex <= Len(node[a].log)
                    /\ \A i \in 1 .. node[a].commitIndex :
                           i <= node[b].commitIndex => node[a].log[i] = node[b].log[i]
  BY DEF StateMachineSafety
<1>1. \A q \in {a, b} :
          /\ node[q].commitIndex \in Nat /\ node[q].commitIndex <= Len(node[q].log)
          /\ node[q].log \in Seq(Item) /\ node[s].log \in Seq(Item)
          /\ Begins(node[q].log, node[s].log)
  BY BaseFacts DEF BaseInv
<1>2. \A q \in {a, b} : \A i \in DOMAIN node[q].log : node[q].log[i] = node[s].log[i]
  BY <1>1, BeginsFacts
<1>3. QED
  BY <1>1, <1>2, SMTT(30)

\* As long as nobody but s is elected, what any two replicas have committed is the
\* same, item by item, and lies in their logs: whatever is lost, late or repeated.
THEOREM StateMachineSafetyHolds ==
  ASSUME NEW s \in Replica
  PROVE  Spec /\ []OnlyLeads(s) => []StateMachineSafety
<1>1. SInv(s) => StateMachineSafety
  BY SafeCommits DEF SInv
<1>2. QED
  BY <1>1, CoreInvariance, PTL

\* What the one leader takes for matched is in the other's log, its own log up to
\* that index.
THEOREM MatchIndexTrueHolds ==
  ASSUME NEW s \in Replica
  PROVE  Spec /\ []OnlyLeads(s) => []MatchIndexTrue
<1>1. SInv(s) => MatchIndexTrue
  <2> SUFFICES ASSUME SInv(s), NEW n \in Replica, NEW q \in Replica, node[n].role = "leader"
               PROVE  SameUpTo(node[n].log, node[q].log, node[n].matchIndex[q])
    BY DEF MatchIndexTrue
  <2>1. n = s /\ node[s].matchIndex[q] <= Len(node[q].log)
    BY DEF SInv, BaseInv, Base, OneLogInv, OnlyLeads, CommitInv
  <2>2. /\ node[q].log \in Seq(Item) /\ node[s].log \in Seq(Item)
        /\ Begins(node[q].log, node[s].log)
    BY BaseFacts DEF SInv, BaseInv
  <2>3. node[s].matchIndex[q] \in Nat
    BY IndexTypes, BaseFacts DEF SInv, BaseInv
  <2>4. Len(node[q].log) <= Len(node[s].log)
        /\ \A i \in DOMAIN node[q].log : node[s].log[i] = node[q].log[i]
    BY <2>2, BeginsFacts
  <2>5. QED
    BY <2>1, <2>2, <2>3, <2>4 DEF SameUpTo
<1>2. QED
  BY <1>1, CoreInvariance, PTL

\* No replica commits ahead of the one that leads.
THEOREM CommitNotAheadHolds ==
  ASSUME NEW s \in Replica
  PROVE  Spec /\ []OnlyLeads(s) => []CommitNotAhead
<1>1. SInv(s) => CommitNotAhead
  BY DEF SInv, BaseInv, Base, OneLogInv, OnlyLeads, CommitInv, CommitNotAhead
<1>2. QED
  BY <1>1, CoreInvariance, PTL

\* No step takes back what a replica has committed.
THEOREM CommittedStaysHolds ==
  ASSUME NEW s \in Replica
  PROVE  Spec /\ []OnlyLeads(s) => CommittedStays
<1> DEFINE Stays == \A n \in Replica :
               /\ node[n].commitIndex <= node'[n].commitIndex
               /\ SameUpTo(node[n].log, node'[n].log, node[n].commitIndex)
<1>1. SInv(s) /\ OnlyLeads(s)' /\ [Next]_vars => Stays
  <2> SUFFICES ASSUME SInv(s), OnlyLeads(s)', [Next]_vars, NEW n \in Replica
               PROVE  /\ node[n].commitIndex <= node'[n].commitIndex
                      /\ SameUpTo(node[n].log, node'[n].log, node[n].commitIndex)
    OBVIOUS
  <2>1. BaseInv(s)' /\ LogsGrow /\ CommitsGrow
    BY BaseNext, TrueWithin DEF SInv, Kept, Grows
  <2>2. /\ node[n].log \in Seq(Item) /\ node[n].commitIndex \in Nat
        /\ node[n].commitIndex <= Len(node[n].log)
    BY BaseFacts DEF SInv, BaseInv
  <2>3. node'[n].log \in Seq(Item)
    BY <2>1, LogSeqs DEF BaseInv, TypeOK, State
  <2>4. Begins(node[n].log, node'[n].log) /\ node[n].commitIndex <= node'[n].commitIndex
    BY <2>1 DEF LogsGrow, CommitsGrow
  <2>5. QED
    BY <2>2, <2>3, <2>4 DEF Begins, SameUpTo
<1>2. SInv(s) /\ OnlyLeads(s)' /\ [Next]_vars => [Stays]_vars
  BY <1>1
<1>3. Spec /\ []OnlyLeads(s) => [][Stays]_vars
  BY <1>2, CoreInvariance, PTL DEF Spec
<1>4. QED
  BY <1>3 DEF CommittedStays
-----------------------------------------------------------------------------
(***************************************************************************)
(* What clients are told.                                                  *)
(***************************************************************************)
\* The promises under indices are for the items of s at them; a command that is
\* reported persisted is one that s has committed.
AnswerInv(s) ==
    /\ \A n \in Replica : \A i \in DOMAIN items_to_response[n] :
           n = s /\ i \in DOMAIN node[s].log /\ node[s].log[i].command = items_to_response[n][i]
    /\ \A c \in Command : answer[c] = "persisted" =>
           \E i \in 1 .. node[s].commitIndex : node[s].log[i].command = c

\* The first index a query asks for.
First(q) == IF q.from = 0 THEN 1 ELSE q.from

\* A read that is answered shows a part of the log of s.
ReadInv(s) == \A r \in Reader : reply[r] # None =>
    /\ query[r].node # None
    /\ \A k \in DOMAIN reply[r] :
           /\ First(query[r]) + k - 1 \in DOMAIN node[s].log
           /\ reply[r][k] = node[s].log[First(query[r]) + k - 1].command

\* What a step leaves of the log and the commit index of s.
LEMMA OwnLogGrows ==
  ASSUME NEW s \in Replica, BaseInv(s), BaseInv(s)', Grows(s)
  PROVE  /\ \A i \in DOMAIN node[s].log :
                i \in DOMAIN node'[s].log /\ node'[s].log[i] = node[s].log[i]
         /\ node[s].commitIndex <= node'[s].commitIndex
         /\ node[s].commitIndex \in Nat /\ node'[s].commitIndex \in Nat
         /\ node[s].commitIndex <= Len(node[s].log)
         /\ node'[s].commitIndex <= Len(node'[s].log)
         /\ node[s].log \in Seq(Item) /\ node'[s].log \in Seq(Item)
<1>1. /\ node[s].log \in Seq(Item) /\ node[s].commitIndex \in Nat
      /\ node[s].commitIndex <= Len(node[s].log)
  BY BaseFacts DEF BaseInv
<1>2. /\ node'[s].log \in Seq(Item) /\ node'[s].commitIndex \in Nat
      /\ node'[s].commitIndex <= Len(node'[s].log)
  BY IndexTypes DEF BaseInv, TypeOK, Base, OwnCommits
<1>3. Begins(node[s].log, node'[s].log) /\ node[s].commitIndex <= node'[s].commitIndex
  BY DEF Grows, LogsGrow
<1>4. QED
  BY <1>1, <1>2, <1>3, BeginsFacts

\* How a step changes what clients are told, and where their promises are.
SaysNothing ==
    /\ UNCHANGED items_to_response
    /\ \A c \in Command : answer'[c] = "persisted" => answer[c] = "persisted"

LEMMA Sayings ==
  ASSUME TypeOK, [Next]_vars
  PROVE  \/ SaysNothing
         \/ \E n \in Replica : node[n].role = "leader" /\ BeginTick(n) /\ Commit(n)
         \/ \E n \in Replica : node[n].role = "leader" /\ EndLeaderTick(n) /\ AddNewCommandsToLog(n)
<1>1. UNCHANGED <<items_to_response, answer>> => SaysNothing
  BY DEF SaysNothing
<1>2. CASE UNCHANGED vars
  BY <1>1, <1>2 DEF vars
<1>3. ASSUME NEW n \in Replica, Call(n)
      PROVE  SaysNothing
  BY <1>3 DEF Call, AddCommand, GetPersistentCommands, clientVars, SaysNothing, TypeOK
<1>4. ASSUME NEW n \in Replica, BeginTick(n)
      PROVE  SaysNothing \/ (node[n].role = "leader" /\ Commit(n))
  BY <1>1, <1>4 DEF BeginTick
<1>5. ASSUME NEW n \in Replica, Receive(n)
      PROVE  SaysNothing
  <2>1. ASSUME NEW m \in BagToSet(inbox), HandleAppendEntriesRequest(n, m)
        PROVE  SaysNothing
    <3>1. m \in AppendEntriesRequest /\ UNCHANGED items_to_response
      BY <2>1, AppendEntriesRequestStep
    <3>2. UNCHANGED answer \/ Redirect(n, m.from)
      BY <2>1, Zenon DEF HandleAppendEntriesRequest
    <3>3. m.from \in Replica
      BY <3>1 DEF AppendEntriesRequest
    <3>4. QED
      BY <3>1, <3>2, <3>3, AnswerAssumption DEF Redirect, Answered, SaysNothing
  <2>2. ASSUME NEW m \in BagToSet(inbox),
               \/ HandleRequestVoteRequest(n, m)
               \/ HandleAppendEntriesResponse(n, m)
               \/ HandleRequestVoteResponse(n, m)
        PROVE  SaysNothing
    <3>1. UNCHANGED clientVars
      BY <2>2, Zenon DEF HandleRequestVoteRequest, HandleAppendEntriesResponse,
         HandleRequestVoteResponse
    <3>2. QED
      BY <1>1, <3>1 DEF clientVars
  <2>3. QED
    BY <1>5, <2>1, <2>2, Zenon DEF Receive
<1>6. ASSUME NEW n \in Replica, EndTick(n)
      PROVE  SaysNothing \/ (node[n].role = "leader" /\ EndLeaderTick(n) /\ AddNewCommandsToLog(n))
  <2>1. CASE EndLeaderTick(n)
    BY <1>1, <2>1 DEF EndLeaderTick, clientVars
  <2>2. CASE EndQuietTick(n) \/ EndExpiredTick(n)
    BY <1>1, <2>2 DEF EndQuietTick, EndExpiredTick, clientVars
  <2>3. QED
    BY <1>6, <2>1, <2>2 DEF EndTick
<1>7. QED
  BY <1>2, <1>3, <1>4, <1>5, <1>6, Zenon DEF Next

LEMMA AnswerNext ==
  ASSUME NEW s \in Replica, OnlyLeads(s)', BaseInv(s), AnswerInv(s), [Next]_vars
  PROVE  AnswerInv(s)'
<1>1. BaseInv(s)' /\ Grows(s)
  BY BaseNext DEF Kept
<1>2. /\ \A i \in DOMAIN node[s].log :
             i \in DOMAIN node'[s].log /\ node'[s].log[i] = node[s].log[i]
      /\ node[s].commitIndex <= node'[s].commitIndex
      /\ node[s].commitIndex \in Nat /\ node'[s].commitIndex \in Nat
      /\ node[s].commitIndex <= Len(node[s].log)
      /\ node[s].log \in Seq(Item)
  BY <1>1, OwnLogGrows
<1>3. \A i \in 1 .. node[s].commitIndex : /\ i \in 1 .. node'[s].commitIndex
                                          /\ node'[s].log[i] = node[s].log[i]
  BY <1>2
<1>4. ASSUME NEW c \in Command, answer[c] = "persisted"
      PROVE  \E i \in 1 .. node'[s].commitIndex : node'[s].log[i].command = c
  <2>1. PICK i \in 1 .. node[s].commitIndex : node[s].log[i].command = c
    BY <1>4 DEF AnswerInv
  <2>2. QED
    BY <1>3, <2>1
<1>5. CASE SaysNothing
  <2>1. ASSUME NEW n \in Replica, NEW i \in DOMAIN items_to_response'[n]
        PROVE  /\ n = s /\ i \in DOMAIN node'[s].log
               /\ node'[s].log[i].command = items_to_response'[n][i]
    BY <1>2, <1>5 DEF SaysNothing, AnswerInv
  <2>2. QED
    BY <1>4, <1>5, <2>1 DEF SaysNothing, AnswerInv
<1>6. ASSUME NEW n \in Replica, node[n].role = "leader", BeginTick(n), Commit(n)
      PROVE  AnswerInv(s)'
  <2>1. n = s
    BY <1>6 DEF BaseInv, Base, OneLogInv, OnlyLeads
  <2> DEFINE done == node[n].commitIndex + 1 .. CommitTarget(node[n])
  <2>2. /\ node'[n].commitIndex = CommitTarget(node[n])
        /\ answer' = Answered(Owed(n, done), "persisted")
        /\ items_to_response' =
               [items_to_response EXCEPT ![n] =
                   [i \in DOMAIN items_to_response[n] \ done |-> items_to_response[n][i]]]
    <3>1. node' = [node EXCEPT ![n].commitIndex = CommitTarget(node[n])]
      BY <1>6 DEF Commit
    <3>2. node[n] \in State
      BY DEF BaseInv, TypeOK
    <3>3. node'[n].commitIndex = CommitTarget(node[n])
      BY <3>1, <3>2 DEF BaseInv, TypeOK, State
    <3>4. QED
      BY <1>6, <3>3 DEF Commit
  <2> HIDE DEF done
  <2>3. ASSUME NEW p \in Replica, NEW i \in DOMAIN items_to_response'[p]
        PROVE  /\ i \in DOMAIN items_to_response[p]
               /\ items_to_response'[p][i] = items_to_response[p][i]
    BY <2>2 DEF BaseInv, TypeOK
  <2>4. ASSUME NEW c \in Command, answer'[c] = "persisted", answer[c] # "persisted"
        PROVE  \E i \in 1 .. node'[s].commitIndex : node'[s].log[i].command = c
    <3>1. c \in Owed(n, done)
      BY <2>2, <2>4 DEF Answered
    <3>2. PICK i \in DOMAIN items_to_response[n] \cap done : items_to_response[n][i] = c
      BY <3>1 DEF Owed
    <3>3. i \in DOMAIN node[s].log /\ node[s].log[i].command = c
      BY <2>1, <3>2 DEF AnswerInv
    <3>4. i \in 1 .. node'[s].commitIndex
      BY <1>2, <2>1, <2>2, <3>2 DEF done
    <3>5. QED
      BY <1>2, <3>3, <3>4
  <2>5. \A c \in Command : answer'[c] = "persisted" =>
            \E i \in 1 .. node'[s].commitIndex : node'[s].log[i].command = c
    BY <1>4, <2>4
  <2>6. \A p \in Replica : \A i \in DOMAIN items_to_response'[p] :
            /\ p = s /\ i \in DOMAIN node'[s].log
            /\ node'[s].log[i].command = items_to_response'[p][i]
    BY <1>2, <2>3 DEF AnswerInv
  <2>7. QED
    BY <2>5, <2>6 DEF AnswerInv
<1>7. ASSUME NEW n \in Replica, node[n].role = "leader", EndLeaderTick(n), AddNewCommandsToLog(n)
      PROVE  AnswerInv(s)'
  <2>1. n = s
    BY <1>7 DEF BaseInv, Base, OneLogInv, OnlyLeads
  <2> DEFINE new == incoming_commands[n]
             base == Len(node[n].log)
             added == base + 1 .. base + Len(new)
             tail == NewItems(node[n], new)
             items == items_to_response[n]
  <2>2. /\ new \in Seq(Command) /\ base \in Nat /\ node[n].log \in Seq(Item)
        /\ tail \in Seq(Item) /\ Len(tail) = Len(new)
        /\ \A k \in DOMAIN new : tail[k].command = new[k]
    <3>1. new \in Seq(Command) /\ node[n] \in State /\ node[n].log \in Seq(Item)
      BY LogSeqs DEF BaseInv, TypeOK
    <3>2. \A k \in DOMAIN new : new[k] \in Command
      BY <3>1
    <3>3. QED
      BY <3>1, <3>2, SMTT(30) DEF NewItems, Item, State
  <2>3. /\ node'[n].log = node[n].log \o tail
        /\ answer' = Answered(Owed(n, added), "broken")
        /\ items_to_response' =
               [items_to_response EXCEPT ![n] =
                   [i \in DOMAIN items \cup added |-> IF i \in added THEN new[i - base] ELSE items[i]]]
    <3>1. node' = [node EXCEPT ![n].log = node[n].log \o tail] /\ node[n] \in State
      BY <1>7 DEF AddNewCommandsToLog, BaseInv, TypeOK
    <3>2. node'[n].log = node[n].log \o tail
      BY <3>1 DEF BaseInv, TypeOK, State
    <3>3. QED
      BY <1>7, <3>2 DEF AddNewCommandsToLog, LastLogIndex
  <2> HIDE DEF tail, new, base, items
  <2>4. ASSUME NEW i \in added
        PROVE  i \in DOMAIN node'[n].log /\ node'[n].log[i].command = new[i - base]
    <3>1. i \in 1 .. base + Len(tail) /\ i > base
      <4>1. Len(new) \in Nat /\ base \in Nat /\ Len(tail) = Len(new)
        BY <2>2
      <4>2. i \in base + 1 .. base + Len(new)
        BY <2>4
      <4>3. QED
        BY <4>1, <4>2
    <3>2. /\ (node[n].log \o tail)[i] = tail[i - base] /\ i - base \in 1 .. Len(tail)
          /\ Len(node[n].log \o tail) = base + Len(tail) /\ node[n].log \o tail \in Seq(Item)
      BY <2>2, <3>1, ExtensionFacts DEF base
    <3>3. node'[n].log = node[n].log \o tail
      BY <2>3
    <3>4. i \in DOMAIN node'[n].log
      <4>1. DOMAIN (node[n].log \o tail) = 1 .. base + Len(tail)
        BY <3>2
      <4>2. QED
        BY <3>1, <3>3, <4>1
    <3>5. i - base \in DOMAIN new /\ tail[i - base].command = new[i - base]
      <4>1. DOMAIN new = 1 .. Len(new)
        BY <2>2
      <4>2. QED
        BY <2>2, <3>2, <4>1
    <3>6. QED
      BY <3>2, <3>3, <3>4, <3>5
  <2>5. \A i \in DOMAIN items \cup added :
            /\ i \in DOMAIN node'[n].log
            /\ node'[n].log[i].command = IF i \in added THEN new[i - base] ELSE items[i]
    <3>1. \A i \in DOMAIN items : i \in DOMAIN node'[n].log /\ node'[n].log[i].command = items[i]
      BY <1>2, <2>1 DEF AnswerInv, items
    <3>2. QED
      BY <2>4, <3>1
  <2> HIDE DEF added
  <2>6. ASSUME NEW p \in Replica, NEW i \in DOMAIN items_to_response'[p]
        PROVE  /\ p = s /\ i \in DOMAIN node'[s].log
               /\ node'[s].log[i].command = items_to_response'[p][i]
    <3>1. CASE p = n
      <4>1. items_to_response'[n] =
                [j \in DOMAIN items \cup added |-> IF j \in added THEN new[j - base] ELSE items[j]]
        BY <2>3 DEF BaseInv, TypeOK, items
      <4>2. QED
        BY <2>1, <2>5, <2>6, <3>1, <4>1
    <3>2. CASE p # n
      BY <1>2, <2>3, <2>6, <3>2 DEF BaseInv, TypeOK, AnswerInv
    <3>3. QED
      BY <3>1, <3>2
  <2>7. \A c \in Command : answer'[c] = "persisted" => answer[c] = "persisted"
    BY <2>3 DEF Answered
  <2>8. QED
    BY <1>4, <2>6, <2>7 DEF AnswerInv
<1>8. QED
  BY <1>5, <1>6, <1>7, Sayings DEF BaseInv

\* The index behind the last one that a query reads from a replica in state a.
Upto(a, q) == IF First(q) + q.count <= a.commitIndex + 1 THEN First(q) + q.count
                                                         ELSE a.commitIndex + 1

\* A read shows items up to the commit index, never what lies outside the log.
LEMMA PersistentCommandsFacts ==
  ASSUME NEW a \in State, a.commitIndex <= Len(a.log), NEW q, q.from \in Nat, q.count \in Nat
  PROVE  /\ First(q) \in Nat \ {0} /\ Upto(a, q) \in Nat
         /\ \A k \in 1 .. (IF First(q) < Upto(a, q) THEN Upto(a, q) - First(q) ELSE 0) :
                /\ First(q) + k - 1 \in 1 .. a.commitIndex
                /\ First(q) + k - 1 \in DOMAIN a.log
                /\ a.log[First(q) + k - 1].command \in Command
         /\ PersistentCommands(a, q) =
                [k \in 1 .. (IF First(q) < Upto(a, q) THEN Upto(a, q) - First(q) ELSE 0) |->
                    a.log[First(q) + k - 1].command]
         /\ PersistentCommands(a, q) \in Seq(Command)
<1> DEFINE from == First(q)
           upto == Upto(a, q)
           len == IF from < upto THEN upto - from ELSE 0
<1>1. a.log \in Seq(Item) /\ Len(a.log) \in Nat /\ a.commitIndex \in Nat
  BY IndexTypes
<1>2. from \in Nat \ {0} /\ upto \in Nat /\ upto <= a.commitIndex + 1
  BY <1>1 DEF First, Upto
<1>3. PersistentCommands(a, q) =
          [k \in 1 .. len |-> IF from + k - 1 <= Len(a.log) THEN a.log[from + k - 1].command
                                                            ELSE Garbage]
  BY Zenon DEF PersistentCommands, First, Upto, LastLogIndex
<1> HIDE DEF from, upto
<1>4. len \in Nat /\ len <= IF from < upto THEN a.commitIndex + 1 - from ELSE 0
  BY <1>1, <1>2
<1>5. ASSUME NEW k \in 1 .. len
      PROVE  /\ from + k - 1 \in 1 .. a.commitIndex
             /\ from + k - 1 <= Len(a.log)
             /\ from + k - 1 \in DOMAIN a.log
  BY <1>1, <1>2, <1>4
<1>6. ASSUME NEW k \in 1 .. len
      PROVE  a.log[from + k - 1].command \in Command
  <2>1. a.log[from + k - 1] \in Item
    BY <1>1, <1>5
  <2>2. QED
    BY <2>1 DEF Item
<1> HIDE DEF len
<1>7. PersistentCommands(a, q) = [k \in 1 .. len |-> a.log[from + k - 1].command]
  BY <1>3, <1>5
<1>8. PersistentCommands(a, q) \in Seq(Command)
  <2>1. \A k \in 1 .. len : a.log[from + k - 1].command \in Command
    BY <1>6
  <2>2. [k \in 1 .. len |-> a.log[from + k - 1].command] \in [1 .. len -> Command]
    BY <2>1
  <2>3. len \in Nat
    BY <1>4
  <2>4. QED
    BY <1>7, <2>2, <2>3, SeqDef
<1>9. QED
  BY <1>2, <1>5, <1>6, <1>7, <1>8 DEF from, upto, len

LEMMA ReadNext ==
  ASSUME NEW s \in Replica, OnlyLeads(s)', BaseInv(s), ReadInv(s), [Next]_vars
  PROVE  ReadInv(s)'
<1>1. \A i \in DOMAIN node[s].log : i \in DOMAIN node'[s].log /\ node'[s].log[i] = node[s].log[i]
  BY BaseNext, OwnLogGrows DEF Kept
<1>2. CASE UNCHANGED readVars
  BY <1>1, <1>2 DEF readVars, ReadInv, First
<1>3. ASSUME NEW n \in Replica, NEW r \in Reader, NEW q \in Query, GetPersistentCommands(n, r, q)
      PROVE  ReadInv(s)'
  <2> SUFFICES ASSUME NEW p \in Reader, reply'[p] # None
               PROVE  /\ query'[p].node # None
                      /\ \A k \in DOMAIN reply'[p] :
                             /\ First(query'[p]) + k - 1 \in DOMAIN node'[s].log
                             /\ reply'[p][k] = node'[s].log[First(query'[p]) + k - 1].command
    BY DEF ReadInv
  <2>1. reply' = reply /\ query[r].node = None
        /\ query' = [query EXCEPT ![r] = [node |-> n, from |-> q.from, count |-> q.count]]
    BY <1>3 DEF GetPersistentCommands
  <2>2. p # r
    BY <2>1 DEF ReadInv
  <2>3. query'[p] = query[p]
    BY <2>1, <2>2 DEF BaseInv, TypeOK
  <2>4. QED
    BY <1>1, <2>1, <2>3 DEF ReadInv
<1>4. ASSUME NEW n \in Replica, BeginTick(n)
      PROVE  ReadInv(s)'
  <2> SUFFICES ASSUME NEW p \in Reader, reply'[p] # None
               PROVE  /\ query'[p].node # None
                      /\ \A k \in DOMAIN reply'[p] :
                             /\ First(query'[p]) + k - 1 \in DOMAIN node'[s].log
                             /\ reply'[p][k] = node'[s].log[First(query'[p]) + k - 1].command
    BY DEF ReadInv
  <2>1. /\ query' = query
        /\ reply'[p] = IF Asking(p) /\ query[p].node = n
                       THEN PersistentCommands(node[n], query[p]) ELSE reply[p]
    BY <1>4 DEF BeginTick, ServeReads
  <2>2. CASE Asking(p) /\ query[p].node = n
    <3>1. /\ node[n] \in State /\ node[n].commitIndex <= Len(node[n].log)
          /\ node[n].log \in Seq(Item) /\ node[s].log \in Seq(Item)
          /\ Begins(node[n].log, node[s].log)
          /\ query[p].from \in Nat /\ query[p].count \in Nat
      BY BaseFacts DEF BaseInv, TypeOK
    <3>2. \A i \in DOMAIN node[n].log : i \in DOMAIN node[s].log /\ node[s].log[i] = node[n].log[i]
      BY <3>1, BeginsFacts
    <3>3. ASSUME NEW k \in DOMAIN reply'[p]
          PROVE  /\ First(query[p]) + k - 1 \in DOMAIN node[n].log
                 /\ reply'[p][k] = node[n].log[First(query[p]) + k - 1].command
      <4> DEFINE a == node[n]
                 r == query[p]
                 len == IF First(r) < Upto(a, r) THEN Upto(a, r) - First(r) ELSE 0
      <4>1. /\ a \in State /\ a.commitIndex <= Len(a.log) /\ r.from \in Nat /\ r.count \in Nat
            /\ reply'[p] = PersistentCommands(a, r)
        BY <2>1, <2>2, <3>1
      <4> HIDE DEF a, r
      <4>2. /\ PersistentCommands(a, r) = [j \in 1 .. len |-> a.log[First(r) + j - 1].command]
            /\ \A j \in 1 .. len : First(r) + j - 1 \in DOMAIN a.log
        BY <4>1, PersistentCommandsFacts
      <4> HIDE DEF len
      <4>3. k \in 1 .. len
        BY <3>3, <4>1, <4>2
      <4>4. First(r) + k - 1 \in DOMAIN a.log /\ reply'[p][k] = a.log[First(r) + k - 1].command
        BY <4>1, <4>2, <4>3
      <4>5. QED
        BY <4>4 DEF a, r
    <3>4. query[p].node # None
      BY <2>2 DEF Asking
    <3>5. QED
      BY <1>1, <2>1, <3>2, <3>3, <3>4
  <2>3. CASE ~ (Asking(p) /\ query[p].node = n)
    BY <1>1, <2>1, <2>3 DEF ReadInv
  <2>4. QED
    BY <2>2, <2>3
<1>5. UNCHANGED readVars \/ \E n \in Replica : \/ BeginTick(n)
                                               \/ \E r \in Reader, q \in Query :
                                                      GetPersistentCommands(n, r, q)
  <2>1. ASSUME NEW n \in Replica, NEW m \in BagToSet(inbox),
               \/ HandleAppendEntriesRequest(n, m)
               \/ HandleRequestVoteRequest(n, m)
               \/ HandleAppendEntriesResponse(n, m)
               \/ HandleRequestVoteResponse(n, m)
        PROVE  UNCHANGED readVars
    BY <2>1, Zenon DEF HandleAppendEntriesRequest, HandleRequestVoteRequest,
       HandleAppendEntriesResponse, HandleRequestVoteResponse
  <2>2. ASSUME NEW n \in Replica, EndTick(n)
        PROVE  UNCHANGED readVars
    BY <2>2, Zenon DEF EndTick, EndLeaderTick, EndQuietTick, EndExpiredTick
  <2>3. ASSUME NEW n \in Replica, NEW c \in Command, AddCommand(n, c)
        PROVE  UNCHANGED readVars
    BY <2>3, Zenon DEF AddCommand
  <2>4. UNCHANGED vars => UNCHANGED readVars
    BY DEF vars, readVars
  <2>5. QED
    BY <2>1, <2>2, <2>3, <2>4, Zenon DEF Next, Call, Receive
<1>6. QED
  BY <1>2, <1>3, <1>4, <1>5
-----------------------------------------------------------------------------
(***************************************************************************)
(* What clients can rely on.                                               *)
(***************************************************************************)
ClientInv(s) == BaseInv(s) /\ AnswerInv(s) /\ ReadInv(s)

LEMMA ClientInit ==
  ASSUME NEW s \in Replica, Init
  PROVE  ClientInv(s) /\ CommitInv(s)
<1>1. BaseInv(s) /\ CommitInv(s)
  BY TypeInit, CommandInit, CoreInit DEF BaseInv
<1>2. /\ \A n \in Replica : DOMAIN items_to_response[n] = {}
      /\ \A c \in Command : answer[c] = "new"
      /\ \A r \in Reader : reply[r] = None
  BY DEF Init
<1>3. QED
  BY <1>1, <1>2 DEF ClientInv, AnswerInv, ReadInv

LEMMA ClientNext ==
  ASSUME NEW s \in Replica, OnlyLeads(s)', ClientInv(s), [Next]_vars
  PROVE  ClientInv(s)' /\ Kept(s)
BY BaseNext, AnswerNext, ReadNext DEF ClientInv

LEMMA ClientInvariance ==
  ASSUME NEW s \in Replica
  PROVE  Spec /\ []OnlyLeads(s) => [](ClientInv(s) /\ CommitInv(s))
<1>1. Init => ClientInv(s) /\ CommitInv(s)
  BY ClientInit
<1>2. ClientInv(s) /\ CommitInv(s) /\ OnlyLeads(s)' /\ [Next]_vars => ClientInv(s)' /\ CommitInv(s)'
  BY ClientNext DEF Kept
<1>3. QED
  BY <1>1, <1>2, PTL DEF Spec

\* A command that is reported persisted is in the logs of a majority.
THEOREM PersistedOnQuorumHolds ==
  ASSUME NEW s \in Replica
  PROVE  Spec /\ []OnlyLeads(s) => []PersistedOnQuorum
<1>1. ClientInv(s) /\ CommitInv(s) => PersistedOnQuorum
  <2> SUFFICES ASSUME ClientInv(s), CommitInv(s), NEW c \in Command, answer[c] = "persisted"
               PROVE  IsQuorum({n \in Replica : \E i \in DOMAIN node[n].log :
                                    node[n].log[i].command = c})
    BY DEF PersistedOnQuorum
  <2>1. PICK i \in 1 .. node[s].commitIndex : node[s].log[i].command = c
    BY DEF ClientInv, AnswerInv
  <2>2. ASSUME NEW q \in Replica, node[s].commitIndex <= Len(node[q].log)
        PROVE  \E j \in DOMAIN node[q].log : node[q].log[j].command = c
    <3>1. /\ node[q].log \in Seq(Item) /\ node[s].log \in Seq(Item)
          /\ Begins(node[q].log, node[s].log) /\ node[s].commitIndex \in Nat
      BY BaseFacts DEF ClientInv, BaseInv
    <3>2. i \in DOMAIN node[q].log
      BY <2>2, <3>1
    <3>3. node[q].log[i] = node[s].log[i]
      BY <3>1, <3>2, BeginsFacts
    <3>4. QED
      BY <2>1, <3>2, <3>3
  <2>3. IsQuorum({q \in Replica : node[s].commitIndex <= Len(node[q].log)})
    BY DEF CommitInv
  <2>4. {q \in Replica : node[s].commitIndex <= Len(node[q].log)} \subseteq
            {n \in Replica : \E j \in DOMAIN node[n].log : node[n].log[j].command = c}
    BY <2>2
  <2>5. QED
    BY <2>3, <2>4, QuorumGrows
<1>2. QED
  BY <1>1, ClientInvariance, PTL

\* All that is read is in the log of s.
LEMMA SameReads ==
  ASSUME NEW s \in Replica, ClientInv(s)
  PROVE  ReadsAgree
BY DEF ClientInv, ReadInv, ReadsAgree, First

\* Two reads from the same index see the same commands, on whatever replicas and
\* however far apart.
THEOREM ReadsAgreeHolds ==
  ASSUME NEW s \in Replica
  PROVE  Spec /\ []OnlyLeads(s) => []ReadsAgree
<1>1. ClientInv(s) => ReadsAgree
  BY SameReads
<1>2. QED
  BY <1>1, ClientInvariance, PTL
-----------------------------------------------------------------------------
(***************************************************************************)
(* The replicated log.                                                     *)
(***************************************************************************)
\* The order of the commands is that of the log of s.
OrderOf(s) == [i \in DOMAIN node[s].log |-> node[s].log[i].command]

Longest(s) == LongestLog = OrderOf(s)

\* No log is longer than that of s, and one as long is the same.
LEMMA OrderFacts ==
  ASSUME NEW s \in Replica
  PROVE  (BaseInv(s) => Longest(s)) /\ (BaseInv(s)' => Longest(s)')
<1>1. BaseInv(s) => Longest(s)
  <2> SUFFICES ASSUME BaseInv(s) PROVE LongestLog = OrderOf(s)
    BY DEF Longest
  <2> DEFINE n == CHOOSE q \in Replica : \A p \in Replica : Len(node[p].log) <= Len(node[q].log)
  <2>1. \A p \in Replica : /\ node[p].log \in Seq(Item)
                           /\ Begins(node[p].log, node[s].log)
    BY BaseFacts DEF BaseInv
  <2>2. \A p \in Replica : Len(node[p].log) <= Len(node[s].log)
    BY <2>1, BeginsFacts
  <2>3. n \in Replica /\ \A p \in Replica : Len(node[p].log) <= Len(node[n].log)
    BY <2>2
  <2>4. LongestLog = [i \in DOMAIN node[n].log |-> node[n].log[i].command]
    BY Zenon DEF LongestLog
  <2> HIDE DEF n
  <2>5. Len(node[s].log) <= Len(node[n].log)
    BY <2>3
  <2>6. \A i \in DOMAIN node[n].log : i \in DOMAIN node[s].log /\ node[s].log[i] = node[n].log[i]
    BY <2>1, <2>3, BeginsFacts
  <2>7. DOMAIN node[n].log = DOMAIN node[s].log
    BY <2>1, <2>2, <2>3, <2>5
  <2>8. QED
    BY <2>4, <2>6, <2>7 DEF OrderOf
<1>2. QED
  BY <1>1, PTL

\* The commands in the order, by their indices in the log of s.
LEMMA OrderTypes ==
  ASSUME NEW s \in Replica, BaseInv(s)
  PROVE  /\ node[s].log \in Seq(Item)
         /\ OrderOf(s) \in Seq(Command)
         /\ Len(OrderOf(s)) = Len(node[s].log)
         /\ DOMAIN OrderOf(s) = 1 .. Len(node[s].log)
         /\ \A i \in 1 .. Len(node[s].log) : /\ OrderOf(s)[i] = node[s].log[i].command
                                             /\ OrderOf(s)[i] \in Command
<1>1. node[s].log \in Seq(Item)
  BY BaseFacts DEF BaseInv
<1>2. \A i \in 1 .. Len(node[s].log) : node[s].log[i] \in Item
  BY <1>1
<1>3. \A i \in 1 .. Len(node[s].log) : node[s].log[i].command \in Command
  BY <1>2 DEF Item
<1>4. DOMAIN node[s].log = 1 .. Len(node[s].log) /\ Len(node[s].log) \in Nat
  BY <1>1
<1>5. OrderOf(s) = [i \in 1 .. Len(node[s].log) |-> node[s].log[i].command]
  BY <1>4 DEF OrderOf
<1>6. QED
  BY <1>1, <1>3, <1>4, <1>5

\* A read of a replica reads its prefix of the order.
LEMMA ReadImplements ==
  ASSUME NEW s \in Replica, BaseInv(s), NEW n \in Replica, NEW q, q.from \in Nat, q.count \in Nat
  PROVE  PersistentCommands(node[n], q) = Log!PersistentCommands(n, q)
<1> DEFINE from == First(q)
           last == from + q.count - 1
           commit == node[n].commitIndex
           end == IF last <= commit THEN last ELSE commit
           order == OrderOf(s)
           a == node[n]
           len == IF from < Upto(a, q) THEN Upto(a, q) - from ELSE 0
<1>1. LongestLog = order
  BY OrderFacts DEF Longest
<1>2. CommitIndices[n] = commit
  BY DEF CommitIndices
<1>3. Log!PersistentCommands(n, q) = SubSeq(order, from, end)
  BY <1>1, <1>2, Zenon DEF Log!PersistentCommands, First
<1>4. /\ a \in State /\ commit \in Nat /\ commit <= Len(a.log)
      /\ a.log \in Seq(Item) /\ node[s].log \in Seq(Item) /\ Begins(a.log, node[s].log)
  BY BaseFacts DEF BaseInv
<1>5. /\ from \in Nat \ {0} /\ Upto(a, q) \in Nat
      /\ \A k \in 1 .. len : /\ from + k - 1 \in 1 .. commit
                             /\ from + k - 1 \in DOMAIN a.log
      /\ PersistentCommands(a, q) = [k \in 1 .. len |-> a.log[from + k - 1].command]
  BY <1>4, PersistentCommandsFacts
<1>6. Upto(a, q) = end + 1 /\ end \in Nat /\ end <= commit
  <2>1. Upto(a, q) = IF from + q.count <= commit + 1 THEN from + q.count ELSE commit + 1
    BY DEF Upto
  <2>2. from \in Nat \ {0} /\ q.count \in Nat /\ commit \in Nat
    BY <1>4, <1>5
  <2> HIDE DEF from, commit, a
  <2>3. QED
    BY <2>1, <2>2
<1>7. len = IF from <= end THEN end - from + 1 ELSE 0
  BY <1>5, <1>6
<1>8. order \in Seq(Command) /\ Len(order) = Len(node[s].log)
      /\ \A i \in 1 .. Len(node[s].log) : order[i] = node[s].log[i].command
  BY OrderTypes
<1>9. /\ Len(a.log) <= Len(node[s].log)
      /\ \A i \in DOMAIN a.log : i \in DOMAIN node[s].log /\ node[s].log[i] = a.log[i]
  BY <1>4, BeginsFacts
<1>10. \A k \in 1 .. len : order[from + k - 1] = a.log[from + k - 1].command
  <2> TAKE k \in 1 .. len
  <2>1. from + k - 1 \in DOMAIN a.log /\ from + k - 1 \in DOMAIN node[s].log
    BY <1>5, <1>9
  <2>2. from + k - 1 \in 1 .. Len(node[s].log)
    BY <1>4, <2>1
  <2>3. QED
    BY <1>8, <1>9, <2>1, <2>2
<1> HIDE DEF from, end, order, a, commit
<1>11. SubSeq(order, from, end) = [k \in 1 .. len |-> order[from + k - 1]]
  BY <1>4, <1>5, <1>6, <1>7, <1>8, <1>9
<1> HIDE DEF len
<1>12. QED
  BY <1>3, <1>5, <1>10, <1>11 DEF a

\* The order, as long as the log of s stays.
LEMMA SameOrder ==
  ASSUME NEW s \in Replica, BaseInv(s), BaseInv(s)', node'[s].log = node[s].log
  PROVE  LongestLog' = LongestLog
<1>1. LongestLog = OrderOf(s) /\ LongestLog' = OrderOf(s)'
  BY OrderFacts DEF Longest
<1>2. OrderOf(s)' = OrderOf(s)
  BY DEF OrderOf
<1>3. QED
  BY <1>1, <1>2

\* The commit indices, when the state of n becomes t.
LEMMA CommitIndicesFacts ==
  ASSUME TypeOK, NEW n \in Replica, NEW t \in State, node' = [node EXCEPT ![n] = t]
  PROVE  /\ CommitIndices' = [CommitIndices EXCEPT ![n] = t.commitIndex]
         /\ CommitIndices[n] = node[n].commitIndex
<1>1. node'[n] = t /\ \A q \in Replica \ {n} : node'[q] = node[q]
  BY DEF TypeOK
<1>2. CommitIndices' = [q \in Replica |-> IF q = n THEN t.commitIndex ELSE node[q].commitIndex]
  BY <1>1 DEF CommitIndices
<1>3. QED
  BY <1>2 DEF CommitIndices

\* A step that the replicated log does not see.
LEMMA Stutter ==
  ASSUME NEW s \in Replica, BaseInv(s), BaseInv(s)',
         \A q \in Replica : /\ node'[q].log = node[q].log
                            /\ node'[q].commitIndex = node[q].commitIndex,
         UNCHANGED <<answer, query, reply>>
  PROVE  UNCHANGED Log!logVars
<1>1. LongestLog' = LongestLog
  BY SameOrder
<1>2. CommitIndices' = CommitIndices
  BY DEF CommitIndices
<1>3. QED
  BY <1>1, <1>2 DEF Log!logVars

\* A command whose promise is held waits; one in the order is logged.
LEMMA OrderedFacts ==
  ASSUME NEW s \in Replica, BaseInv(s), NEW c \in Command
  PROVE  /\ \A n \in Replica, i \in Nat : Holds(n, i, c) => c \in Log!Waiting
         /\ c \in Log!UpTo(Len(LongestLog)) => Logged(c)
<1>1. ASSUME NEW n \in Replica, NEW i \in Nat, Holds(n, i, c)
      PROVE  c \in Log!Waiting
  BY <1>1 DEF BaseInv, CommandInv, PromiseInv, WaitingInv, Log!Waiting
<1>2. ASSUME c \in Log!UpTo(Len(LongestLog))
      PROVE  Logged(c)
  <2>1. LongestLog = OrderOf(s)
    BY OrderFacts DEF Longest
  <2>2. PICK i \in 1 .. Len(OrderOf(s)) : OrderOf(s)[i] = c
    BY <1>2, <2>1 DEF Log!UpTo
  <2>3. i \in DOMAIN node[s].log /\ node[s].log[i].command = c
    BY <2>2, OrderTypes
  <2>4. QED
    BY <2>3, OwnLog DEF BaseInv
<1>3. QED
  BY <1>1, <1>2

\* A replica's commit index lies within the order, before and after a step.
LEMMA LearnStep ==
  ASSUME NEW s \in Replica, BaseInv(s), BaseInv(s)', NEW n \in Replica,
         NEW t \in State, node' = [node EXCEPT ![n] = t], node'[s].log = node[s].log
  PROVE  /\ CommitIndices' = [CommitIndices EXCEPT ![n] = t.commitIndex]
         /\ t.commitIndex \in 0 .. Len(LongestLog)
         /\ node[n].commitIndex <= t.commitIndex =>
                /\ Log!Learn(n, t.commitIndex)
                /\ t.commitIndex \in CommitIndices[n] .. Len(LongestLog)
<1>1. /\ CommitIndices' = [CommitIndices EXCEPT ![n] = t.commitIndex]
      /\ CommitIndices[n] = node[n].commitIndex
  BY CommitIndicesFacts DEF BaseInv
<1>2. node'[n] = t
  BY DEF BaseInv, TypeOK
<1>3. t.commitIndex <= Len(node[s].log)
  <2>1. t.commitIndex <= Len(t.log) /\ Begins(t.log, node[s].log)
    BY <1>2 DEF BaseInv, Base, OneLogInv, PrefixInv, OwnCommits
  <2>2. Len(t.log) <= Len(node[s].log)
    BY <2>1 DEF Begins, SameUpTo
  <2>3. t.commitIndex \in Nat /\ Len(t.log) \in Nat /\ Len(node[s].log) \in Nat
    BY IndexTypes, BaseFacts DEF BaseInv
  <2>4. QED
    BY <2>1, <2>2, <2>3
<1>4. Len(LongestLog) = Len(node[s].log)
  BY OrderFacts, OrderTypes DEF Longest
<1>5. node[n].commitIndex \in Nat /\ t.commitIndex \in Nat /\ Len(node[s].log) \in Nat
  BY IndexTypes, BaseFacts DEF BaseInv
<1>6. t.commitIndex \in 0 .. Len(LongestLog)
  BY <1>3, <1>4, <1>5
<1>7. node[n].commitIndex <= t.commitIndex => t.commitIndex \in CommitIndices[n] .. Len(LongestLog)
  BY <1>1, <1>3, <1>4, <1>5
<1>8. QED
  BY <1>1, <1>6, <1>7 DEF Log!Learn

\* AddCommand and GetPersistentCommands are those of the replicated log.
LEMMA CallImplements ==
  ASSUME NEW s \in Replica, BaseInv(s), BaseInv(s)', NEW n \in Replica, Call(n)
  PROVE  Log!Next
<1>1. UNCHANGED node
  BY DEF Call, AddCommand, GetPersistentCommands, replicaVars
<1>2. LongestLog' = LongestLog /\ CommitIndices' = CommitIndices
  BY <1>1, SameOrder DEF CommitIndices
<1>3. ASSUME NEW c \in Command, AddCommand(n, c)
      PROVE  Log!AddCommand(c)
  BY <1>2, <1>3 DEF AddCommand, readVars, Log!AddCommand
<1>4. ASSUME NEW r \in Reader, NEW q \in Query, GetPersistentCommands(n, r, q)
      PROVE  Log!GetPersistentCommands(n, r, q)
  BY <1>2, <1>4 DEF GetPersistentCommands, clientVars, Log!GetPersistentCommands
<1>5. QED
  BY <1>3, <1>4, Zenon DEF Call, Log!Next

\* Handling AppendEntries is hearing from a leader, or mishearing it.
LEMMA AppendEntriesRequestImplements ==
  ASSUME NEW s \in Replica, BaseInv(s), BaseInv(s)', Grows(s),
         NEW n \in Replica, NEW m \in BagToSet(inbox), HandleAppendEntriesRequest(n, m)
  PROVE  Log!UnsureNext /\ (CommitsGrow => Log!Next)
<1>1. m \in AppendEntriesRequest /\ UNCHANGED <<query, reply>>
  BY AppendEntriesRequestStep DEF BaseInv
<1>2. PICK a, t \in State, accepted \in BOOLEAN, matched \in Nat :
          AppendEntriesRequestEffect(n, m, a, t, accepted, matched)
  BY AppendEntriesRequestStep DEF BaseInv
<1>3. /\ node' = [node EXCEPT ![n] = t]
      /\ \/ UNCHANGED <<incoming_commands, answer>>
         \/ Redirect(n, m.from)
  BY <1>2 DEF AppendEntriesRequestEffect, Handled
<1>4. node'[s].log = node[s].log
  BY AppendEntriesRequestCore DEF BaseInv
<1>5. LongestLog' = LongestLog
  BY <1>4, SameOrder
<1>6. node'[n] = t /\ node[n].commitIndex \in Nat /\ t.commitIndex \in Nat
  BY <1>3, BaseFacts, IndexTypes DEF BaseInv, TypeOK
<1>7. m.from = s
  <2>1. m.type = "AppendEntriesRequest" /\ m \in InTransit
    BY <1>1 DEF AppendEntriesRequest, InTransit
  <2>2. QED
    BY <2>1 DEF BaseInv, Base, SenderInv
<1>8. ASSUME NEW S \in SUBSET Command, S \subseteq Log!Waiting \ Log!UpTo(Len(LongestLog)),
             answer' = Answered(S, m.from)
      PROVE  Log!UnsureNext /\ (CommitsGrow => Log!Next)
  <2>1. answer' = Log!Answered(S, m.from)
    BY <1>8, Zenon DEF Answered, Log!Answered
  <2>2. S \in SUBSET Log!Waiting
    BY <1>8
  <2>3. CASE node[n].commitIndex <= t.commitIndex
    <3>1. Log!Learn(n, t.commitIndex) /\ t.commitIndex \in CommitIndices[n] .. Len(LongestLog)
      BY <1>3, <1>4, <2>3, LearnStep
    <3>2. Log!Hear(n, t.commitIndex, S, m.from)
      BY <1>1, <1>5, <1>8, <2>1, <3>1 DEF Log!Hear
    <3>3. Log!Next
      BY <1>7, <2>2, <3>1, <3>2, Zenon DEF Log!Next
    <3>4. QED
      BY <3>3 DEF Log!UnsureNext
  <2>4. CASE ~ node[n].commitIndex <= t.commitIndex
    <3>1. ~ CommitsGrow
      BY <1>6, <2>4 DEF CommitsGrow
    <3>2. n # m.from
      BY <1>6, <1>7, <2>4 DEF Grows
    <3>3. /\ CommitIndices' = [CommitIndices EXCEPT ![n] = t.commitIndex]
          /\ t.commitIndex \in 0 .. Len(LongestLog)
      BY <1>3, <1>4, LearnStep
    <3>4. Log!Mishear(n, t.commitIndex, S, m.from)
      BY <1>1, <1>5, <1>8, <2>1, <3>2, <3>3 DEF Log!Mishear
    <3>5. Log!UnsureNext
      BY <1>7, <2>2, <3>3, <3>4, Zenon DEF Log!UnsureNext
    <3>6. QED
      BY <3>1, <3>5
  <2>5. QED
    BY <2>3, <2>4
<1>9. CASE UNCHANGED <<incoming_commands, answer>>
  <2>1. answer' = Answered({}, m.from)
    BY <1>9 DEF Answered, BaseInv, TypeOK
  <2>2. QED
    BY <1>8, <2>1
<1>10. CASE Redirect(n, m.from)
  <2> DEFINE S == Commands(incoming_commands[n])
  <2>1. S \subseteq Command /\ \A c \in S : Holds(n, 0, c)
    <3>1. incoming_commands[n] \in Seq(Command)
      BY DEF BaseInv, TypeOK
    <3>2. \A c \in S : \E i \in DOMAIN incoming_commands[n] : incoming_commands[n][i] = c
      BY <3>1 DEF Commands
    <3>3. QED
      BY <3>1, <3>2 DEF Holds
  <2>2. \A c \in S : c \in Log!Waiting /\ ~ Logged(c)
    BY <2>1, OrderedFacts DEF BaseInv, CommandInv, LoggedInv
  <2>3. S \subseteq Log!Waiting \ Log!UpTo(Len(LongestLog))
    BY <2>1, <2>2, OrderedFacts
  <2>4. QED
    BY <1>8, <1>10, <2>1, <2>3 DEF Redirect
<1>11. QED
  BY <1>3, <1>9, <1>10

\* The other messages are not seen by clients.
LEMMA OtherMessagesImplement ==
  ASSUME NEW s \in Replica, BaseInv(s), BaseInv(s)', NEW n \in Replica, NEW m \in BagToSet(inbox),
         \/ HandleRequestVoteRequest(n, m)
         \/ HandleAppendEntriesResponse(n, m)
         \/ HandleRequestVoteResponse(n, m)
  PROVE  UNCHANGED Log!logVars
<1>1. UNCHANGED <<answer, query, reply>>
  BY Zenon DEF HandleRequestVoteRequest, HandleAppendEntriesResponse, HandleRequestVoteResponse,
     clientVars, readVars
<1>2. m.term \in Term
  BY RequestVoteRequestStep, AppendEntriesResponseStep, RequestVoteResponseStep
     DEF BaseInv, RequestVoteRequest, AppendEntriesResponse, RequestVoteResponse
<1>3. \E t \in State : /\ node' = [node EXCEPT ![n] = t]
                       /\ t.log = AdoptTerm(node[n], m.term).log
                       /\ t.commitIndex = AdoptTerm(node[n], m.term).commitIndex
  <2>1. CASE HandleRequestVoteRequest(n, m)
    <3>1. PICK a, t \in State, granted \in BOOLEAN, u \in Term :
              RequestVoteRequestEffect(n, m, a, t, granted, u)
      BY <2>1, RequestVoteRequestStep DEF BaseInv
    <3>2. QED
      BY <3>1 DEF RequestVoteRequestEffect, Handled
  <2>2. CASE HandleAppendEntriesResponse(n, m)
    <3>1. PICK a, t \in State : AppendEntriesResponseEffect(n, m, a, t)
      BY <2>2, AppendEntriesResponseStep DEF BaseInv
    <3>2. QED
      BY <3>1 DEF AppendEntriesResponseEffect, Handled
  <2>3. CASE HandleRequestVoteResponse(n, m)
    <3>1. PICK a, t \in State, A \in SUBSET AppendEntriesRequest :
              RequestVoteResponseEffect(n, m, a, t, A)
      BY <2>3, RequestVoteResponseStep DEF BaseInv
    <3>2. QED
      BY <3>1 DEF RequestVoteResponseEffect, Handled
  <2>4. QED
    BY <2>1, <2>2, <2>3
<1>4. PICK t \in State : /\ node' = [node EXCEPT ![n] = t]
                         /\ t.log = AdoptTerm(node[n], m.term).log
                         /\ t.commitIndex = AdoptTerm(node[n], m.term).commitIndex
  BY <1>3
<1>5. t.log = node[n].log /\ t.commitIndex = node[n].commitIndex
  BY <1>2, <1>4, AdoptTermFacts DEF BaseInv, TypeOK
<1>6. \A q \in Replica : /\ node'[q].log = node[q].log
                         /\ node'[q].commitIndex = node[q].commitIndex
  BY <1>4, <1>5 DEF BaseInv, TypeOK
<1>7. QED
  BY <1>1, <1>6, Stutter

\* The start of a tick is a tick of the replicated log.
LEMMA BeginTickImplements ==
  ASSUME NEW s \in Replica, ClientInv(s), BaseInv(s)', Grows(s), NEW n \in Replica, BeginTick(n)
  PROVE  Log!Next
<1>1. BaseInv(s) /\ TypeOK
  BY DEF ClientInv, BaseInv
<1>2. /\ ServeReads(n) /\ query' = query
      /\ \/ UNCHANGED <<node, answer>>
         \/ /\ node[n].role = "leader" /\ Commit(n)
            /\ \E t \in State :
                   /\ node' = [node EXCEPT ![n] = t]
                   /\ t = [node[n] EXCEPT !.commitIndex = CommitTarget(node[n])]
  BY <1>1, BeginTickStep
<1>3. reply' = [r \in Reader |-> IF Asking(r) /\ query[r].node = n
                                 THEN Log!PersistentCommands(n, query[r]) ELSE reply[r]]
  <2>1. \A r \in Reader : query[r].from \in Nat /\ query[r].count \in Nat
    BY <1>1 DEF TypeOK
  <2>2. \A r \in Reader : PersistentCommands(node[n], query[r]) = Log!PersistentCommands(n, query[r])
    BY <1>1, <2>1, ReadImplements
  <2>3. QED
    BY <1>2, <2>2 DEF ServeReads
<1>4. reply' = [r \in Reader |-> IF Log!Asking(r) /\ query[r].node = n
                                 THEN Log!PersistentCommands(n, query[r]) ELSE reply[r]]
  BY <1>3, Zenon DEF Asking, Log!Asking
<1>5. ASSUME NEW t \in State, node' = [node EXCEPT ![n] = t], node'[s].log = node[s].log,
             node[n].commitIndex <= t.commitIndex,
             NEW S \in SUBSET Command, S \subseteq Log!Waiting \cap Log!UpTo(t.commitIndex),
             answer' = Answered(S, "persisted")
      PROVE  Log!Next
  <2>1. LongestLog' = LongestLog
    BY <1>1, <1>5, SameOrder
  <2>2. Log!Learn(n, t.commitIndex) /\ t.commitIndex \in CommitIndices[n] .. Len(LongestLog)
    BY <1>1, <1>5, LearnStep
  <2>3. answer' = Log!Answered(S, "persisted")
    BY <1>5, Zenon DEF Answered, Log!Answered
  <2>4. Log!Tick(n, t.commitIndex, S)
    BY <1>2, <1>4, <1>5, <2>1, <2>2, <2>3 DEF Log!Tick
  <2>5. S \in SUBSET Log!Waiting
    BY <1>5
  <2>6. QED
    BY <2>2, <2>4, <2>5, Zenon DEF Log!Next
<1>6. CASE UNCHANGED <<node, answer>>
  <2>1. node[n] \in State /\ node' = [node EXCEPT ![n] = node[n]]
    BY <1>1, <1>6 DEF TypeOK
  <2>2. answer' = Answered({}, "persisted")
    BY <1>1, <1>6 DEF Answered, TypeOK
  <2>3. node'[s].log = node[s].log
    BY <1>6
  <2>4. {} \in SUBSET Command /\ {} \subseteq Log!Waiting \cap Log!UpTo(node[n].commitIndex)
    OBVIOUS
  <2>5. node[n].commitIndex <= node[n].commitIndex
    BY <1>1, BaseFacts DEF BaseInv
  <2>6. QED
    BY <1>5, <2>1, <2>2, <2>3, <2>4, <2>5
<1>7. ASSUME node[n].role = "leader", Commit(n), NEW t \in State,
             node' = [node EXCEPT ![n] = t],
             t = [node[n] EXCEPT !.commitIndex = CommitTarget(node[n])]
      PROVE  Log!Next
  <2> DEFINE done == node[n].commitIndex + 1 .. CommitTarget(node[n])
             S == Owed(n, done)
  <2>1. t.log = node[n].log /\ t.commitIndex = CommitTarget(node[n])
    <3> DEFINE a == node[n]
               upto == CommitTarget(a)
    <3>1. a \in State /\ t = [a EXCEPT !.commitIndex = upto]
      BY <1>1, <1>7 DEF TypeOK
    <3> HIDE DEF a, upto
    <3>2. t.log = a.log /\ t.commitIndex = upto
      BY <3>1 DEF State
    <3>3. QED
      BY <3>2 DEF a, upto
  <2>2. answer' = Answered(S, "persisted")
    BY <1>7 DEF Commit
  <2>3. node'[s].log = node[s].log
    BY <1>1, <1>7, <2>1 DEF TypeOK
  <2>4. n = s
    BY <1>1, <1>7 DEF BaseInv, Base, OneLogInv, OnlyLeads
  <2>5. ASSUME NEW c \in S
        PROVE  c \in Command /\ c \in Log!Waiting /\ c \in Log!UpTo(t.commitIndex)
    <3>1. PICK i \in DOMAIN items_to_response[n] \cap done : items_to_response[n][i] = c
      BY <2>5 DEF Owed
    <3>2. i \in Nat /\ c \in Command /\ Holds(n, i, c)
      BY <1>1, <3>1 DEF TypeOK, Holds
    <3>3. i \in 1 .. t.commitIndex
      <4>1. node[n].commitIndex \in Nat /\ t.commitIndex \in Nat
        BY <1>1, BaseFacts, IndexTypes DEF BaseInv
      <4>2. QED
        BY <2>1, <3>1, <4>1
    <3>4. i \in DOMAIN node[s].log /\ node[s].log[i].command = c
      BY <2>4, <3>1 DEF ClientInv, AnswerInv
    <3>5. LongestLog[i] = c
      BY <1>1, <3>4, OrderFacts DEF Longest, OrderOf
    <3>6. QED
      BY <1>1, <3>2, <3>3, <3>5, OrderedFacts DEF Log!UpTo
  <2> HIDE DEF S
  <2>6. S \in SUBSET Command /\ S \subseteq Log!Waiting \cap Log!UpTo(t.commitIndex)
    BY <2>5
  <2>7. node[n].commitIndex <= t.commitIndex
    BY <1>1, <1>7, <2>4 DEF Grows, TypeOK
  <2>8. QED
    BY <1>5, <1>7, <2>2, <2>3, <2>6, <2>7
<1>8. QED
  BY <1>2, <1>6, <1>7

\* The end of a tick of s puts the new commands into the order.
LEMMA EndLeaderTickImplements ==
  ASSUME NEW s \in Replica, ClientInv(s), BaseInv(s)', NEW n \in Replica, EndLeaderTick(n)
  PROVE  Log!Next \/ UNCHANGED Log!logVars
<1>1. BaseInv(s) /\ TypeOK
  BY DEF ClientInv, BaseInv
<1>2. UNCHANGED <<query, reply>>
  BY <1>1, EndLeaderTickStep DEF readVars
<1>3. CASE UNCHANGED <<node, clientVars>>
  BY <1>1, <1>2, <1>3, Stutter DEF clientVars
<1>4. ASSUME node[n].role = "leader", AddNewCommandsToLog(n), NEW t \in State,
             NEW tail \in Seq(Item),
             tail = NewItems(node[n], incoming_commands[n]),
             Len(tail) = Len(incoming_commands[n]),
             t = [node[n] EXCEPT !.log = node[n].log \o tail],
             node' = [node EXCEPT ![n] = t]
      PROVE  Log!Next \/ UNCHANGED Log!logVars
  <2> DEFINE f == node[n].log
             new == incoming_commands[n]
             added == Len(f) + 1 .. Len(f) + Len(new)
  <2>1. /\ n = s /\ f \in Seq(Item) /\ new \in Seq(Command) /\ node[n] \in State
    BY <1>1, <1>4, BaseFacts DEF BaseInv, Base, OneLogInv, OnlyLeads, TypeOK
  <2>2. t.log = f \o tail /\ t.commitIndex = node[n].commitIndex
    <3> DEFINE a == node[n]
               log == f \o tail
    <3>1. a \in State /\ t = [a EXCEPT !.log = log]
      BY <1>4, <2>1
    <3> HIDE DEF a, log
    <3>2. t.log = log /\ t.commitIndex = a.commitIndex
      BY <3>1 DEF State
    <3>3. QED
      BY <3>2 DEF a, log
  <2>3. CommitIndices' = CommitIndices
    BY <1>1, <1>4, <2>2 DEF CommitIndices, TypeOK
  <2>4. answer' = answer
    <3>1. answer' = Answered(Owed(n, added), "broken")
      BY <1>4 DEF AddNewCommandsToLog, LastLogIndex
    <3>2. DOMAIN items_to_response[n] \cap added = {}
      <4>1. \A i \in DOMAIN items_to_response[n] : i \in 1 .. Len(f)
        BY <2>1 DEF ClientInv, AnswerInv
      <4>2. Len(f) \in Nat /\ Len(new) \in Nat
        BY <2>1
      <4> HIDE DEF f, new
      <4>3. QED
        BY <4>1, <4>2
    <3>3. Owed(n, added) = {}
      BY <3>2 DEF Owed
    <3>4. QED
      BY <1>1, <3>1, <3>3 DEF Answered, TypeOK
  <2>5. \A k \in DOMAIN new : tail[k].command = new[k]
    BY <1>4, <2>1 DEF NewItems
  <2>6. /\ LongestLog = OrderOf(s) /\ LongestLog' = OrderOf(s)'
        /\ OrderOf(s) \in Seq(Command) /\ Len(OrderOf(s)) = Len(f)
        /\ \A i \in 1 .. Len(f) : OrderOf(s)[i] = f[i].command
    BY <1>1, <2>1, OrderFacts, OrderTypes DEF Longest
  <2>7. OrderOf(s)' = [i \in DOMAIN (f \o tail) |-> (f \o tail)[i].command]
    BY <1>1, <1>4, <2>1, <2>2 DEF OrderOf, TypeOK
  <2> HIDE DEF f, new
  <2>8. OrderOf(s)' = OrderOf(s) \o new
    <3> DEFINE o == OrderOf(s)
    <3>1. /\ f \o tail \in Seq(Item) /\ Len(f \o tail) = Len(f) + Len(tail)
          /\ \A i \in 1 .. Len(f) : (f \o tail)[i] = f[i]
          /\ \A i \in 1 .. Len(f) + Len(tail) : i > Len(f) =>
                 (f \o tail)[i] = tail[i - Len(f)] /\ i - Len(f) \in 1 .. Len(tail)
      BY <2>1, ExtensionFacts
    <3>2. Len(tail) = Len(new)
      BY <1>4 DEF new
    <3>3. o \in Seq(Command) /\ Len(o) = Len(f) /\ \A i \in 1 .. Len(f) : o[i] = f[i].command
      BY <2>6
    <3> HIDE DEF o
    <3>4. /\ o \o new \in Seq(Command) /\ Len(o \o new) = Len(f) + Len(new)
          /\ \A i \in 1 .. Len(f) + Len(new) :
                 (o \o new)[i] = IF i <= Len(f) THEN o[i] ELSE new[i - Len(f)]
      BY <2>1, <3>3, ConcatProperties
    <3>5. DOMAIN (f \o tail) = 1 .. Len(f) + Len(new)
      BY <3>1, <3>2
    <3>6. ASSUME NEW i \in 1 .. Len(f) + Len(new)
          PROVE  (f \o tail)[i].command = (o \o new)[i]
      <4>1. CASE i <= Len(f)
        BY <2>1, <3>1, <3>3, <3>4, <4>1
      <4>2. CASE i > Len(f)
        <5>1. (f \o tail)[i] = tail[i - Len(f)] /\ i - Len(f) \in DOMAIN new
          BY <2>1, <3>1, <3>2, <4>2
        <5>2. (o \o new)[i] = new[i - Len(f)]
          BY <2>1, <3>4, <4>2
        <5>3. QED
          BY <2>5, <5>1, <5>2
      <4>3. i <= Len(f) \/ i > Len(f)
        BY <2>1, <3>6
      <4>4. QED
        BY <4>1, <4>2, <4>3, Zenon
    <3>7. o \o new = [i \in 1 .. Len(f) + Len(new) |-> (o \o new)[i]]
      <4> DEFINE q == o \o new
      <4>1. q \in Seq(Command) /\ Len(q) = Len(f) + Len(new)
        BY <3>4
      <4> HIDE DEF q
      <4>2. q = [i \in 1 .. Len(f) + Len(new) |-> q[i]]
        BY <4>1
      <4>3. QED
        BY <4>2 DEF q
    <3>8. QED
      BY <2>7, <3>5, <3>6, <3>7 DEF o
  <2>9. LongestLog' = LongestLog \o new
    BY <2>6, <2>8
  <2>10. CASE new = << >>
    <3>1. LongestLog' = LongestLog
      BY <2>6, <2>9, <2>10
    <3>2. QED
      BY <1>2, <2>3, <2>4, <3>1 DEF Log!logVars
  <2>11. CASE new # << >>
    <3>1. \A i, j \in DOMAIN new : new[i] = new[j] => i = j
      BY <1>1 DEF new, BaseInv, CommandInv, PromiseInv, QueueInv
    <3>2. ASSUME NEW i \in DOMAIN new
          PROVE  new[i] \in Log!Waiting /\ new[i] \notin Log!UpTo(Len(LongestLog))
      <4>1. Holds(n, 0, new[i]) /\ new[i] \in Command
        BY <2>1 DEF new, Holds
      <4>2. ~ Logged(new[i])
        BY <1>1, <4>1 DEF BaseInv, CommandInv, LoggedInv
      <4>3. QED
        BY <1>1, <4>1, <4>2, OrderedFacts
    <3>3. Log!Order(new)
      BY <1>2, <2>3, <2>4, <2>9, <3>1, <3>2 DEF Log!Order
    <3>4. new \in [1 .. Len(new) -> Log!Waiting]
      <4>1. DOMAIN new = 1 .. Len(new) /\ new = [i \in 1 .. Len(new) |-> new[i]]
        BY <2>1
      <4>2. QED
        BY <3>2, <4>1
    <3>5. Len(new) \in 1 .. Cardinality(Log!Waiting)
      <4>1. Len(new) \in Nat /\ Len(new) # 0 /\ DOMAIN new = 1 .. Len(new)
        BY <2>1, <2>11, EmptySeq
      <4>2. new \in Injection(1 .. Len(new), Log!Waiting)
        BY <3>1, <3>4, <4>1 DEF Injection, IsInjective
      <4>3. IsFiniteSet(Log!Waiting)
        <5>1. Log!Waiting \subseteq Command
          BY DEF Log!Waiting
        <5>2. QED
          BY <5>1, CommandAssumption, FS_Subset
      <4>4. Cardinality(1 .. Len(new)) <= Cardinality(Log!Waiting)
        BY <4>2, <4>3, FS_Injection
      <4>5. Cardinality(1 .. Len(new)) = Len(new)
        BY <4>1, FS_Interval
      <4>6. Cardinality(Log!Waiting) \in Nat
        BY <4>3, FS_CardinalityType
      <4>7. QED
        BY <4>1, <4>4, <4>5, <4>6
    <3>6. \E k \in 1 .. Log!Cardinality(Log!Waiting) : \E w \in [1 .. k -> Log!Waiting] : Log!Order(w)
      BY <3>3, <3>4, <3>5 DEF Log!Cardinality, Cardinality
    <3>7. Log!Next
      BY <3>6, Zenon DEF Log!Next
    <3>8. QED
      BY <3>7
  <2>12. QED
    BY <2>10, <2>11
<1>5. QED
  BY <1>1, <1>3, <1>4, EndLeaderTickStep

\* Every step of the replicas is one of the replicated log or changes nothing of it;
\* a replica mishears how much is persistent only when a request has lost its
\* leader_commit.
LEMMA StepImplements ==
  ASSUME NEW s \in Replica, OnlyLeads(s)', ClientInv(s), [Next]_vars
  PROVE  [Log!UnsureNext]_Log!logVars /\ (AllWithin => [Log!Next]_Log!logVars)
<1>1. BaseInv(s) /\ BaseInv(s)' /\ Grows(s) /\ (AllWithin => CommitsGrow)
  BY BaseNext DEF ClientInv, Kept, Grows
<1> DEFINE Implements == /\ Log!UnsureNext \/ UNCHANGED Log!logVars
                         /\ AllWithin => Log!Next \/ UNCHANGED Log!logVars
<1>2. ASSUME UNCHANGED <<node, answer, query, reply>>
      PROVE  UNCHANGED Log!logVars
  BY <1>1, <1>2, Stutter
<1>3. CASE UNCHANGED vars
  BY <1>2, <1>3 DEF vars
<1>4. ASSUME NEW n \in Replica, Call(n) \/ BeginTick(n) \/ Receive(n) \/ EndTick(n)
      PROVE  Implements
  <2>1. CASE Call(n)
    BY <1>1, <2>1, CallImplements DEF Log!UnsureNext
  <2>2. CASE BeginTick(n)
    BY <1>1, <2>2, BeginTickImplements DEF Log!UnsureNext
  <2>3. CASE Receive(n)
    BY <1>1, <2>3, AppendEntriesRequestImplements, OtherMessagesImplement DEF Receive
  <2>4. CASE EndTick(n)
    <3>1. CASE EndLeaderTick(n)
      BY <1>1, <3>1, EndLeaderTickImplements DEF Log!UnsureNext
    <3>2. CASE EndQuietTick(n)
      BY <1>2, <3>2 DEF EndQuietTick, clientVars, readVars
    <3>3. CASE EndExpiredTick(n)
      <4>1. UNCHANGED <<answer, query, reply>>
        BY <3>3 DEF EndExpiredTick, clientVars, readVars
      <4>2. PICK t \in State :
                /\ node' = [node EXCEPT ![n] = t]
                /\ t.log = node[n].log /\ t.commitIndex = node[n].commitIndex
        BY <1>1, <3>3, EndExpiredTickStep DEF BaseInv
      <4>3. \A q \in Replica : /\ node'[q].log = node[q].log
                               /\ node'[q].commitIndex = node[q].commitIndex
        BY <1>1, <4>2 DEF BaseInv, TypeOK
      <4>4. QED
        BY <1>1, <4>1, <4>3, Stutter
    <3>4. QED
      BY <2>4, <3>1, <3>2, <3>3 DEF EndTick
  <2>5. QED
    BY <1>4, <2>1, <2>2, <2>3, <2>4
<1>5. QED
  BY <1>3, <1>4, Zenon DEF Next

\* The replicas start with nothing in the order.
LEMMA InitImplements ==
  ASSUME NEW s \in Replica, Init
  PROVE  Log!Init
<1>1. \A n \in Replica : node[n].log = << >> /\ node[n].commitIndex = 0
  BY DEF Init, NewNode
<1>2. BaseInv(s)
  BY ClientInit DEF ClientInv
<1>3. LongestLog = << >>
  <2>1. LongestLog = OrderOf(s)
    BY <1>2, OrderFacts DEF Longest
  <2>2. OrderOf(s) \in Seq(Command) /\ Len(OrderOf(s)) = 0
    BY <1>1, <1>2, OrderTypes
  <2>3. QED
    BY <2>1, <2>2, EmptySeq
<1>4. CommitIndices = [n \in Replica |-> 0]
  BY <1>1 DEF CommitIndices
<1>5. QED
  BY <1>3, <1>4 DEF Init, NotAsked, Log!Init, Log!NotAsked

\* As long as nobody but s is elected, the replicas are a replicated log: commands
\* get into one order, once each, and stay; what is reported persisted is committed
\* in it; a client that is sent away finds its command in nobody's log; and a read,
\* on whatever replica, is a part of the committed prefix.
THEOREM ImplementsLogHolds ==
  ASSUME NEW s \in Replica
  PROVE  Spec /\ []OnlyLeads(s) => ImplementsLog
<1>1. Init => Log!Init
  BY InitImplements
<1>2. ClientInv(s) /\ CommitInv(s) /\ OnlyLeads(s)' /\ [Next]_vars => [Log!Next]_Log!logVars
  BY StepImplements, TrueWithin
<1>3. QED
  BY <1>1, <1>2, ClientInvariance, PTL DEF Spec, ImplementsLog, Log!Spec

\* Nobody but s is elected if nobody else's timer ever expires, as in the runs with
\* one leader; what holds while nobody but s is elected holds in them.
THEOREM SoleStanderLeads ==
  ASSUME NEW s \in Replica, \A t \in 1 .. MaxTerm : Standing[t] \subseteq {s}
  PROVE  Spec => []OnlyLeads(s)
<1>1. Staggered
  BY DEF Staggered
<1>2. IInv => OnlyLeads(s)
  BY DEF IInv, SourcesInv, StanderInv, Stands, OnlyLeads
<1>3. QED
  BY <1>1, <1>2, Invariance, PTL
=============================================================================
