--------------------- MODULE ConsensusNodeLogProofs ---------------------
(***************************************************************************)
(* Log matching and election safety of ConsensusNode, and which logs votes *)
(* are for, proved for every value of its constants under which no two     *)
(* replicas ever stand for the same term (Staggered).                      *)
(***************************************************************************)
EXTENDS ConsensusNodeElectionProofs

-----------------------------------------------------------------------------
(***************************************************************************)
(* Logs: what a receiver makes of a request, and what appending does.      *)
(***************************************************************************)
\* A receiver whose log matches the log a request was cut from, and that has the
\* request's previous item, ends up with its own log or with that log.
LEMMA SpliceGivesSource ==
  ASSUME NEW f \in Seq(Item), NEW L \in Seq(Item), NEW prev \in Nat,
         LogsMatch(f, L), prev <= Len(f), prev <= Len(L),
         TermAt(f, prev) = TermAt(L, prev)
  PROVE  AppendItems(f, prev, SubSeq(L, prev + 1, Len(L))) \in {f, L}
<1> DEFINE items == SubSeq(L, prev + 1, Len(L))
<1>1. CASE Contains(f, prev, items)
  BY <1>1 DEF AppendItems
<1>2. CASE ~ Contains(f, prev, items)
  <2> DEFINE new == SubSeq(f, 1, prev) \o items
  <2>1. \A j \in 1 .. prev : f[j] = L[j]
    <3>1. CASE prev = 0
      BY <3>1
    <3>2. CASE prev # 0
      <4>1. f[prev].term = L[prev].term
        BY <3>2 DEF TermAt
      <4>2. SameUpTo(f, L, prev)
        BY <3>2, <4>1 DEF LogsMatch
      <4>3. QED
        BY <4>2 DEF SameUpTo
    <3>3. QED
      BY <3>1, <3>2
  <2>2. /\ SubSeq(f, 1, prev) \in Seq(Item) /\ Len(SubSeq(f, 1, prev)) = prev
        /\ \A j \in 1 .. prev : SubSeq(f, 1, prev)[j] = f[j]
    OBVIOUS
  <2>3. /\ items \in Seq(Item) /\ Len(items) = Len(L) - prev
        /\ \A j \in 1 .. Len(L) - prev : items[j] = L[prev + j]
    OBVIOUS
  <2> HIDE DEF items
  <2>4. new \in Seq(Item) /\ Len(new) = Len(L)
    BY <2>2, <2>3
  <2>5. ASSUME NEW j \in 1 .. Len(L)
        PROVE  new[j] = L[j]
    <3>1. CASE j <= prev
      <4>1. new[j] = SubSeq(f, 1, prev)[j]
        BY <2>2, <2>3, <3>1
      <4>2. QED
        BY <2>1, <2>2, <3>1, <4>1
    <3>2. CASE j > prev
      <4>1. new[j] = items[j - prev]
        BY <2>2, <2>3, <3>2
      <4>2. j - prev \in 1 .. Len(L) - prev /\ prev + (j - prev) = j
        BY <3>2
      <4>3. QED
        BY <2>3, <4>1, <4>2
    <3>3. j <= prev \/ j > prev
      OBVIOUS
    <3>4. QED
      BY <3>1, <3>2, <3>3, Zenon
  <2>6. new = L
    BY <2>4, <2>5, SeqEqual
  <2>7. QED
    BY <1>2, <2>6 DEF AppendItems, items
<1>3. QED
  BY <1>1, <1>2

\* A log that begins with the log a request was cut from has all its items.
LEMMA ContainsSource ==
  ASSUME NEW f \in Seq(Item), NEW L \in Seq(Item), NEW prev \in Nat,
         SameUpTo(L, f, Len(L)), prev <= Len(L)
  PROVE  AppendItems(f, prev, SubSeq(L, prev + 1, Len(L))) = f
<1> DEFINE items == SubSeq(L, prev + 1, Len(L))
<1>1. /\ Len(items) = Len(L) - prev
      /\ \A j \in 1 .. Len(L) - prev : items[j] = L[prev + j]
  OBVIOUS
<1>2. prev + Len(items) <= Len(f)
  BY <1>1 DEF SameUpTo
<1>3. ASSUME NEW k \in 1 .. Len(items)
      PROVE  f[prev + k] = items[k]
  <2>1. prev + k \in 1 .. Len(L)
    BY <1>1, SMTT(30)
  <2>2. QED
    BY <1>1, <2>1 DEF SameUpTo
<1>4. Contains(f, prev, items)
  BY <1>2, <1>3 DEF Contains
<1>5. QED
  BY <1>4 DEF AppendItems

\* SameUpTo is reflexive and symmetric, and survives appending.
LEMMA SameUpToFacts ==
  ASSUME NEW a \in Seq(Item), NEW b \in Seq(Item), NEW tail \in Seq(Item), NEW k \in Nat
  PROVE  /\ SameUpTo(a, a, Len(a))
         /\ k <= Len(a) => SameUpTo(a, a, k)
         /\ SameUpTo(a, b, k) => SameUpTo(a, b \o tail, k) /\ SameUpTo(b, a, k)
BY DEF SameUpTo

-----------------------------------------------------------------------------
(***************************************************************************)
(* The invariant.  S is a set of logs: every replica's, and every log a    *)
(* request in transit was cut from.  Nothing is ever taken out of it, so   *)
(* that a request keeps its source when its sender's log changes.          *)
(***************************************************************************)
\* A candidate or a leader stands for its term.
StanderInv == \A n \in Replica :
    node[n].role # "follower" => Stands(n, node[n].term)

\* The replica that stands for the term of an item of L has reached that term;
\* while it is in it, it leads, and its log begins as L does up to the item.
OwnerInv(L) == \A i \in 1 .. Len(L), o \in Replica :
    Stands(o, L[i].term) =>
        /\ node[o].term >= L[i].term
        /\ node[o].term = L[i].term =>
               node[o].role = "leader" /\ SameUpTo(L, node[o].log, i)

LogInv(S) ==
    /\ \A n \in Replica : node[n].log \in S
    /\ \A L \in S : OwnerInv(L)
    /\ \A a, b \in S : LogsMatch(a, b)

\* The request m carries what follows its previous item in L.
Slice(m, L) ==
    /\ m.prev <= Len(L)
    /\ m.prevTerm = TermAt(L, m.prev)
    /\ m.entries = SubSeq(L, m.prev + 1, Len(L))

\* A request comes from the replica that stands for its term; its items, if it
\* has any, were cut from a log of S that its sender, as long as it leads that
\* term, still has.
SourceInv(m, S) ==
    /\ Stands(m.from, m.term)
    /\ node[m.from].term >= m.term
    /\ node[m.from].term = m.term => node[m.from].role = "leader"
    /\ m.entries # << >> => \E L \in S :
           /\ Slice(m, L)
           /\ node[m.from].term = m.term => SameUpTo(L, node[m.from].log, Len(L))

MessageInv(S) == \A m \in InTransit : m.type = "AppendEntriesRequest" => SourceInv(m, S)

SourcesInv ==
    /\ StanderInv
    /\ \E S \in SUBSET Seq(Item) : LogInv(S) /\ MessageInv(S)

IInv == TypeOK /\ SourcesInv
-----------------------------------------------------------------------------
(***************************************************************************)
(* A step of replica n to the state t that does not make a new log.        *)
(***************************************************************************)
\* Replica n goes from s to t: its term does not fall, and while it leads a term
\* it goes on leading it with the same log.
Advances(n, s, t, S) ==
    /\ s.term <= t.term
    /\ s.term = t.term /\ s.role = "leader" => t.role = "leader" /\ t.log = s.log
    /\ t.role # "follower" => Stands(n, t.term)
    /\ t.log \in S

\* The request m is a new one of replica n in state t.
SentBy(n, t, m) ==
    /\ m.from = n /\ m.term = t.term /\ t.role = "leader"
    /\ m.entries # << >> => Slice(m, t.log)

\* A step that leaves every log in S preserves the invariant.
LEMMA NodeStep ==
  ASSUME TypeOK, StanderInv, NEW S \in SUBSET Seq(Item), LogInv(S), MessageInv(S),
         NEW n \in Replica, NEW t \in State, Advances(n, node[n], t, S),
         node' = [node EXCEPT ![n] = t],
         \A m \in InTransit' : m \in InTransit \/ (m.type = "AppendEntriesRequest" => SentBy(n, t, m))
  PROVE  StanderInv' /\ LogInv(S)' /\ MessageInv(S)'
<1>1. /\ node \in [Replica -> State]
      /\ node'[n] = t
      /\ \A q \in Replica \ {n} : node'[q] = node[q]
      /\ \A q \in Replica : node[q].term \in Nat
      /\ t.term \in Nat
  BY BoundTypes DEF TypeOK, State
<1>2. StanderInv'
  <2> SUFFICES ASSUME NEW q \in Replica, node'[q].role # "follower"
               PROVE  Stands(q, node'[q].term)
    BY DEF StanderInv
  <2>1. CASE q = n
    BY <1>1, <2>1 DEF Advances
  <2>2. CASE q # n
    BY <1>1, <2>2 DEF StanderInv
  <2>3. QED
    BY <2>1, <2>2
<1>3. \A q \in Replica : node'[q].log \in S
  BY <1>1 DEF Advances, LogInv
<1>4. ASSUME NEW L \in S
      PROVE  OwnerInv(L)'
  <2> SUFFICES ASSUME NEW i \in 1 .. Len(L), NEW o \in Replica, Stands(o, L[i].term)
               PROVE  /\ node'[o].term >= L[i].term
                      /\ node'[o].term = L[i].term =>
                             node'[o].role = "leader" /\ SameUpTo(L, node'[o].log, i)
    BY DEF OwnerInv
  <2>1. /\ node[o].term >= L[i].term
        /\ node[o].term = L[i].term =>
               node[o].role = "leader" /\ SameUpTo(L, node[o].log, i)
    BY DEF LogInv, OwnerInv
  <2>2. L[i].term \in Nat
    <3>1. L \in Seq(Item)
      OBVIOUS
    <3>2. L[i] \in Item
      BY <3>1
    <3>3. QED
      BY <3>2, BoundTypes DEF Item
  <2>3. CASE o = n
    BY <1>1, <2>1, <2>2, <2>3 DEF Advances
  <2>4. CASE o # n
    BY <1>1, <2>1, <2>4
  <2>5. QED
    BY <2>3, <2>4
<1>5. LogInv(S)'
  BY <1>3, <1>4 DEF LogInv
<1>6. ASSUME NEW m \in InTransit', m.type = "AppendEntriesRequest"
      PROVE  SourceInv(m, S)'
  <2>1. CASE m \in InTransit
    <3>1. SourceInv(m, S)
      BY <1>6, <2>1 DEF MessageInv
    <3>2. m.from \in Replica /\ m.term \in Nat
      <4>1. m \in Message
        BY <2>1 DEF TypeOK, InTransit
      <4>2. m \in AppendEntriesRequest
        BY <1>6, <4>1 DEF Message, RequestVoteRequest, AppendEntriesResponse, RequestVoteResponse
      <4>3. QED
        BY <4>2, BoundTypes DEF AppendEntriesRequest
    <3>3. CASE m.from = n
      BY <1>1, <3>1, <3>2, <3>3 DEF SourceInv, Advances
    <3>4. CASE m.from # n
      BY <1>1, <3>1, <3>2, <3>4 DEF SourceInv
    <3>5. QED
      BY <3>3, <3>4
  <2>2. CASE m \notin InTransit
    <3>1. SentBy(n, t, m)
      BY <1>6, <2>2
    <3>2. SameUpTo(t.log, t.log, Len(t.log))
      BY SameUpToFacts DEF State
    <3>3. t.log \in S /\ Stands(n, t.term)
      BY <3>1 DEF Advances, SentBy
    <3>4. QED
      BY <1>1, <3>1, <3>2, <3>3 DEF SourceInv, SentBy
  <2>3. QED
    BY <2>1, <2>2
<1>7. QED
  BY <1>2, <1>5, <1>6 DEF MessageInv
-----------------------------------------------------------------------------
(***************************************************************************)
(* The step that makes a new log: a leader appends items of its term.      *)
(***************************************************************************)
\* The log of a leader and the same log with new items of its term.
LEMMA ExtensionFacts ==
  ASSUME NEW a \in Seq(Item), NEW tail \in Seq(Item)
  PROVE  /\ a \o tail \in Seq(Item)
         /\ Len(a \o tail) = Len(a) + Len(tail)
         /\ \A i \in 1 .. Len(a) : (a \o tail)[i] = a[i]
         /\ \A i \in 1 .. Len(a) + Len(tail) : i > Len(a) => (a \o tail)[i] = tail[i - Len(a)]
         /\ \A i \in 1 .. Len(a) + Len(tail) : i > Len(a) => i - Len(a) \in 1 .. Len(tail)
OBVIOUS

\* A leader's step that appends items of its own term preserves the invariant.
LEMMA AppendStep ==
  ASSUME Staggered, TypeOK, StanderInv,
         NEW S \in SUBSET Seq(Item), LogInv(S), MessageInv(S),
         NEW n \in Replica, node[n].role = "leader",
         NEW tail \in Seq(Item), \A k \in 1 .. Len(tail) : tail[k].term = node[n].term,
         node' = [node EXCEPT ![n].log = node[n].log \o tail],
         \A m \in InTransit' :
             m \in InTransit \/ (m.type = "AppendEntriesRequest" => SentBy(n, node[n], m))
  PROVE  StanderInv' /\ \E T \in SUBSET Seq(Item) : LogInv(T)' /\ MessageInv(T)'
<1>0. PICK old \in Seq(Item) : old = node[n].log
  BY DEF TypeOK, State
<1> DEFINE new == old \o tail
           T == S \cup {new}
<1>1. /\ node \in [Replica -> State]
      /\ old \in Seq(Item) /\ old \in S
      /\ \A q \in Replica : node[q].log \in Seq(Item) /\ node[q].log \in S
      /\ node[n].term \in Nat
      /\ Stands(n, node[n].term)
  BY <1>0, BoundTypes DEF TypeOK, State, LogInv, StanderInv
<1>2. /\ \A q \in Replica \ {n} : node'[q] = node[q]
      /\ node'[n].log = new
      /\ \A q \in Replica : node'[q].role = node[q].role /\ node'[q].term = node[q].term
  BY <1>0, <1>1, SMTT(20) DEF State
<1>3. /\ new \in Seq(Item)
      /\ Len(new) = Len(old) + Len(tail)
      /\ \A i \in 1 .. Len(old) : new[i] = old[i]
      /\ \A i \in 1 .. Len(new) : i > Len(old) => new[i].term = node[n].term
  <2>1. ASSUME NEW i \in 1 .. Len(old) + Len(tail), i > Len(old)
        PROVE  new[i].term = node[n].term
    <3>1. new[i] = tail[i - Len(old)] /\ i - Len(old) \in 1 .. Len(tail)
      BY <1>1, <2>1, ExtensionFacts
    <3>2. QED
      BY <3>1
  <2>2. QED
    BY <1>1, <2>1, ExtensionFacts
<1> HIDE DEF new
<1>4. T \in SUBSET Seq(Item)
  BY <1>3
<1>5. StanderInv'
  BY <1>2 DEF StanderInv
\* What a log had in common with n's it still has.
<1>6. ASSUME NEW L, NEW q \in Replica, NEW k \in Nat, SameUpTo(L, node[q].log, k)
      PROVE  SameUpTo(L, node'[q].log, k)
  <2>1. CASE q = n
    BY <1>0, <1>1, <1>2, <1>3, <1>6, <2>1 DEF SameUpTo
  <2>2. CASE q # n
    BY <1>2, <1>6, <2>2
  <2>3. QED
    BY <2>1, <2>2
<1>7. ASSUME NEW L \in S
      PROVE  OwnerInv(L)'
  <2> SUFFICES ASSUME NEW i \in 1 .. Len(L), NEW o \in Replica, Stands(o, L[i].term)
               PROVE  /\ node'[o].term >= L[i].term
                      /\ node'[o].term = L[i].term =>
                             node'[o].role = "leader" /\ SameUpTo(L, node'[o].log, i)
    BY DEF OwnerInv
  <2>1. OwnerInv(L)
    BY DEF LogInv
  <2>2. i \in Nat
    OBVIOUS
  <2>3. QED
    BY <1>2, <1>6, <2>1, <2>2 DEF OwnerInv
<1>8. OwnerInv(new)'
  <2> SUFFICES ASSUME NEW i \in 1 .. Len(new), NEW o \in Replica, Stands(o, new[i].term)
               PROVE  /\ node'[o].term >= new[i].term
                      /\ node'[o].term = new[i].term =>
                             node'[o].role = "leader" /\ SameUpTo(new, node'[o].log, i)
    BY DEF OwnerInv
  <2>1. CASE i <= Len(old)
    <3>1. i \in 1 .. Len(old) /\ new[i] = old[i] /\ i \in Nat
      BY <1>1, <1>3, <2>1
    <3>2. /\ node[o].term >= old[i].term
          /\ node[o].term = old[i].term =>
                 node[o].role = "leader" /\ SameUpTo(old, node[o].log, i)
      BY <1>0, <1>1, <3>1 DEF LogInv, OwnerInv
    <3>3. SameUpTo(old, node'[o].log, i) => SameUpTo(new, node'[o].log, i)
      BY <1>1, <1>3, <3>1 DEF SameUpTo
    <3>4. QED
      BY <1>2, <1>6, <3>1, <3>2, <3>3
  <2>2. CASE i > Len(old)
    <3>1. new[i].term = node[n].term
      BY <1>3, <2>2
    <3>2. o = n
      BY <1>1, <3>1 DEF Staggered, Stands
    <3>3. SameUpTo(new, new, i)
      BY <1>3 DEF SameUpTo
    <3>4. /\ node'[o].term = node[n].term /\ node'[o].role = "leader"
          /\ node'[o].log = new
      BY <1>2, <3>2
    <3>5. node[n].term >= node[n].term
      BY <1>1
    <3>6. QED
      BY <3>1, <3>3, <3>4, <3>5, Zenon
  <2>3. i <= Len(old) \/ i > Len(old)
    BY <1>1, <1>3
  <2>4. QED
    BY <2>1, <2>2, <2>3, Zenon
<1>9. ASSUME NEW L \in S
      PROVE  LogsMatch(new, L) /\ LogsMatch(L, new)
  <2>1. L \in Seq(Item) /\ LogsMatch(old, L)
    BY <1>1 DEF LogInv
  <2>2. ASSUME NEW i \in 1 .. Len(new), i \in 1 .. Len(L), new[i].term = L[i].term
        PROVE  SameUpTo(new, L, i) /\ SameUpTo(L, new, i)
    <3>1. CASE i <= Len(old)
      <4>1. i \in 1 .. Len(old) /\ new[i] = old[i]
        BY <1>1, <1>3, <3>1
      <4>2. SameUpTo(old, L, i)
        BY <1>1, <2>1, <2>2, <4>1 DEF LogsMatch
      <4>3. QED
        BY <1>1, <1>3, <4>1, <4>2 DEF SameUpTo
    <3>2. CASE i > Len(old)
      <4>1. L[i].term = node[n].term
        BY <1>3, <2>2, <3>2
      <4>2. SameUpTo(L, old, i)
        BY <1>0, <1>1, <2>2, <4>1 DEF LogInv, OwnerInv
      <4>3. QED
        BY <1>1, <3>2, <4>2 DEF SameUpTo
    <3>3. i <= Len(old) \/ i > Len(old)
      BY <1>1, <1>3
    <3>4. QED
      BY <3>1, <3>2, <3>3, Zenon
  <2>3. QED
    BY <1>3, <2>1, <2>2 DEF LogsMatch
<1>10. LogsMatch(new, new)
  BY <1>3 DEF LogsMatch, SameUpTo
<1>11. LogInv(T)'
  <2>1. \A q \in Replica : node'[q].log \in T
    BY <1>1, <1>2
  <2>2. \A L \in T : OwnerInv(L)'
    BY <1>7, <1>8
  <2>3. \A a, b \in T : LogsMatch(a, b)
    BY <1>9, <1>10 DEF LogInv
  <2>4. QED
    BY <2>1, <2>2, <2>3 DEF LogInv
<1>12. ASSUME NEW m \in InTransit', m.type = "AppendEntriesRequest"
       PROVE  SourceInv(m, T)'
  <2>1. CASE m \in InTransit
    <3>1. SourceInv(m, S) /\ m.from \in Replica
      BY <1>12, <2>1, RequestFacts DEF MessageInv
    <3>2. ASSUME m.entries # << >>
          PROVE  \E L \in T : /\ Slice(m, L)
                              /\ node'[m.from].term = m.term => SameUpTo(L, node'[m.from].log, Len(L))
      <4>1. PICK L \in S : /\ Slice(m, L)
                           /\ node[m.from].term = m.term => SameUpTo(L, node[m.from].log, Len(L))
        BY <3>1, <3>2 DEF SourceInv
      <4>2. Len(L) \in Nat
        OBVIOUS
      <4>3. QED
        BY <1>2, <1>6, <3>1, <4>1, <4>2
    <3>3. QED
      BY <1>2, <3>1, <3>2 DEF SourceInv
  <2>2. CASE m \notin InTransit
    <3>1. SentBy(n, node[n], m)
      BY <1>12, <2>2
    <3>2. SameUpTo(old, node'[n].log, Len(old))
      <4>1. SameUpTo(old, node[n].log, Len(old)) /\ Len(old) \in Nat
        BY <1>0, SameUpToFacts
      <4>2. QED
        BY <1>6, <4>1
    <3>3. m.entries # << >> =>
              \E L \in T : /\ Slice(m, L)
                           /\ node'[m.from].term = m.term => SameUpTo(L, node'[m.from].log, Len(L))
      BY <1>0, <1>1, <1>2, <3>1, <3>2 DEF SentBy
    <3>4. QED
      BY <1>1, <1>2, <3>1, <3>3 DEF SourceInv, SentBy
  <2>3. QED
    BY <2>1, <2>2
<1>13. MessageInv(T)'
  BY <1>12 DEF MessageInv
<1> HIDE DEF T
<1>14. QED
  BY <1>4, <1>5, <1>11, <1>13
-----------------------------------------------------------------------------
(***************************************************************************)
(* The actions.                                                            *)
(***************************************************************************)
LEMMA AppendEntriesToAllFacts ==
  ASSUME NEW n \in Replica, NEW s \in State, s.role = "leader", NEW read,
         NEW m \in AppendEntriesToAll(n, s, read)
  PROVE  SentBy(n, s, m)
<1>1. PICK q \in Replica :
          m = [type |-> "AppendEntriesRequest", from |-> n, to |-> q, term |-> s.term,
               prev |-> PrevIndex(s, q),
               prevTerm |-> IF OutsideLog(s, q) THEN read[q] ELSE TermAt(s.log, PrevIndex(s, q)),
               entries |-> IF OutsideLog(s, q) THEN << >> ELSE ItemsFrom(s.log, s.nextIndex[q]),
               commit |-> s.commitIndex]
  BY Zenon DEF AppendEntriesToAll
<1>2. CASE OutsideLog(s, q)
  BY <1>1, <1>2 DEF SentBy
<1>3. CASE ~ OutsideLog(s, q)
  <2>1. s.nextIndex[q] \in Nat /\ s.log \in Seq(Item)
    BY DEF State
  <2>2. /\ PrevIndex(s, q) <= Len(s.log)
        /\ s.nextIndex[q] = PrevIndex(s, q) + 1
    <3>1. PrevIndex(s, q) \in Nat
      BY <2>1, DecrementType DEF PrevIndex
    <3>2. PrevIndex(s, q) # Huge /\ PrevIndex(s, q) <= Len(s.log)
      BY <1>3, <2>1, <3>1 DEF OutsideLog, LastLogIndex
    <3>3. QED
      BY <2>1, <3>2, DecrementType DEF PrevIndex
  <2>3. Slice(m, s.log)
    BY <1>1, <1>3, <2>2 DEF Slice, ItemsFrom
  <2>4. QED
    BY <1>1, <2>3 DEF SentBy
<1>4. QED
  BY <1>2, <1>3

\* A replica that handles a message without touching its log.
LEMMA ReceiveStep ==
  ASSUME TypeOK, SourcesInv, NEW n \in Replica, NEW m \in BagToSet(inbox), Takes(n, m),
         NEW t \in State, NEW reset \in BOOLEAN, NEW A, A \subseteq Message,
         Becomes(n, t, reset, A),
         NEW S \in SUBSET Seq(Item), LogInv(S), MessageInv(S),
         Advances(n, node[n], t, S),
         \A a \in A : a.type = "AppendEntriesRequest" => SentBy(n, t, a)
  PROVE  SourcesInv'
<1>1. node' = [node EXCEPT ![n] = t]
  BY DEF Becomes
<1>2. \A a \in InTransit' :
          a \in InTransit \/ (a.type = "AppendEntriesRequest" => SentBy(n, t, a))
  BY ReceiveTransit
<1>3. StanderInv
  BY DEF SourcesInv
<1>4. StanderInv' /\ LogInv(S)' /\ MessageInv(S)'
  BY <1>1, <1>2, <1>3, NodeStep
<1>5. QED
  BY <1>4 DEF SourcesInv

\* Adopting a term, and then changing neither role, term nor log, is an advance.
LEMMA AdoptAdvances ==
  ASSUME TypeOK, SourcesInv, NEW n \in Replica, NEW u \in Term,
         NEW S \in SUBSET Seq(Item), LogInv(S),
         NEW t \in State, t.term = AdoptTerm(node[n], u).term,
         t.role = AdoptTerm(node[n], u).role, t.log = AdoptTerm(node[n], u).log
  PROVE  Advances(n, node[n], t, S)
<1> DEFINE a == AdoptTerm(node[n], u)
<1>1. /\ a.log = node[n].log
      /\ a.term >= node[n].term
      /\ a.term = node[n].term => a = node[n]
      /\ a.role # "follower" => a = node[n]
  BY AdoptTermFacts DEF TypeOK
<1>2. /\ t.term = a.term /\ t.role = a.role /\ t.log = a.log
      /\ a.term \in Nat /\ node[n].term \in Nat
  BY AdoptTermFacts, BoundTypes DEF TypeOK, State
<1> HIDE DEF a
<1>3. QED
  BY <1>1, <1>2 DEF Advances, SourcesInv, StanderInv, LogInv

\* Answering a vote request preserves the invariant.
LEMMA RequestVoteRequestSources ==
  ASSUME TypeOK, SourcesInv, NEW n \in Replica, NEW m \in BagToSet(inbox),
         HandleRequestVoteRequest(n, m)
  PROVE  SourcesInv'
<1> DEFINE s == AdoptTerm(node[n], m.term)
           stale == m.term < s.term
           granted == ~ stale /\ MayVote(s, m) /\ UpToDate(s.log, m.lastTerm, m.lastIndex)
           t == IF granted THEN [s EXCEPT !.votedFor = m.from] ELSE s
           r == RequestVoteReply(m, IF stale THEN 0 ELSE t.term, granted,
                                 IF granted THEN m.term ELSE 0)
           reset == node[n].term < m.term
<1>1. m \in RequestVoteRequest /\ Takes(n, m)
  BY TakesType DEF HandleRequestVoteRequest, Message, AppendEntriesRequest,
       RequestVoteRequest, AppendEntriesResponse, RequestVoteResponse
<1>2. Becomes(n, t, reset, {r})
  BY Zenon DEF HandleRequestVoteRequest
<1>3. s \in State
  BY <1>1, RoleTypes DEF TypeOK, RequestVoteRequest
<1> HIDE DEF s
<1>4. t \in State /\ t.term = s.term /\ t.role = s.role /\ t.log = s.log
  BY <1>1, <1>3 DEF State, RequestVoteRequest
<1>5. granted \in BOOLEAN /\ reset \in BOOLEAN
  BY DEF MayVote, UpToDate
<1> HIDE DEF t, granted
<1>6. r \in Message /\ r.type # "AppendEntriesRequest"
  BY <1>1, <1>4, <1>5, BoundTypes DEF RequestVoteReply, Message, RequestVoteRequest,
       RequestVoteResponse, State
<1> HIDE DEF r, reset
<1>7. PICK S \in SUBSET Seq(Item) : LogInv(S) /\ MessageInv(S)
  BY DEF SourcesInv
<1>8. Advances(n, node[n], t, S)
  BY <1>1, <1>4, <1>7, AdoptAdvances DEF s, RequestVoteRequest
<1>9. QED
  BY <1>1, <1>2, <1>4, <1>5, <1>6, <1>7, <1>8, ReceiveStep

\* Handling an answer to AppendEntries preserves the invariant.
LEMMA AppendEntriesResponseSources ==
  ASSUME TypeOK, SourcesInv, NEW n \in Replica, NEW m \in BagToSet(inbox),
         HandleAppendEntriesResponse(n, m)
  PROVE  SourcesInv'
<1> DEFINE s == AdoptTerm(node[n], m.term)
           match == IF m.matched <= s.matchIndex[m.from] THEN s.matchIndex[m.from]
                                                         ELSE m.matched
           next == IF match + 1 <= s.nextIndex[m.from] THEN s.nextIndex[m.from]
                                                       ELSE match + 1
           t == IF s.role # "leader" THEN s
                ELSE IF m.success
                THEN [s EXCEPT !.matchIndex[m.from] = match, !.nextIndex[m.from] = next]
                ELSE [s EXCEPT !.nextIndex[m.from] = Decrement(@)]
           reset == node[n].term < m.term
<1>1. m \in AppendEntriesResponse /\ Takes(n, m)
  BY TakesType DEF HandleAppendEntriesResponse, Message, AppendEntriesRequest,
       RequestVoteRequest, AppendEntriesResponse, RequestVoteResponse
<1>2. Becomes(n, t, reset, {})
  BY Zenon DEF HandleAppendEntriesResponse
<1>3. s \in State
  BY <1>1, RoleTypes DEF TypeOK, AppendEntriesResponse
<1> HIDE DEF s
<1>4. match \in Nat /\ next \in Nat
  BY <1>1, <1>3 DEF State, AppendEntriesResponse
<1>5. Decrement(s.nextIndex[m.from]) \in Nat
  BY <1>1, <1>3, DecrementType DEF State, AppendEntriesResponse
<1> HIDE DEF match, next
<1>6. t \in State /\ t.term = s.term /\ t.role = s.role /\ t.log = s.log
  BY <1>1, <1>3, <1>4, <1>5 DEF State
<1>7. reset \in BOOLEAN
  OBVIOUS
<1> HIDE DEF t, reset
<1>8. PICK S \in SUBSET Seq(Item) : LogInv(S) /\ MessageInv(S)
  BY DEF SourcesInv
<1>9. Advances(n, node[n], t, S)
  BY <1>1, <1>6, <1>8, AdoptAdvances DEF s, AppendEntriesResponse
<1>10. QED
  BY <1>1, <1>2, <1>6, <1>7, <1>8, <1>9, ReceiveStep

\* Counting a vote, and becoming the leader, preserves the invariant.
LEMMA RequestVoteResponseSources ==
  ASSUME TypeOK, SourcesInv, NEW n \in Replica, NEW m \in BagToSet(inbox),
         HandleRequestVoteResponse(n, m)
  PROVE  SourcesInv'
<1> DEFINE s == AdoptTerm(node[n], m.term)
           t == [s EXCEPT !.votes = @ \cup {m.from}]
           l == BecomeLeader(t)
           reset == node[n].term < m.term
           A == AppendEntriesToAll(n, l, Zero)
<1>1. m \in RequestVoteResponse /\ Takes(n, m)
  BY TakesType DEF HandleRequestVoteResponse, Message, AppendEntriesRequest,
       RequestVoteRequest, AppendEntriesResponse, RequestVoteResponse
<1>2. \/ Becomes(n, s, reset, {})
      \/ Counts(s, m) /\ Becomes(n, l, reset, A)
      \/ Becomes(n, t, reset, {})
  BY Zenon DEF HandleRequestVoteResponse
<1>3. PICK S \in SUBSET Seq(Item) : LogInv(S) /\ MessageInv(S)
  BY DEF SourcesInv
<1>4. m.term \in Term
  BY <1>1 DEF RequestVoteResponse
<1>5. s \in State /\ Advances(n, node[n], s, S)
  <2>1. s \in State
    BY <1>4, RoleTypes DEF TypeOK
  <2>2. QED
    BY <1>3, <1>4, <2>1, AdoptAdvances
<1>6. reset \in BOOLEAN
  OBVIOUS
<1> HIDE DEF s, reset
<1>7. t \in State /\ t.term = s.term /\ t.role = s.role /\ t.log = s.log
  BY <1>1, <1>5 DEF State, RequestVoteResponse
<1> HIDE DEF t
<1>8. l \in State /\ l.term = s.term /\ l.role = "leader" /\ l.log = s.log
  <2>1. l \in State
    BY <1>7, RoleTypes
  <2>2. QED
    BY <1>7, <2>1 DEF BecomeLeader, State
<1> HIDE DEF l
<1>9. A \subseteq Message /\ \A a \in A : SentBy(n, l, a)
  BY <1>8, BoundTypes, AppendEntriesToAllType, AppendEntriesToAllFacts DEF Message
<1> HIDE DEF A
<1>10. CASE Becomes(n, s, reset, {})
  BY <1>1, <1>3, <1>5, <1>6, <1>10, ReceiveStep
<1>11. CASE Becomes(n, t, reset, {})
  <2>1. Advances(n, node[n], t, S)
    BY <1>5, <1>7 DEF Advances
  <2>2. QED
    BY <1>1, <1>3, <1>6, <1>7, <1>11, <2>1, ReceiveStep
<1>12. CASE Counts(s, m) /\ Becomes(n, l, reset, A)
  <2>1. Advances(n, node[n], l, S)
    BY <1>5, <1>8, <1>12 DEF Advances, Counts
  <2>2. QED
    BY <1>1, <1>3, <1>6, <1>8, <1>9, <1>12, <2>1, ReceiveStep
<1>13. QED
  BY <1>2, <1>10, <1>11, <1>12

\* What a replica makes of its log when it accepts a request: it is a log of S
\* again, and a leader of the request's term keeps its own.
LEMMA AcceptedLog ==
  ASSUME Staggered, TypeOK, StanderInv,
         NEW S \in SUBSET Seq(Item), LogInv(S), MessageInv(S),
         NEW n \in Replica, NEW m \in InTransit, m.type = "AppendEntriesRequest",
         HasPrev(node[n].log, m.prev, m.prevTerm)
  PROVE  /\ AppendItems(node[n].log, m.prev, m.entries) \in S
         /\ node[n].role = "leader" /\ node[n].term = m.term =>
                AppendItems(node[n].log, m.prev, m.entries) = node[n].log
<1> DEFINE f == node[n].log
<1>1. /\ f \in Seq(Item) /\ f \in S
      /\ m.prev \in Nat /\ m.entries \in Seq(Item)
      /\ m.prev <= Len(f) /\ TermAt(f, m.prev) = m.prevTerm
      /\ SourceInv(m, S)
  BY RequestFacts DEF TypeOK, State, LogInv, MessageInv, HasPrev
<1>2. node[n].role = "leader" /\ node[n].term = m.term => m.from = n
  BY <1>1 DEF StanderInv, SourceInv, Staggered, Stands
<1> HIDE DEF f
<1>3. CASE m.entries = << >>
  <2>1. AppendItems(f, m.prev, m.entries) = f
    BY <1>1, <1>3 DEF AppendItems, Contains
  <2>2. QED
    BY <1>1, <2>1 DEF f
<1>4. CASE m.entries # << >>
  <2>1. PICK L \in S : /\ Slice(m, L)
                       /\ node[m.from].term = m.term => SameUpTo(L, node[m.from].log, Len(L))
    BY <1>1, <1>4 DEF SourceInv
  <2>2. L \in Seq(Item) /\ LogsMatch(f, L)
    BY <1>1 DEF LogInv
  <2>3. /\ m.prev <= Len(L) /\ TermAt(f, m.prev) = TermAt(L, m.prev)
        /\ m.entries = SubSeq(L, m.prev + 1, Len(L))
    BY <1>1, <2>1 DEF Slice
  <2>4. AppendItems(f, m.prev, m.entries) \in {f, L}
    BY <1>1, <2>2, <2>3, SpliceGivesSource
  <2>5. SameUpTo(L, f, Len(L)) => AppendItems(f, m.prev, m.entries) = f
    BY <1>1, <2>2, <2>3, ContainsSource
  <2>6. QED
    BY <1>1, <1>2, <2>1, <2>4, <2>5 DEF f
<1>5. QED
  BY <1>3, <1>4

\* Handling AppendEntries preserves the invariant.
LEMMA AppendEntriesRequestSources ==
  ASSUME Staggered, TypeOK, SourcesInv, NEW n \in Replica, NEW m \in BagToSet(inbox),
         HandleAppendEntriesRequest(n, m)
  PROVE  SourcesInv'
<1> DEFINE s == AdoptTerm(node[n], m.term)
           stale == m.term < s.term
           accepted == ~ stale /\ HasPrev(s.log, m.prev, m.prevTerm)
           t == IF accepted THEN AcceptEntries(s, m) ELSE s
           sent == m.prev + Len(m.entries)
           matched == IF LastLogIndex(t.log) <= sent THEN LastLogIndex(t.log) ELSE sent
           r == AppendEntriesReply(m, t.term, accepted, IF accepted THEN matched ELSE 0)
<1>1. m \in AppendEntriesRequest /\ Takes(n, m) /\ m.type = "AppendEntriesRequest"
  BY TakesType DEF HandleAppendEntriesRequest, Message, AppendEntriesRequest,
       RequestVoteRequest, AppendEntriesResponse, RequestVoteResponse
<1>2. Becomes(n, t, TRUE, {r})
  BY Zenon DEF HandleAppendEntriesRequest
<1>3. PICK S \in SUBSET Seq(Item) : LogInv(S) /\ MessageInv(S)
  BY DEF SourcesInv
<1>4. m.term \in Term /\ m \in InTransit
  BY <1>1 DEF AppendEntriesRequest, InTransit
<1>5. /\ s \in State /\ s.log = node[n].log
      /\ s.role # "follower" => s = node[n]
      /\ s.term \in Nat /\ m.term \in Nat /\ s.term >= m.term
      /\ Advances(n, node[n], s, S)
  <2>1. node[n] \in State
    BY DEF TypeOK
  <2>2. s \in State /\ s.term \in Nat /\ m.term \in Nat
    BY <1>4, <2>1, RoleTypes, BoundTypes DEF State
  <2>3. QED
    BY <1>3, <1>4, <2>1, <2>2, AdoptTermFacts, AdoptAdvances
<1> HIDE DEF s
<1>6. /\ t \in State /\ t.term = s.term /\ t.role = s.role
      /\ t.log = IF accepted THEN AppendItems(s.log, m.prev, m.entries) ELSE s.log
  <2>1. CASE accepted
    <3>1. t \in State
      BY <1>1, <1>5, <2>1, AcceptEntriesType DEF HasPrev
    <3>2. QED
      BY <1>5, <2>1, <3>1 DEF AcceptEntries, State
  <2>2. CASE ~ accepted
    BY <1>5, <2>2
  <2>3. QED
    BY <2>1, <2>2
<1>7. Advances(n, node[n], t, S)
  <2>1. CASE accepted
    <3>1. /\ t.log \in S
          /\ node[n].role = "leader" /\ node[n].term = m.term => t.log = node[n].log
      BY <1>1, <1>3, <1>4, <1>5, <1>6, <2>1, AcceptedLog DEF SourcesInv
    <3>2. s.term = m.term
      BY <1>5, <2>1
    <3>3. QED
      BY <1>5, <1>6, <3>1, <3>2 DEF Advances
  <2>2. CASE ~ accepted
    BY <1>5, <2>2
  <2>3. QED
    BY <2>1, <2>2
<1>8. accepted \in BOOLEAN
  BY DEF HasPrev
<1> HIDE DEF t, accepted
<1>9. matched \in Nat
  <2>1. LastLogIndex(t.log) \in Nat
    BY <1>6, LogTypes DEF State
  <2>2. sent \in Nat
    BY <1>1 DEF AppendEntriesRequest
  <2>3. QED
    BY <2>1, <2>2
<1> HIDE DEF matched
<1>10. r \in Message /\ r.type # "AppendEntriesRequest"
  BY <1>1, <1>6, <1>8, <1>9 DEF AppendEntriesReply, Message, AppendEntriesRequest,
       AppendEntriesResponse, State
<1> HIDE DEF r
<1>11. PICK reset \in BOOLEAN : Becomes(n, t, reset, {r})
  BY <1>2, Zenon
<1>12. QED
  BY <1>1, <1>3, <1>6, <1>7, <1>10, <1>11, ReceiveStep

\* A step that leaves terms, roles and logs alone and sends nothing new.
LEMMA QuietStep ==
  ASSUME TypeOK, SourcesInv,
         \A q \in Replica : /\ node'[q].term = node[q].term
                            /\ node'[q].role = node[q].role
                            /\ node'[q].log = node[q].log,
         \A m \in InTransit' : m \in InTransit
  PROVE  SourcesInv'
<1>1. PICK S \in SUBSET Seq(Item) : LogInv(S) /\ MessageInv(S)
  BY DEF SourcesInv
<1>2. StanderInv'
  BY DEF StanderInv, SourcesInv
<1>3. LogInv(S)'
  BY <1>1 DEF LogInv, OwnerInv
<1>4. ASSUME NEW m \in InTransit', m.type = "AppendEntriesRequest"
      PROVE  SourceInv(m, S)'
  <2>1. SourceInv(m, S) /\ m.from \in Replica
    BY <1>1, <1>4, RequestFacts DEF MessageInv
  <2>2. QED
    BY <2>1 DEF SourceInv
<1>5. QED
  BY <1>2, <1>3, <1>4 DEF SourcesInv, MessageInv

\* The start of a tick preserves the invariant.
LEMMA BeginTickSources ==
  ASSUME TypeOK, SourcesInv, NEW n \in Replica, BeginTick(n)
  PROVE  SourcesInv'
<1>1. \A q \in Replica : /\ node'[q].term = node[q].term
                         /\ node'[q].role = node[q].role
                         /\ node'[q].log = node[q].log
  <2>1. CASE Commit(n)
    <3> DEFINE upto == CommitTarget(node[n])
    <3>1. node' = [node EXCEPT ![n].commitIndex = upto]
      BY <2>1 DEF Commit
    <3> HIDE DEF upto
    <3>2. QED
      BY <3>1 DEF TypeOK, State
  <2>2. CASE UNCHANGED node
    BY <2>2
  <2>3. QED
    BY <2>1, <2>2 DEF BeginTick
<1>2. InTransit' \subseteq InTransit
  <2>1. PICK B \in Batches(n) : inbox' = B (+) Own(n)
    BY DEF BeginTick
  <2>2. IsMessageBag(inbox') /\ BagToSet(inbox') \subseteq BagToSet(messages)
    BY <2>1, BatchTypes, AddBags
  <2>3. IsMessageBag(messages)
    BY DEF TypeOK, IsMessageBag
  <2>4. BagToSet(messages') \subseteq BagToSet(messages)
    BY <2>2, <2>3, SubtractBags DEF BeginTick
  <2>5. QED
    BY <2>2, <2>4 DEF InTransit
<1>3. QED
  BY <1>1, <1>2, QuietStep

\* Heartbeats and AddNewCommandsToLog preserve the invariant.
LEMMA EndLeaderTickSources ==
  ASSUME Staggered, TypeOK, SourcesInv, NEW n \in Replica, EndLeaderTick(n)
  PROVE  SourcesInv'
<1>1. UNCHANGED inbox
  BY DEF EndLeaderTick
<1>2. CASE UNCHANGED <<node, messages>>
  BY <1>1, <1>2, QuietStep DEF InTransit
<1>3. ASSUME NEW read \in TermsRead(node[n]),
             messages' = Send(messages, AppendEntriesToAll(n, node[n], read)),
             AddNewCommandsToLog(n), node[n].role = "leader"
      PROVE  SourcesInv'
  <2> DEFINE A == AppendEntriesToAll(n, node[n], read)
  <2>1. node[n] \in State
    BY DEF TypeOK
  <2>2. read \in [Replica -> Term]
    BY <1>3, BoundTypes DEF TermsRead
  <2>3. A \subseteq Message /\ \A m \in A : SentBy(n, node[n], m)
    BY <1>3, <2>1, <2>2, AppendEntriesToAllType, AppendEntriesToAllFacts DEF Message
  <2> HIDE DEF A
  <2>4. \A m \in InTransit' :
            m \in InTransit \/ (m.type = "AppendEntriesRequest" => SentBy(n, node[n], m))
    <3>1. IsMessageBag(messages)
      BY DEF TypeOK, IsMessageBag
    <3>2. BagToSet(messages') \subseteq BagToSet(messages) \cup A
      BY <1>3, <2>3, <3>1, SendBags DEF A
    <3>3. QED
      BY <1>1, <2>3, <3>2 DEF InTransit
  <2>5. PICK tail \in Seq(Item) : /\ \A k \in 1 .. Len(tail) : tail[k].term = node[n].term
                                  /\ node' = [node EXCEPT ![n].log = node[n].log \o tail]
    <3> DEFINE s == node[n]
               new == incoming_commands[n]
    <3>1. new \in Seq(Command) /\ s.term \in Term
      BY <2>1 DEF TypeOK, State
    <3>2. node' = [node EXCEPT ![n].log = node[n].log \o NewItems(s, new)]
      BY <1>3 DEF AddNewCommandsToLog
    <3> HIDE DEF new, s
    <3>3. /\ NewItems(s, new) \in Seq(Item)
          /\ \A k \in 1 .. Len(NewItems(s, new)) : NewItems(s, new)[k].term = s.term
      BY <3>1 DEF NewItems, Item
    <3>4. QED
      BY <3>2, <3>3 DEF s
  <2>6. PICK S \in SUBSET Seq(Item) : LogInv(S) /\ MessageInv(S)
    BY DEF SourcesInv
  <2>7. StanderInv
    BY DEF SourcesInv
  <2>8. QED
    BY <1>3, <2>4, <2>5, <2>6, <2>7, AppendStep DEF SourcesInv
<1>4. QED
  BY <1>2, <1>3 DEF EndLeaderTick

\* Standing for the next term preserves the invariant.
LEMMA EndExpiredTickSources ==
  ASSUME TypeOK, SourcesInv, NEW n \in Replica, EndExpiredTick(n)
  PROVE  SourcesInv'
<1> DEFINE t == BecomeCandidate(node[n], n)
           A == RequestVoteToAll(n, t)
<1>1. /\ node' = [node EXCEPT ![n] = t]
      /\ messages' = Send(messages, A)
      /\ UNCHANGED inbox
      /\ node[n].term < MaxTerm
      /\ n \in Standing[node[n].term + 1]
  BY DEF TimerMayExpire, EndExpiredTick
<1>2. /\ node[n] \in State /\ node[n].term \in Nat /\ MaxTerm \in Nat
      /\ t \in State
  BY <1>1, RoleTypes, BoundTypes DEF TypeOK, State
<1>3. t.term = node[n].term + 1 /\ t.log = node[n].log
  BY <1>2 DEF BecomeCandidate, State
<1> HIDE DEF t
<1>4. Stands(n, t.term)
  BY <1>1, <1>2, <1>3 DEF Stands
<1>5. A \subseteq Message /\ \A m \in A : m.type # "AppendEntriesRequest"
  <2>1. LastLogIndex(t.log) \in Nat /\ LastLogTerm(t.log) \in Term /\ t.term \in Term
    BY <1>2, LogTypes DEF State
  <2>2. QED
    BY <2>1 DEF RequestVoteToAll, Message, RequestVoteRequest
<1> HIDE DEF A
<1>6. \A m \in InTransit' :
          m \in InTransit \/ (m.type = "AppendEntriesRequest" => SentBy(n, t, m))
  <2>1. IsMessageBag(messages)
    BY DEF TypeOK, IsMessageBag
  <2>2. BagToSet(messages') \subseteq BagToSet(messages) \cup A
    BY <1>1, <1>5, <2>1, SendBags
  <2>3. QED
    BY <1>1, <1>5, <2>2 DEF InTransit
<1>7. PICK S \in SUBSET Seq(Item) : LogInv(S) /\ MessageInv(S)
  BY DEF SourcesInv
<1>8. Advances(n, node[n], t, S)
  BY <1>2, <1>3, <1>4, <1>7 DEF Advances, LogInv
<1>9. StanderInv
  BY DEF SourcesInv
<1>10. StanderInv' /\ LogInv(S)' /\ MessageInv(S)'
  BY <1>1, <1>2, <1>6, <1>7, <1>8, <1>9, NodeStep
<1>11. QED
  BY <1>10 DEF SourcesInv
-----------------------------------------------------------------------------
(***************************************************************************)
(* The invariant, and what it implies.                                     *)
(***************************************************************************)
LEMMA SourcesInit == Init => SourcesInv
<1> SUFFICES ASSUME Init PROVE SourcesInv
  OBVIOUS
<1> DEFINE S == {<< >>}
<1>1. S \in SUBSET Seq(Item)
  OBVIOUS
<1>2. \A n \in Replica : node[n].log = << >> /\ node[n].role = "follower"
  BY DEF Init, NewNode
<1>3. LogInv(S)
  BY <1>2 DEF LogInv, OwnerInv, LogsMatch
<1>4. InTransit = {}
  BY EmptyBags DEF Init, InTransit
<1> HIDE DEF S
<1>5. QED
  BY <1>1, <1>2, <1>3, <1>4 DEF SourcesInv, StanderInv, MessageInv

\* Every step preserves the invariant.
LEMMA SourcesStep ==
  ASSUME Staggered, TypeOK, SourcesInv, [Next]_vars
  PROVE  SourcesInv'
<1>1. CASE UNCHANGED vars
  BY <1>1, QuietStep DEF vars, InTransit
<1>2. ASSUME NEW n \in Replica, Call(n) \/ BeginTick(n) \/ Receive(n) \/ EndTick(n)
      PROVE  SourcesInv'
  <2>1. CASE Call(n)
    <3>1. UNCHANGED <<node, inbox, messages>>
      BY <2>1 DEF Call, AddCommand, GetPersistentCommands, replicaVars
    <3>2. QED
      BY <3>1, QuietStep DEF InTransit
  <2>2. CASE BeginTick(n)
    BY <2>2, BeginTickSources
  <2>3. CASE Receive(n)
    BY <2>3, AppendEntriesRequestSources, RequestVoteRequestSources,
       AppendEntriesResponseSources, RequestVoteResponseSources DEF Receive
  <2>4. CASE EndTick(n)
    <3>1. CASE EndLeaderTick(n)
      BY <3>1, EndLeaderTickSources
    <3>2. CASE EndQuietTick(n)
      BY <3>2, QuietStep DEF EndQuietTick, InTransit
    <3>3. CASE EndExpiredTick(n)
      BY <3>3, EndExpiredTickSources
    <3>4. QED
      BY <2>4, <3>1, <3>2, <3>3 DEF EndTick
  <2>5. QED
    BY <1>2, <2>1, <2>2, <2>3, <2>4
<1>3. QED
  BY <1>1, <1>2, Zenon DEF Next

\* The invariant is inductive.
LEMMA Invariance ==
  ASSUME Staggered
  PROVE  Spec => []IInv
<1>1. Init => IInv
  BY TypeInit, SourcesInit DEF IInv
<1>2. IInv /\ [Next]_vars => IInv'
  BY TypeStep, SourcesStep DEF IInv
<1>3. QED
  BY <1>1, <1>2, PTL DEF Spec

\* If no two replicas ever stand for the same term, two replicas' logs that have
\* an item of the same term at an index are the same up to it.
THEOREM LogMatchingHolds ==
  ASSUME Staggered
  PROVE  Spec => []LogMatching
<1>1. IInv => LogMatching
  BY DEF IInv, SourcesInv, LogInv, LogMatching
<1>2. QED
  BY <1>1, Invariance, PTL

\* The items of a slice are the log's own, at their indices.
LEMMA SliceItems ==
  ASSUME NEW L \in Seq(Item), NEW prev \in Nat, prev <= Len(L),
         NEW k \in DOMAIN SubSeq(L, prev + 1, Len(L))
  PROVE  prev + k \in 1 .. Len(L) /\ SubSeq(L, prev + 1, Len(L))[k] = L[prev + k]
<1> DEFINE items == SubSeq(L, prev + 1, Len(L))
<1>1. /\ DOMAIN items = 1 .. Len(L) - prev
      /\ \A j \in 1 .. Len(L) - prev : items[j] = L[prev + j]
  OBVIOUS
<1>2. QED
  BY <1>1

\* What LeaderAppendOnly says of one step.
LeaderAppends == \A n \in Replica :
    /\ node[n].role = "leader" /\ node'[n].role = "leader"
    /\ node[n].term = node'[n].term
    => SameUpTo(node[n].log, node'[n].log, Len(node[n].log))

\* A step of n in which a leader of the same term keeps the items of its log.
LEMMA LeaderAppendsStep ==
  ASSUME TypeOK, NEW n \in Replica, NEW t \in State, node' = [node EXCEPT ![n] = t],
         /\ node[n].role = "leader" /\ t.role = "leader" /\ node[n].term = t.term
         => SameUpTo(node[n].log, t.log, Len(node[n].log))
  PROVE  LeaderAppends
<1>1. node'[n] = t /\ \A q \in Replica \ {n} : node'[q] = node[q]
  BY DEF TypeOK
<1>2. \A q \in Replica : SameUpTo(node[q].log, node[q].log, Len(node[q].log))
  BY DEF SameUpTo, TypeOK, State
<1>3. QED
  BY <1>1, <1>2 DEF LeaderAppends

\* A state with another log has that log.
LEMMA ExceptLog ==
  ASSUME NEW s \in State, NEW log
  PROVE  [s EXCEPT !.log = log].log = log
BY DEF State

\* A step that changes no log.
LEMMA LogsStay ==
  ASSUME TypeOK, \A q \in Replica : node'[q].log = node[q].log
  PROVE  LeaderAppends
BY SMTT(30) DEF LeaderAppends, SameUpTo, TypeOK, State

\* Every step keeps the items of the leaders.
LEMMA LeaderAppendsNext ==
  ASSUME Staggered, TypeOK, SourcesInv, [Next]_vars
  PROVE  LeaderAppends
<1>1. CASE UNCHANGED vars
  BY <1>1, LogsStay DEF vars
<1>2. ASSUME NEW n \in Replica, Call(n) \/ BeginTick(n) \/ Receive(n) \/ EndTick(n)
      PROVE  LeaderAppends
  <2>1. node[n] \in State
    BY DEF TypeOK
  <2>2. SameUpTo(node[n].log, node[n].log, Len(node[n].log))
    BY <2>1 DEF SameUpTo, State
  <2>3. ASSUME NEW t \in State, node' = [node EXCEPT ![n] = t], t.log = node[n].log
        PROVE  LeaderAppends
    BY <2>2, <2>3, LeaderAppendsStep
  <2>4. CASE Call(n)
    <3>1. UNCHANGED node
      BY <2>4 DEF Call, AddCommand, GetPersistentCommands, replicaVars
    <3>2. QED
      BY <3>1, LogsStay
  <2>5. CASE BeginTick(n)
    <3>1. CASE UNCHANGED node
      BY <3>1, LogsStay
    <3>2. ASSUME NEW t \in State, node' = [node EXCEPT ![n] = t],
                 t = [node[n] EXCEPT !.commitIndex = CommitTarget(node[n])]
          PROVE  LeaderAppends
      <4>1. t.log = node[n].log
        BY <2>1, <3>2 DEF State
      <4>2. QED
        BY <2>3, <3>2, <4>1
    <3>3. QED
      BY <2>5, <3>1, <3>2, BeginTickStep
  <2>6. ASSUME NEW m \in BagToSet(inbox), HandleAppendEntriesRequest(n, m)
        PROVE  LeaderAppends
    <3>1. m \in InTransit /\ m.type = "AppendEntriesRequest" /\ m.term \in Term
      BY <2>6, AppendEntriesRequestStep DEF AppendEntriesRequest
    <3>2. PICK s, t \in State, accepted \in BOOLEAN, matched \in Nat :
              AppendEntriesRequestEffect(n, m, s, t, accepted, matched)
      BY <2>6, AppendEntriesRequestStep
    <3>3. /\ node' = [node EXCEPT ![n] = t]
          /\ s = AdoptTerm(node[n], m.term) /\ t.term = s.term
          /\ accepted => m.term = s.term /\ HasPrev(s.log, m.prev, m.prevTerm)
          /\ t.log = IF accepted THEN AppendItems(s.log, m.prev, m.entries) ELSE s.log
      BY <3>2 DEF AppendEntriesRequestEffect, Handled
    <3>4. s.log = node[n].log /\ (s.term = node[n].term => s = node[n])
      BY <2>1, <3>1, <3>3, AdoptTermFacts
    <3>5. CASE accepted /\ node[n].role = "leader" /\ node[n].term = t.term
      <4>1. PICK S \in SUBSET Seq(Item) : LogInv(S) /\ MessageInv(S)
        BY DEF SourcesInv
      <4>2. HasPrev(node[n].log, m.prev, m.prevTerm) /\ node[n].term = m.term
        BY <3>3, <3>4, <3>5
      <4>3. t.log = node[n].log
        BY <3>1, <3>3, <3>4, <3>5, <4>1, <4>2, AcceptedLog DEF SourcesInv
      <4>4. QED
        BY <2>3, <3>3, <4>3
    <3>6. CASE ~ accepted
      BY <2>3, <3>3, <3>4, <3>6
    <3>7. CASE ~ (node[n].role = "leader" /\ node[n].term = t.term)
      BY <3>3, <3>7, LeaderAppendsStep
    <3>8. QED
      BY <3>5, <3>6, <3>7
  <2>7. ASSUME NEW m \in BagToSet(inbox), HandleRequestVoteRequest(n, m)
        PROVE  LeaderAppends
    <3>1. PICK s, t \in State, granted \in BOOLEAN, u \in Term :
              RequestVoteRequestEffect(n, m, s, t, granted, u)
      BY <2>7, RequestVoteRequestStep
    <3>2. node' = [node EXCEPT ![n] = t] /\ s = AdoptTerm(node[n], m.term) /\ t.log = s.log
      BY <3>1 DEF RequestVoteRequestEffect, Handled
    <3>3. m.term \in Term
      BY <2>7, RequestVoteRequestStep DEF RequestVoteRequest
    <3>4. QED
      BY <2>1, <2>3, <3>2, <3>3, AdoptTermFacts
  <2>8. ASSUME NEW m \in BagToSet(inbox), HandleAppendEntriesResponse(n, m)
        PROVE  LeaderAppends
    <3>1. PICK s, t \in State : AppendEntriesResponseEffect(n, m, s, t)
      BY <2>8, AppendEntriesResponseStep
    <3>2. node' = [node EXCEPT ![n] = t] /\ s = AdoptTerm(node[n], m.term) /\ t.log = s.log
      BY <3>1 DEF AppendEntriesResponseEffect, Handled
    <3>3. m.term \in Term
      BY <2>8, AppendEntriesResponseStep DEF AppendEntriesResponse
    <3>4. QED
      BY <2>1, <2>3, <3>2, <3>3, AdoptTermFacts
  <2>9. ASSUME NEW m \in BagToSet(inbox), HandleRequestVoteResponse(n, m)
        PROVE  LeaderAppends
    <3>1. PICK s, t \in State, A \in SUBSET AppendEntriesRequest :
              RequestVoteResponseEffect(n, m, s, t, A)
      BY <2>9, RequestVoteResponseStep
    <3>2. node' = [node EXCEPT ![n] = t] /\ s = AdoptTerm(node[n], m.term) /\ t.log = s.log
      BY <3>1 DEF RequestVoteResponseEffect, Handled
    <3>3. m.term \in Term
      BY <2>9, RequestVoteResponseStep DEF RequestVoteResponse
    <3>4. QED
      BY <2>1, <2>3, <3>2, <3>3, AdoptTermFacts
  <2>10. CASE EndLeaderTick(n)
    <3>1. CASE UNCHANGED node
      BY <3>1, LogsStay
    <3>2. ASSUME NEW t \in State, NEW tail \in Seq(Item), node' = [node EXCEPT ![n] = t],
                 t = [node[n] EXCEPT !.log = node[n].log \o tail]
          PROVE  LeaderAppends
      <4>1. t.log = node[n].log \o tail /\ node[n].log \in Seq(Item) /\ Len(node[n].log) \in Nat
        <5>1. t.log = node[n].log \o tail
          BY <2>1, <3>2, ExceptLog
        <5>2. QED
          BY <2>1, <5>1 DEF State
      <4>2. SameUpTo(node[n].log, t.log, Len(node[n].log))
        BY <2>2, <4>1, SameUpToFacts
      <4>3. QED
        BY <3>2, <4>2, LeaderAppendsStep
    <3>3. QED
      BY <2>10, <3>1, <3>2, EndLeaderTickStep
  <2>11. CASE EndQuietTick(n)
    BY <2>11, LogsStay DEF EndQuietTick
  <2>12. CASE EndExpiredTick(n)
    BY <2>3, <2>12, EndExpiredTickStep
  <2>13. QED
    BY <1>2, <2>4, <2>5, <2>6, <2>7, <2>8, <2>9, <2>10, <2>11, <2>12 DEF Receive, EndTick
<1>3. QED
  BY <1>1, <1>2, Zenon DEF Next

\* If no two replicas ever stand for the same term, a leader never drops or
\* rewrites an item of its log while it leads a term, although it handles its own
\* heartbeats, which may be late and shorter than its log, as a follower does.
THEOREM LeaderAppendOnlyHolds ==
  ASSUME Staggered
  PROVE  Spec => LeaderAppendOnly
<1>1. IInv /\ [Next]_vars => [LeaderAppends]_vars
  BY LeaderAppendsNext DEF IInv
<1>2. Spec => [][LeaderAppends]_vars
  BY <1>1, Invariance, PTL DEF Spec
<1>3. QED
  BY <1>2 DEF LeaderAppendOnly, LeaderAppends

\* If no two replicas ever stand for the same term, what node.cpp:153-156 calls
\* unexpected does not occur: two leaders of one term are all it takes (run
\* two_leaders) and nothing less will do.
THEOREM NoConflictWithinTermHolds ==
  ASSUME Staggered
  PROVE  Spec => []NoConflictWithinTerm
<1>1. IInv => NoConflictWithinTerm
  <2> SUFFICES ASSUME TypeOK, SourcesInv,
                      NEW m \in InTransit, m.type = "AppendEntriesRequest",
                      NEW k \in DOMAIN m.entries,
                      m.prev + k \in DOMAIN node[m.to].log,
                      node[m.to].log[m.prev + k].term = m.entries[k].term
               PROVE  node[m.to].log[m.prev + k] = m.entries[k]
    BY DEF IInv, NoConflictWithinTerm
  <2>1. PICK S \in SUBSET Seq(Item) : LogInv(S) /\ MessageInv(S)
    BY DEF SourcesInv
  <2>2. m.to \in Replica /\ m.prev \in Nat /\ m.entries \in Seq(Item)
    BY RequestFacts DEF AppendEntriesRequest
  <2>3. m.entries # << >>
    OBVIOUS
  <2>4. PICK L \in S : Slice(m, L)
    BY <2>1, <2>3 DEF MessageInv, SourceInv
  <2>5. L \in Seq(Item) /\ node[m.to].log \in Seq(Item) /\ LogsMatch(node[m.to].log, L)
    BY <2>1, <2>2 DEF LogInv
  <2>6. m.prev + k \in 1 .. Len(L) /\ L[m.prev + k] = m.entries[k]
    BY <2>2, <2>4, <2>5, SliceItems, SMTT(30) DEF Slice
  <2>7. SameUpTo(node[m.to].log, L, m.prev + k)
    BY <2>5, <2>6 DEF LogsMatch
  <2>8. QED
    BY <2>6, <2>7 DEF SameUpTo
<1>2. QED
  BY <1>1, Invariance, PTL
-----------------------------------------------------------------------------
(***************************************************************************)
(* Votes and the logs they are for.                                        *)
(***************************************************************************)
\* The end of the log of s is the one m names.
NamesEnd(m, s) == m.lastTerm = LastLogTerm(s.log) /\ m.lastIndex = LastLogIndex(s.log)

\* A request for votes is of a term its sender has reached, and while it stands for
\* that term, names the end of its log.
RequestsName == \A m \in InTransit : m.type = "RequestVoteRequest" =>
    /\ m.term <= node[m.from].term
    /\ node[m.from].role = "candidate" /\ node[m.from].term = m.term => NamesEnd(m, node[m.from])

\* Nobody has votes for a term it has not reached.
VotesReached == \A v, c \in Replica, u \in Term : Vote(v, c, u) => u <= node[c].term

VoterInv == VotersNotAhead /\ RequestsName /\ VotesReached

\* Replica n goes to the state t: a candidate keeps its log or stands anew, votes
\* are those given, and a voter keeps its log while another stands for its term.
KeepsLogs(n, t) ==
    /\ node[n].term <= t.term
    /\ t.role = "candidate" =>
           \/ node[n].role = "candidate" /\ node[n].term = t.term /\ t.log = node[n].log
           \/ node[n].term < t.term /\ t.votes = {}
    /\ \A v \in t.votes : Vote(v, n, t.term)
    /\ t.term = node[n].term /\ t.log # node[n].log =>
           \A c \in Replica \ {n} : ~ (node[c].role = "candidate" /\ node[c].term = t.term)

\* The request r, which a vote of n in the state t answers.
Answers(n, t, r) ==
    /\ r.type = "RequestVoteRequest" /\ r.term = t.term
    /\ UpToDate(t.log, r.lastTerm, r.lastIndex)

\* A new request for votes is of n and names the end of its log; a new vote of n
\* answers a request.
NewVoting(n, t, m) ==
    /\ m.type = "RequestVoteRequest" => m.from = n /\ m.term = t.term /\ NamesEnd(m, t)
    /\ m.type = "RequestVoteResponse" /\ m.granted =>
           /\ m.from = n /\ m.candidateTerm = t.term
           /\ \E r \in InTransit : Answers(n, t, r) /\ r.from = m.to

LEMMA VoterStep ==
  ASSUME TypeOK, VotesBacked, VoterInv, NEW n \in Replica, NEW t \in State, KeepsLogs(n, t),
         node' = [node EXCEPT ![n] = t],
         \A m \in InTransit' : m \in InTransit \/ NewVoting(n, t, m)
  PROVE  VoterInv'
<1>1. /\ node'[n] = t
      /\ \A q \in Replica \ {n} : node'[q] = node[q]
      /\ \A q \in Replica : node[q].term \in Nat /\ node[q].term \in Term
      /\ t.term \in Nat /\ t.term \in Term
      /\ t.log \in Seq(Item)
  BY BoundTypes DEF TypeOK, State
<1>2. \A q \in Replica : node[q].term <= node'[q].term /\ node'[q].term \in Nat
  BY <1>1 DEF KeepsLogs
<1>3. \A m \in InTransit : m.type = "RequestVoteRequest" => m.from \in Replica /\ m.term \in Nat
  <2>1. \A m \in InTransit : m \in Message
    BY DEF TypeOK, InTransit
  <2>2. QED
    BY <2>1, BoundTypes DEF Message, AppendEntriesRequest, RequestVoteRequest,
         AppendEntriesResponse, RequestVoteResponse
<1>4. ASSUME NEW v \in Replica, NEW c \in Replica, NEW u \in Term, Vote(v, c, u)'
      PROVE  \/ Vote(v, c, u)
             \/ /\ v = n /\ u = t.term
                /\ \E r \in InTransit : Answers(n, t, r) /\ r.from = c
  <2>1. CASE \E m \in InTransit' : /\ m.type = "RequestVoteResponse"
                                   /\ m.granted /\ m.from = v /\ m.to = c /\ m.candidateTerm = u
    <3>1. PICK m \in InTransit' : /\ m.type = "RequestVoteResponse"
                                  /\ m.granted /\ m.from = v /\ m.to = c /\ m.candidateTerm = u
      BY <2>1
    <3>2. CASE m \in InTransit
      BY <3>1, <3>2 DEF Vote
    <3>3. CASE NewVoting(n, t, m)
      BY <3>1, <3>3 DEF NewVoting
    <3>4. QED
      BY <3>2, <3>3
  <2>2. CASE v \in node'[c].votes /\ node'[c].term = u
    <3>1. CASE c = n
      BY <1>1, <2>2, <3>1 DEF KeepsLogs
    <3>2. CASE c # n
      BY <1>1, <2>2, <3>2 DEF Vote
    <3>3. QED
      BY <3>1, <3>2
  <2>3. QED
    BY <1>4, <2>1, <2>2 DEF Vote
<1>5. VotesReached'
  <2> SUFFICES ASSUME NEW v \in Replica, NEW c \in Replica, NEW u \in Term, Vote(v, c, u)'
               PROVE  u <= node'[c].term
    BY DEF VotesReached
  <2>1. u \in Nat
    BY BoundTypes
  <2>2. u <= node[c].term
    <3>1. CASE Vote(v, c, u)
      BY <3>1 DEF VoterInv, VotesReached
    <3>2. CASE \E r \in InTransit : Answers(n, t, r) /\ r.from = c /\ u = t.term
      BY <3>2 DEF VoterInv, RequestsName, Answers
    <3>3. QED
      BY <1>4, <3>1, <3>2
  <2>3. QED
    BY <1>1, <1>2, <2>1, <2>2
<1>6. RequestsName'
  <2> SUFFICES ASSUME NEW m \in InTransit', m.type = "RequestVoteRequest"
               PROVE  /\ m.term <= node'[m.from].term
                      /\ node'[m.from].role = "candidate" /\ node'[m.from].term = m.term
                         => NamesEnd(m, node'[m.from])
    BY DEF RequestsName
  <2>1. CASE NewVoting(n, t, m)
    BY <1>1, <2>1 DEF NewVoting
  <2>2. CASE m \in InTransit
    <3>1. m.from \in Replica /\ m.term \in Nat /\ m.term <= node[m.from].term
      BY <1>3, <2>2 DEF VoterInv, RequestsName
    <3>2. node[m.from].role = "candidate" /\ node[m.from].term = m.term => NamesEnd(m, node[m.from])
      BY <2>2 DEF VoterInv, RequestsName
    <3>3. m.term <= node'[m.from].term
      BY <1>1, <1>2, <3>1
    <3>4. CASE m.from # n
      BY <1>1, <3>1, <3>2, <3>3, <3>4
    <3>5. CASE m.from = n
      <4>1. SUFFICES ASSUME t.role = "candidate", t.term = m.term
                     PROVE  NamesEnd(m, t)
        BY <1>1, <3>3, <3>5
      <4>2. ~ (node[n].term < t.term)
        BY <1>1, <3>1, <3>5, <4>1
      <4>3. node[n].role = "candidate" /\ node[n].term = t.term /\ t.log = node[n].log
        BY <4>1, <4>2 DEF KeepsLogs
      <4>4. QED
        BY <3>2, <3>5, <4>1, <4>3 DEF NamesEnd
    <3>6. QED
      BY <3>4, <3>5
  <2>3. QED
    BY <2>1, <2>2
<1>7. VotersNotAhead'
  <2> SUFFICES ASSUME NEW v \in Replica, NEW c \in Replica, NEW u \in Term,
                      node'[c].role = "candidate", node'[c].term = u, node'[v].term = u,
                      Vote(v, c, u)'
               PROVE  UpToDate(node'[v].log, LastLogTerm(node'[c].log), LastLogIndex(node'[c].log))
    <3>1. \A c \in Replica : node'[c].term \in Term
      BY <1>1
    <3>2. QED
      BY <3>1 DEF VotersNotAhead, Vote, UpToDate, LastLogIndex
  <2>1. u \in Nat
    BY BoundTypes
  <2>2. v = c => UpToDate(node'[v].log, LastLogTerm(node'[c].log), LastLogIndex(node'[c].log))
    <3>1. node'[c].log \in Seq(Item)
      BY <1>1 DEF TypeOK, State
    <3>2. QED
      BY <3>1 DEF UpToDate, LastLogIndex
  <2>3. CASE Vote(v, c, u)
    <3>1. node[c].term = u /\ node[v].term = u
      <4>1. u <= node[c].term
        BY <2>1, <2>3 DEF VoterInv, VotesReached
      <4>2. node[v].term > u \/ node[v].term = u
        BY <2>1, <2>3 DEF VotesBacked
      <4>3. node[c].term <= u /\ node[v].term <= u
        BY <1>2
      <4>4. QED
        BY <1>1, <2>1, <4>1, <4>2, <4>3
    <3>2. node[c].role = "candidate" /\ node'[c].log = node[c].log
      <4>1. CASE c # n
        BY <1>1, <4>1
      <4>2. CASE c = n
        <5>1. ~ (node[n].term < t.term)
          BY <1>1, <3>1, <4>2
        <5>2. QED
          BY <1>1, <4>2, <5>1 DEF KeepsLogs
      <4>3. QED
        BY <4>1, <4>2
    <3>3. UpToDate(node[v].log, LastLogTerm(node[c].log), LastLogIndex(node[c].log))
      BY <2>3, <3>1, <3>2 DEF VoterInv, VotersNotAhead, UpToDate, LastLogIndex
    <3>4. v = c \/ node'[v].log = node[v].log
      BY <1>1, <3>1, <3>2 DEF KeepsLogs
    <3>5. QED
      BY <2>2, <3>2, <3>3, <3>4
  <2>4. ASSUME v = n, u = t.term, NEW r \in InTransit, Answers(n, t, r), r.from = c, c # n
        PROVE  UpToDate(node'[v].log, LastLogTerm(node'[c].log), LastLogIndex(node'[c].log))
    <3>1. node'[c] = node[c] /\ r.type = "RequestVoteRequest" /\ r.term = u
      BY <1>1, <2>4 DEF Answers
    <3>2. NamesEnd(r, node[c])
      BY <2>4, <3>1 DEF VoterInv, RequestsName
    <3>3. UpToDate(t.log, r.lastTerm, r.lastIndex)
      BY <2>4 DEF Answers
    <3>4. QED
      BY <1>1, <2>4, <3>1, <3>2, <3>3 DEF NamesEnd
  <2>5. QED
    BY <1>4, <2>2, <2>3, <2>4
<1>8. QED
  BY <1>5, <1>6, <1>7 DEF VoterInv

\* A replica that adopts a term keeps its log; it stands for no term it did not
\* stand for.
LEMMA AdoptKeepsLogs ==
  ASSUME TypeOK, NEW n \in Replica, NEW u \in Term, NEW s \in State, NEW t \in State,
         s = AdoptTerm(node[n], u),
         t.term = s.term, t.role = "candidate" => s.role = "candidate", t.log = s.log,
         \A v \in t.votes : v \in s.votes \/ Vote(v, n, t.term)
  PROVE  KeepsLogs(n, t)
<1>1. node[n] \in State /\ node[n].term \in Nat /\ s.term \in Nat
  BY TermFacts DEF TypeOK
<1>2. /\ s.term >= node[n].term /\ s.log = node[n].log
      /\ s.role # "follower" => s = node[n]
      /\ s # node[n] => s.votes = {}
  BY <1>1, AdoptTermFacts
<1>3. \A v \in t.votes : Vote(v, n, t.term)
  BY <1>2 DEF Vote
<1>4. QED
  BY <1>1, <1>2, <1>3 DEF KeepsLogs

\* Nothing but logs and commit indices changes, and no votes are asked for or given.
LEMMA SameVoters ==
  ASSUME TypeOK, VotesBacked, VoterInv, NEW n \in Replica, NEW t \in State,
         t.term = node[n].term, t.role = node[n].role, t.votes = node[n].votes,
         t.log # node[n].log => /\ t.role # "candidate"
                                /\ \A c \in Replica \ {n} :
                                       ~ (node[c].role = "candidate" /\ node[c].term = t.term),
         node' = [node EXCEPT ![n] = t],
         NEW A, A \subseteq AppendEntriesRequest, InTransit' \subseteq InTransit \cup A
  PROVE  VoterInv'
<1>1. t.term \in Nat
  BY TermFacts
<1>2. KeepsLogs(n, t)
  BY <1>1 DEF KeepsLogs, Vote
<1>3. \A m \in InTransit' : m \in InTransit \/ NewVoting(n, t, m)
  BY DEF NewVoting, AppendEntriesRequest
<1>4. QED
  BY <1>2, <1>3, VoterStep

LEMMA QuietVoters ==
  ASSUME TypeOK, VotesBacked, VoterInv, UNCHANGED node, InTransit' \subseteq InTransit
  PROVE  VoterInv'
<1>1. PICK n \in Replica : TRUE
  BY ReplicaAssumption
<1>2. node[n] \in State /\ node' = [node EXCEPT ![n] = node[n]]
  BY DEF TypeOK
<1>3. QED
  BY <1>2, SameVoters

\* A request of a term comes from the replica that stands for it, which leads it: no
\* candidate of the term, and no voter of one, accepts it.
LEMMA AppendEntriesRequestVoters ==
  ASSUME Staggered, TypeOK, SourcesInv, VotesBacked, VoterInv,
         NEW n \in Replica, NEW m \in BagToSet(inbox), HandleAppendEntriesRequest(n, m)
  PROVE  VoterInv'
<1>1. m \in AppendEntriesRequest /\ m \in InTransit /\ m.term \in Term /\ m.from \in Replica
  BY AppendEntriesRequestStep DEF AppendEntriesRequest
<1>2. PICK s, t \in State, accepted \in BOOLEAN, matched \in Nat :
          AppendEntriesRequestEffect(n, m, s, t, accepted, matched)
  BY AppendEntriesRequestStep
<1> DEFINE r == AppendEntriesReply(m, t.term, accepted, IF accepted THEN matched ELSE 0)
<1>3. /\ s = AdoptTerm(node[n], m.term)
      /\ accepted => m.term = s.term
      /\ t.term = s.term /\ t.role = s.role /\ t.votes = s.votes
      /\ ~ accepted => t.log = s.log
      /\ Handled(n, t, {r})
  BY <1>2 DEF AppendEntriesRequestEffect
<1>4. /\ node[n] \in State /\ node[n].term \in Nat /\ s.term \in Nat
      /\ s.term >= node[n].term /\ s.log = node[n].log
      /\ s.role # "follower" => s = node[n]
      /\ s # node[n] => s.votes = {}
  BY <1>1, <1>3, AdoptTermFacts, TermFacts DEF TypeOK
<1>5. ASSUME accepted, NEW c \in Replica, node[c].role = "candidate"
      PROVE  node[c].term # t.term
  <2> SUFFICES ASSUME node[c].term = t.term
               PROVE  FALSE
    OBVIOUS
  <2>1. m.type = "AppendEntriesRequest" /\ node[c].term = m.term
    BY <1>1, <1>3, <1>5 DEF AppendEntriesRequest
  <2>2. Stands(m.from, m.term) /\ (node[m.from].term = m.term => node[m.from].role = "leader")
    BY <1>1, <2>1 DEF SourcesInv, MessageInv, SourceInv
  <2>3. Stands(c, m.term)
    BY <1>5, <2>1 DEF SourcesInv, StanderInv
  <2>4. c = m.from
    BY <2>2, <2>3 DEF Stands, Staggered
  <2>5. QED
    BY <1>5, <2>1, <2>2, <2>4
<1>6. KeepsLogs(n, t)
  <2>1. \A v \in t.votes : Vote(v, n, t.term)
    BY <1>3, <1>4 DEF Vote
  <2>2. t.role = "candidate" => node[n].role = "candidate" /\ node[n].term = t.term
    BY <1>3, <1>4
  <2>3. t.role = "candidate" => t.log = node[n].log
    BY <1>3, <1>4, <1>5, <2>2
  <2>4. QED
    BY <1>3, <1>4, <1>5, <2>1, <2>2, <2>3 DEF KeepsLogs
<1>7. \A a \in {r} : NewVoting(n, t, a)
  BY DEF NewVoting, AppendEntriesReply
<1>8. QED
  BY <1>3, <1>6, <1>7, VoterStep DEF Handled

\* A vote is given to a log that is not behind, in the term of the request.
LEMMA RequestVoteRequestVoters ==
  ASSUME TypeOK, InboxInv, VotesBacked, VoterInv, NEW n \in Replica,
         NEW m \in BagToSet(inbox), HandleRequestVoteRequest(n, m)
  PROVE  VoterInv'
<1>1. m \in RequestVoteRequest /\ m \in InTransit /\ m.term \in Term
  BY RequestVoteRequestStep DEF RequestVoteRequest
<1>2. PICK s, t \in State, granted \in BOOLEAN, u \in Term :
          RequestVoteRequestEffect(n, m, s, t, granted, u)
  BY RequestVoteRequestStep
<1> DEFINE r == RequestVoteReply(m, u, granted, IF granted THEN m.term ELSE 0)
<1>3. /\ s = AdoptTerm(node[n], m.term)
      /\ granted => m.term = s.term /\ UpToDate(s.log, m.lastTerm, m.lastIndex)
      /\ t.term = s.term /\ t.role = s.role /\ t.votes = s.votes /\ t.log = s.log
      /\ Handled(n, t, {r})
  BY <1>2 DEF RequestVoteRequestEffect
<1>4. KeepsLogs(n, t)
  BY <1>1, <1>3, AdoptKeepsLogs
<1>5. NewVoting(n, t, r)
  <2>1. m.to = n
    BY <1>3 DEF InboxInv, Handled
  <2>2. granted => Answers(n, t, m)
    BY <1>1, <1>3 DEF Answers, RequestVoteRequest
  <2>3. QED
    BY <1>1, <1>3, <2>1, <2>2 DEF NewVoting, RequestVoteReply
<1>6. QED
  BY <1>3, <1>4, <1>5, VoterStep DEF Handled

\* An answer to AppendEntries changes no log and no vote.
LEMMA AppendEntriesResponseVoters ==
  ASSUME TypeOK, VotesBacked, VoterInv, NEW n \in Replica, NEW m \in BagToSet(inbox),
         HandleAppendEntriesResponse(n, m)
  PROVE  VoterInv'
<1>1. m.term \in Term
  BY AppendEntriesResponseStep DEF AppendEntriesResponse
<1>2. PICK s, t \in State : AppendEntriesResponseEffect(n, m, s, t)
  BY AppendEntriesResponseStep
<1>3. /\ s = AdoptTerm(node[n], m.term)
      /\ t.term = s.term /\ t.role = s.role /\ t.votes = s.votes /\ t.log = s.log
      /\ Handled(n, t, {})
  BY <1>2 DEF AppendEntriesResponseEffect
<1>4. KeepsLogs(n, t)
  BY <1>1, <1>3, AdoptKeepsLogs
<1>5. QED
  BY <1>3, <1>4, VoterStep DEF Handled

\* A vote that is counted was on its way.
LEMMA RequestVoteResponseVoters ==
  ASSUME TypeOK, InboxInv, VotesBacked, VoterInv, NEW n \in Replica,
         NEW m \in BagToSet(inbox), HandleRequestVoteResponse(n, m)
  PROVE  VoterInv'
<1>1. /\ m \in InTransit /\ m.type = "RequestVoteResponse"
      /\ m.term \in Term /\ m.from \in Replica
  BY RequestVoteResponseStep DEF RequestVoteResponse
<1>2. PICK s, t \in State, A \in SUBSET AppendEntriesRequest :
          RequestVoteResponseEffect(n, m, s, t, A)
  BY RequestVoteResponseStep
<1>3. /\ s = AdoptTerm(node[n], m.term)
      /\ t.term = s.term /\ t.log = s.log
      /\ Handled(n, t, A)
      /\ \/ t = s
         \/ Counts(s, m) /\ t.role = s.role /\ t.votes = s.votes \cup {m.from}
         \/ t.role = "leader" /\ t.votes = {}
  BY <1>2 DEF RequestVoteResponseEffect
<1>4. m.to = n
  BY <1>3 DEF InboxInv, Handled
<1>5. Counts(s, m) => Vote(m.from, n, s.term)
  BY <1>1, <1>4 DEF Counts, Vote
<1>6. /\ t.role = "candidate" => s.role = "candidate"
      /\ \A v \in t.votes : v \in s.votes \/ Vote(v, n, t.term)
  BY <1>3, <1>5
<1>7. KeepsLogs(n, t)
  BY <1>1, <1>3, <1>6, AdoptKeepsLogs
<1>8. \A a \in A : NewVoting(n, t, a)
  BY DEF NewVoting, AppendEntriesRequest
<1>9. QED
  BY <1>3, <1>7, <1>8, VoterStep DEF Handled

LEMMA BeginTickVoters ==
  ASSUME TypeOK, VotesBacked, VoterInv, NEW n \in Replica, BeginTick(n)
  PROVE  VoterInv'
<1>1. InTransit' \subseteq InTransit
  BY BeginTickStep
<1>2. CASE UNCHANGED node
  BY <1>1, <1>2, QuietVoters
<1>3. ASSUME NEW t \in State, node' = [node EXCEPT ![n] = t],
             t = [node[n] EXCEPT !.commitIndex = CommitTarget(node[n])]
      PROVE  VoterInv'
  <2>1. /\ t.term = node[n].term /\ t.role = node[n].role
        /\ t.votes = node[n].votes /\ t.log = node[n].log
    BY <1>3 DEF TypeOK, State
  <2>2. QED
    BY <1>1, <1>3, <2>1, SameVoters
<1>4. QED
  BY <1>2, <1>3, BeginTickStep

\* A leader appends to its log; nobody else stands for its term.
LEMMA EndLeaderTickVoters ==
  ASSUME Staggered, TypeOK, SourcesInv, VotesBacked, VoterInv, NEW n \in Replica,
         EndLeaderTick(n)
  PROVE  VoterInv'
<1>1. UNCHANGED inbox
  BY EndLeaderTickStep
<1>2. CASE UNCHANGED <<node, messages>>
  BY <1>1, <1>2, QuietVoters DEF InTransit
<1>3. ASSUME node[n].role = "leader",
             NEW t \in State, NEW read \in [Replica -> Term], NEW tail \in Seq(Item),
             t = [node[n] EXCEPT !.log = node[n].log \o tail],
             node' = [node EXCEPT ![n] = t],
             AppendEntriesToAll(n, node[n], read) \subseteq AppendEntriesRequest,
             InTransit' \subseteq InTransit \cup AppendEntriesToAll(n, node[n], read)
      PROVE  VoterInv'
  <2>1. t.term = node[n].term /\ t.role = node[n].role /\ t.votes = node[n].votes
    BY <1>3 DEF TypeOK, State
  <2>2. \A c \in Replica \ {n} : ~ (node[c].role = "candidate" /\ node[c].term = t.term)
    BY <1>3, <2>1 DEF SourcesInv, StanderInv, Staggered, Stands
  <2>3. QED
    BY <1>3, <2>1, <2>2, SameVoters
<1>4. QED
  BY <1>2, <1>3, EndLeaderTickStep

\* Standing for the next term: the requests name the end of the log.
LEMMA EndExpiredTickVoters ==
  ASSUME TypeOK, VotesBacked, VoterInv, NEW n \in Replica, EndExpiredTick(n)
  PROVE  VoterInv'
<1>1. PICK t \in State :
          /\ node' = [node EXCEPT ![n] = t]
          /\ t.term = node[n].term + 1 /\ t.votes = {}
          /\ RequestVoteToAll(n, t) \subseteq RequestVoteRequest
          /\ InTransit' \subseteq InTransit \cup RequestVoteToAll(n, t)
  BY EndExpiredTickStep
<1>2. node[n].term < t.term /\ node[n].term <= t.term /\ t.term # node[n].term
  <2>1. node[n].term \in Nat
    BY TermFacts DEF TypeOK
  <2>2. QED
    BY <1>1, <2>1
<1>3. KeepsLogs(n, t)
  BY <1>1, <1>2 DEF KeepsLogs
<1>4. \A m \in RequestVoteToAll(n, t) : NewVoting(n, t, m)
  BY DEF RequestVoteToAll, NewVoting, NamesEnd
<1>5. QED
  BY <1>1, <1>3, <1>4, VoterStep

LEMMA VoterInit == Init => VoterInv
<1> SUFFICES ASSUME Init PROVE VoterInv
  OBVIOUS
<1>1. \A n \in Replica : node[n].role = "follower" /\ node[n].votes = {}
  BY DEF Init, NewNode
<1>2. InTransit = {}
  BY EmptyBags DEF Init, InTransit
<1>3. QED
  BY <1>1, <1>2 DEF VoterInv, VotersNotAhead, RequestsName, VotesReached, Vote

LEMMA VoterNext ==
  ASSUME Staggered, TypeOK, SourcesInv, InboxInv, VotesBacked, VoterInv, [Next]_vars
  PROVE  VoterInv'
<1>1. CASE UNCHANGED vars
  BY <1>1, QuietVoters DEF vars, InTransit
<1>2. ASSUME NEW n \in Replica, Call(n) \/ BeginTick(n) \/ Receive(n) \/ EndTick(n)
      PROVE  VoterInv'
  <2>1. CASE Call(n)
    <3>1. UNCHANGED <<node, inbox, messages>>
      BY <2>1 DEF Call, AddCommand, GetPersistentCommands, replicaVars
    <3>2. QED
      BY <3>1, QuietVoters DEF InTransit
  <2>2. CASE BeginTick(n)
    BY <2>2, BeginTickVoters
  <2>3. CASE Receive(n)
    BY <2>3, AppendEntriesRequestVoters, RequestVoteRequestVoters,
       AppendEntriesResponseVoters, RequestVoteResponseVoters DEF Receive
  <2>4. CASE EndTick(n)
    <3>1. CASE EndLeaderTick(n)
      BY <3>1, EndLeaderTickVoters
    <3>2. CASE EndQuietTick(n)
      BY <3>2, QuietVoters DEF EndQuietTick, InTransit
    <3>3. CASE EndExpiredTick(n)
      BY <3>3, EndExpiredTickVoters
    <3>4. QED
      BY <2>4, <3>1, <3>2, <3>3 DEF EndTick
  <2>5. QED
    BY <1>2, <2>1, <2>2, <2>3, <2>4
<1>3. QED
  BY <1>1, <1>2, Zenon DEF Next

\* If no two replicas ever stand for the same term, the majority that makes a leader
\* has no log that is ahead of the leader's, however late its votes arrive.
THEOREM VotersNotAheadHolds ==
  ASSUME Staggered
  PROVE  Spec => []VotersNotAhead
<1>1. Init => VoterInv
  BY VoterInit
<1>2. IInv /\ EInv /\ VoterInv /\ [Next]_vars => VoterInv'
  BY VoterNext DEF IInv, EInv, ElectionInv
<1>3. VoterInv => VotersNotAhead
  BY DEF VoterInv
<1>4. QED
  BY <1>1, <1>2, <1>3, Invariance, ElectionInvariance, PTL DEF Spec
=============================================================================
