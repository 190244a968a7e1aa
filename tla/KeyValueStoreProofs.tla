------------------------- MODULE KeyValueStoreProofs -------------------------
(***************************************************************************)
(* The type invariant of KeyValueStore, that the storage of a worker is    *)
(* what the commands it has applied make of it, and what a read returns,   *)
(* proved for every value of the constants.                                *)
(***************************************************************************)
EXTENDS KeyValueStore, SequenceTheorems, TLAPS

-----------------------------------------------------------------------------
(***************************************************************************)
(* What a command is parsed as.                                            *)
(***************************************************************************)
\* The key and the value ActualizeState parses a command to are strings.
LEMMA DecodedNames ==
  ASSUME NEW c \in Command
  PROVE  Decoded[c].key \in Seq(Word) /\ Decoded[c].value \in Seq(Word)
<1>1. Request[c].key \in Seq(Word) /\ Request[c].value \in Seq(Word)
  BY CallAssumption
<1>2. Words(c) \in Seq(Word)
  BY <1>1, ConcatProperties DEF Words
<1>3. NextWord(Words(c), 0) \in Seq(Word) /\ NextWord(Words(c), 1) \in Seq(Word)
  BY <1>2 DEF NextWord
<1> QED
  BY <1>3 DEF Decoded

\* A Write whose key and value are single words is parsed back as it was made:
\* `key + " " + value' and `c >> key >> value' are inverses on them.
LEMMA RoundTrip ==
  ASSUME NEW c \in Command, OneWord(Request[c].key), OneWord(Request[c].value)
  PROVE  Decoded[c].key = Request[c].key /\ Decoded[c].value = Request[c].value
<1> DEFINE k == Request[c].key
           v == Request[c].value
<1>1. k \in Seq(Word) /\ v \in Seq(Word) /\ Len(k) = 1 /\ Len(v) = 1
  BY CallAssumption DEF OneWord
<1>2. Decoded[c].key = NextWord(k \o v, 0) /\ Decoded[c].value = NextWord(k \o v, 1)
  BY DEF Decoded, Words
<1> HIDE DEF k, v
<1>3. Len(k \o v) = 2 /\ (k \o v)[1] = k[1] /\ (k \o v)[2] = v[1]
  <2>1. /\ Len(k \o v) = Len(k) + Len(v)
        /\ \A i \in 1 .. Len(k) + Len(v) :
               (k \o v)[i] = IF i <= Len(k) THEN k[i] ELSE v[i - Len(k)]
    BY <1>1, ConcatProperties
  <2> QED
    BY <1>1, <2>1
<1>4. k = <<k[1]>> /\ v = <<v[1]>>
  BY <1>1
<1>5. NextWord(k \o v, 0) = <<k[1]>> /\ NextWord(k \o v, 1) = <<v[1]>>
  BY <1>3 DEF NextWord
<1> QED
  BY <1>2, <1>4, <1>5 DEF k, v
-----------------------------------------------------------------------------
(***************************************************************************)
(* Types, with the facts they need: a persisted command is in the order,   *)
(* what a replica knows to be persistent is in the order, and a read is    *)
(* answered by a part of it.                                               *)
(***************************************************************************)
PersistedOrdered == \A c \in Command : answer[c] = "persisted" => c \in UpTo(Len(order))

CommitOrdered == \A n \in Replica : commit[n] <= Len(order)

\* Reads start at the first command or after it.
ReadsFromOne == \A x \in Reader : reply[x] = None /\ query[x].node # None => query[x].from > 0

\* A call in progress has a worker, and only Writes come to hand in a command.
Placed == \A x \in Reader :
    /\ pc[x] # "new" => at[x] \in Replica
    /\ pc[x] \in {"add", "wait"} => x \in Command

TypeInv == StoreTypeOK /\ PersistedOrdered /\ CommitOrdered /\ ReadsFromOne /\ Placed

\* The answer to a read is a sequence of commands: the part of the order from
\* where it starts to the commit index, or to its last place if that is before.
LEMMA ReadOfOrder ==
  ASSUME StoreTypeOK, CommitOrdered, NEW n \in Replica, NEW x \in Reader,
         query[x].from > 0
  PROVE  LET from == query[x].from
             last == IF from + query[x].count - 1 <= commit[n] THEN from + query[x].count - 1
                                                             ELSE commit[n]
             r == PersistentCommands(n, query[x])
         IN  /\ r \in Seq(Command)
             /\ Len(r) = IF from <= last THEN last - from + 1 ELSE 0
             /\ \A i \in 1 .. Len(r) : r[i] = order[from + i - 1]
<1> DEFINE from == query[x].from
           last == IF from + query[x].count - 1 <= commit[n] THEN from + query[x].count - 1
                                                             ELSE commit[n]
           r == SubSeq(order, from, last)
<1>1. from \in Nat /\ from > 0 /\ last \in Int /\ last <= Len(order)
  BY DEF StoreTypeOK, LogTypeOK, CommitOrdered
<1>2. PersistentCommands(n, query[x]) = r
  <2>1. from # 0 /\ (IF from = 0 THEN 1 ELSE from) = from
    BY <1>1
  <2> QED
    BY <2>1, Zenon DEF PersistentCommands
<1> HIDE DEF from, last
<1>3. order \in Seq(Command)
  BY DEF StoreTypeOK, LogTypeOK
<1>4. \A i \in from .. last : order[i] \in Command
  BY <1>1, <1>3
<1>5. /\ r \in Seq(Command) /\ Len(r) = IF from <= last THEN last - from + 1 ELSE 0
      /\ \A i \in 1 .. last - from + 1 : r[i] = order[from + i - 1]
  BY <1>1, <1>4, SubSeqProperties
<1>6. \A i \in 1 .. Len(r) : r[i] = order[from + i - 1]
  BY <1>1, <1>5
<1> QED
  BY <1>2, <1>5, <1>6 DEF from, last

\* Every reachable state of the service is well-typed.
LEMMA TypeInit == StoreInit => TypeInv
<1> SUFFICES ASSUME StoreInit PROVE TypeInv
  OBVIOUS
<1>1. StoreTypeOK
  BY CallAssumption DEF StoreInit, Init, StoreTypeOK, LogTypeOK, NotAsked
<1>2. PersistedOrdered /\ CommitOrdered /\ ReadsFromOne /\ Placed
  BY DEF StoreInit, Init, PersistedOrdered, CommitOrdered, ReadsFromOne, Placed, NotAsked
<1> QED
  BY <1>1, <1>2 DEF TypeInv

\* A step that leaves the log alone keeps it typed.
LEMMA LogTypeKept ==
  ASSUME LogTypeOK, UNCHANGED <<order, commit, answer, query, reply>>
  PROVE  LogTypeOK'
BY DEF LogTypeOK

\* So does one that leaves the storage alone.
LEMMA StorageTypeKept ==
  ASSUME StoreTypeOK, UNCHANGED storage
  PROVE  /\ DOMAIN storage' = Replica
         /\ \A n \in Replica : \A k \in DOMAIN storage'[n] :
                {k, storage'[n][k]} \subseteq Seq(Word)
BY DEF StoreTypeOK

\* If it also keeps the calls typed, it keeps TypeInv.
LEMMA TypeKept ==
  ASSUME TypeInv, StoreTypeOK', Placed', UNCHANGED <<order, commit, answer, query, reply>>
  PROVE  TypeInv'
BY DEF TypeInv, PersistedOrdered, CommitOrdered, UpTo, ReadsFromOne

\* A handler's steps keep the service well-typed.
LEMMA TypeCalls ==
  ASSUME TypeInv, NEW x \in Reader, at[x] \in Replica, Step(x)
  PROVE  TypeInv'
<1> DEFINE n == at[x]
<1>0. n \in Replica /\ StoreTypeOK /\ LogTypeOK /\ Placed
  BY DEF TypeInv, StoreTypeOK
<1>1. CASE Ask(x)
  <2> DEFINE q == [node |-> n, from |-> last_persisted_id[n] + 1, count |-> BatchSize]
  <2>1. /\ query' = [query EXCEPT ![x] = q]
        /\ UNCHANGED <<order, commit, answer, reply, storage, last_persisted_id, at, handled,
                       result, floor, mainVars, seen>>
        /\ lock' = [lock EXCEPT ![n] = x] /\ pc' = [pc EXCEPT ![x] = "ask"]
    BY <1>1 DEF Ask, GetPersistentCommands, Goto
  <2>2. q \in [node : Replica \cup {None}, from : Nat, count : Nat] /\ q.from > 0
    BY <1>0 DEF StoreTypeOK, BatchSize
  <2> HIDE DEF n, q
  <2>3. LogTypeOK'
    BY <1>0, <2>1, <2>2 DEF LogTypeOK
  <2>4. lock' \in [Replica -> Reader \cup {None}]
    BY <1>0, <2>1 DEF StoreTypeOK
  <2>5. /\ pc' \in [Reader -> {"new", "actualize", "ask", "lookup", "add", "wait", "done", "lost"}]
        /\ Placed'
    BY <1>0, <2>1 DEF StoreTypeOK, Placed
  <2>6. StoreTypeOK'
    BY <1>0, <2>1, <2>3, <2>4, <2>5 DEF StoreTypeOK, mainVars
  <2>7. ReadsFromOne'
    BY <1>0, <2>1, <2>2 DEF LogTypeOK, ReadsFromOne, TypeInv
  <2> QED
    BY <2>1, <2>5, <2>6, <2>7 DEF TypeInv, PersistedOrdered, CommitOrdered, UpTo
<1>2. CASE Apply(x)
  <2> DEFINE c == reply[x][handled[x] + 1]
             t == Set(storage[n], Decoded[c].key, Decoded[c].value)
  <2>1. /\ storage' = [storage EXCEPT ![n] = Set(@, Decoded[c].key, Decoded[c].value)]
        /\ last_persisted_id' = [last_persisted_id EXCEPT ![n] = @ + 1]
        /\ handled' = [handled EXCEPT ![x] = @ + 1]
        /\ UNCHANGED <<order, commit, answer, query, reply, lock, pc, at, result, floor,
                       mainVars, seen>>
    BY <1>2 DEF Apply, logVars
  <2>2. c \in Command
    <3>1. reply[x] \in Seq(Command) /\ handled[x] \in Nat /\ handled[x] < Len(reply[x])
      BY <1>0, <1>2 DEF Apply, StoreTypeOK, LogTypeOK
    <3> QED
      BY <3>1
  <2> HIDE DEF c
  <2>3. Decoded[c].key \in Seq(Word) /\ Decoded[c].value \in Seq(Word)
    BY <2>2, DecodedNames
  <2>4. \A k \in DOMAIN t : {k, t[k]} \subseteq Seq(Word)
    BY <1>0, <2>3 DEF StoreTypeOK, Set
  <2>5. storage' = [storage EXCEPT ![n] = t]
    BY <1>0, <2>1 DEF StoreTypeOK
  <2> HIDE DEF n, t
  <2>6. /\ DOMAIN storage' = Replica
        /\ \A p \in Replica : \A k \in DOMAIN storage'[p] : {k, storage'[p][k]} \subseteq Seq(Word)
    BY <1>0, <2>4, <2>5 DEF StoreTypeOK
  <2>7. last_persisted_id' \in [Replica -> Nat] /\ handled' \in [Reader -> Nat]
    BY <1>0, <2>1 DEF StoreTypeOK
  <2>8. StoreTypeOK'
    BY <1>0, <2>1, <2>6, <2>7, LogTypeKept DEF StoreTypeOK, mainVars
  <2> QED
    BY <1>0, <2>1, <2>8, TypeKept DEF Placed
<1>3. CASE Unlock(x)
  <2> DEFINE l == IF x \in Command THEN "add" ELSE "lookup"
  <2>1. /\ lock' = [lock EXCEPT ![n] = None] /\ pc' = [pc EXCEPT ![x] = l]
        /\ UNCHANGED <<order, commit, answer, query, reply, storage, last_persisted_id, at,
                       handled, result, floor, mainVars, seen>>
    BY <1>3 DEF Unlock, Goto, logVars
  <2>2. /\ lock' \in [Replica -> Reader \cup {None}]
        /\ pc' \in [Reader -> {"new", "actualize", "ask", "lookup", "add", "wait", "done", "lost"}]
    BY <1>0, <2>1 DEF StoreTypeOK
  <2>3. Placed'
    BY <1>0, <2>1 DEF StoreTypeOK, Placed
  <2> HIDE DEF n, l
  <2>4. StoreTypeOK'
    BY <1>0, <2>1, <2>2, LogTypeKept DEF StoreTypeOK, mainVars
  <2> QED
    BY <2>1, <2>3, <2>4, TypeKept
<1>4. CASE Lookup(x)
  <2> DEFINE v == Get(storage[n], Request[x].key)
             m == Max2(seen[n], last_persisted_id[n])
  <2>1. v \in Seq(Word) /\ m \in Nat
    BY <1>0 DEF StoreTypeOK, Get, Max2
  <2>2. /\ result' = [result EXCEPT ![x] = v] /\ seen' = [seen EXCEPT ![n] = m]
        /\ pc' = [pc EXCEPT ![x] = "done"]
        /\ UNCHANGED <<order, commit, answer, query, reply, storeVars, at, handled, floor,
                       mainVars>>
    BY <1>0, <1>4 DEF Lookup, Goto, StoreTypeOK, logVars
  <2> HIDE DEF n, v, m
  <2>3. /\ result' \in [Reader -> Seq(Word)] /\ seen' \in [Replica -> Nat]
        /\ pc' \in [Reader -> {"new", "actualize", "ask", "lookup", "add", "wait", "done", "lost"}]
    BY <1>0, <2>1, <2>2 DEF StoreTypeOK
  <2>4. Placed' /\ LogTypeOK'
    BY <1>0, <2>2 DEF StoreTypeOK, Placed, LogTypeOK
  <2>5. UNCHANGED <<storage, last_persisted_id, lock, stage, restarts>>
    BY <2>2 DEF storeVars, mainVars
  <2>6. StoreTypeOK'
    BY <1>0, <2>2, <2>3, <2>4, <2>5, StorageTypeKept DEF StoreTypeOK
  <2> QED
    BY <2>2, <2>4, <2>6, TypeKept
<1>5. CASE Add(x)
  <2>1. x \in Command
    BY <1>0, <1>5 DEF Add, Placed
  <2>2. /\ answer' = [answer EXCEPT ![x] = "waiting"] /\ pc' = [pc EXCEPT ![x] = "wait"]
        /\ UNCHANGED <<order, commit, query, reply, storeVars, at, handled, result, floor,
                       mainVars, seen>>
    BY <1>5 DEF Add, AddCommand, Goto
  <2>3. /\ pc' \in [Reader -> {"new", "actualize", "ask", "lookup", "add", "wait", "done", "lost"}]
        /\ Placed'
    BY <1>0, <2>1, <2>2 DEF StoreTypeOK, Placed
  <2>4. LogTypeOK' /\ PersistedOrdered'
    BY <1>0, <2>1, <2>2 DEF LogTypeOK, TypeInv, PersistedOrdered, UpTo
  <2>5. StoreTypeOK'
    BY <1>0, <2>2, <2>3, <2>4 DEF StoreTypeOK, storeVars, mainVars
  <2> QED
    BY <2>2, <2>3, <2>4, <2>5 DEF TypeInv, CommitOrdered, ReadsFromOne
<1>6. CASE Return(x)
  <2> DEFINE i == CHOOSE j \in DOMAIN order : order[j] = x
  <2>1. /\ pc' = [pc EXCEPT ![x] = "done"]
        /\ seen' = IF answer[x] # "persisted" THEN seen
                   ELSE [seen EXCEPT ![n] = Max2(@, i)]
        /\ UNCHANGED <<order, commit, answer, query, reply, storeVars, at, handled, result,
                       floor, mainVars>>
    BY <1>6 DEF Return, Goto, logVars
  <2>2. x \in Command
    BY <1>0, <1>6 DEF Return, Placed
  <2>3. seen' \in [Replica -> Nat]
    <3>1. CASE answer[x] # "persisted"
      BY <1>0, <2>1, <3>1 DEF StoreTypeOK
    <3>2. CASE answer[x] = "persisted"
      <4>1. \E j \in DOMAIN order : order[j] = x
        <5>1. x \in {order[j] : j \in 1 .. Len(order)}
          BY <2>2, <3>2 DEF TypeInv, PersistedOrdered, UpTo
        <5>2. DOMAIN order = 1 .. Len(order)
          BY <1>0 DEF LogTypeOK
        <5> QED
          BY <5>1, <5>2
      <4>2. i \in DOMAIN order
        BY <4>1
      <4>3. i \in Nat
        BY <1>0, <4>2 DEF LogTypeOK
      <4> HIDE DEF i
      <4>4. Max2(seen[n], i) \in Nat
        BY <1>0, <4>3 DEF Max2, StoreTypeOK
      <4>5. seen' = [seen EXCEPT ![n] = Max2(seen[n], i)]
        BY <1>0, <2>1, <3>2 DEF StoreTypeOK
      <4> HIDE DEF n
      <4> QED
        BY <1>0, <4>5, <4>4 DEF StoreTypeOK
    <3> QED
      BY <3>1, <3>2
  <2> HIDE DEF i, n
  <2>4. /\ pc' \in [Reader -> {"new", "actualize", "ask", "lookup", "add", "wait", "done", "lost"}]
        /\ Placed'
    BY <1>0, <2>1 DEF StoreTypeOK, Placed
  <2>5. StoreTypeOK'
    BY <1>0, <2>1, <2>3, <2>4, LogTypeKept DEF StoreTypeOK, storeVars, mainVars
  <2> QED
    BY <2>1, <2>4, <2>5, TypeKept
<1> QED
  BY <1>1, <1>2, <1>3, <1>4, <1>5, <1>6 DEF Step

\* So do a call that arrives, the other threads of a worker, its restart, and
\* what the other workers do.
LEMMA TypeOthers ==
  ASSUME TypeInv,
         \/ \E x \in Reader, n \in Replica : Begin(x, n)
         \/ \E c \in Command : TakeIn(c)
         \/ \E n \in Replica : TickOf(n) \/ Stop(n) \/ Crash(n) \/ \E l \in Replica : HearFrom(n, l)
         \/ UNCHANGED vars
  PROVE  TypeInv'
<1>0. StoreTypeOK /\ LogTypeOK /\ Placed /\ CommitOrdered
  BY DEF TypeInv, StoreTypeOK
<1>1. ASSUME NEW x \in Reader, NEW n \in Replica, Begin(x, n)
      PROVE  TypeInv'
  <2>1. /\ pc' = [pc EXCEPT ![x] = "actualize"] /\ at' = [at EXCEPT ![x] = n]
        /\ floor' = [floor EXCEPT ![x] = commit[n]]
    BY <1>1 DEF Begin, Goto, Start
  <2>2. UNCHANGED <<order, commit, answer, query, reply, storage, last_persisted_id, lock,
                    handled, result, stage, restarts, seen>>
    BY <1>1 DEF Begin, logVars, storeVars, mainVars
  <2>3. /\ pc' \in [Reader -> {"new", "actualize", "ask", "lookup", "add", "wait", "done", "lost"}]
        /\ at' \in [Reader -> Replica \cup {None}] /\ floor' \in [Reader -> Nat]
    BY <1>0, <2>1 DEF StoreTypeOK, LogTypeOK
  <2>4. Placed'
    BY <1>0, <1>1, <2>1, <2>2 DEF StoreTypeOK, Placed
  <2>5. LogTypeOK'
    BY <1>0, <2>2 DEF LogTypeOK
  <2>6. StoreTypeOK'
    BY <1>0, <2>2, <2>3, <2>5 DEF StoreTypeOK
  <2> QED
    BY <2>2, <2>4, <2>6, TypeKept
<1>2. ASSUME NEW c \in Command, TakeIn(c)
      PROVE  TypeInv'
  <2>1. order' = order \o <<c>>
        /\ UNCHANGED <<commit, answer, query, reply, storeVars, callVars, mainVars, seen>>
    BY <1>2 DEF TakeIn, Order
  <2>2. /\ order' \in Seq(Command) /\ Len(order') = Len(order) + 1
        /\ \A i \in 1 .. Len(order) : order'[i] = order[i]
    BY <1>0, <1>2, <2>1 DEF LogTypeOK
  <2>3. LogTypeOK' /\ Placed'
    BY <1>0, <2>1, <2>2 DEF LogTypeOK, Placed, callVars
  <2>4. StoreTypeOK'
    BY <1>0, <2>1, <2>3 DEF StoreTypeOK, storeVars, callVars, mainVars
  <2>5. UpTo(Len(order)) \subseteq UpTo(Len(order))' /\ CommitOrdered'
    BY <1>0, <2>1, <2>2 DEF UpTo, LogTypeOK, CommitOrdered
  <2>6. PersistedOrdered' /\ ReadsFromOne'
    BY <2>1, <2>5 DEF TypeInv, PersistedOrdered, ReadsFromOne
  <2> QED
    BY <2>3, <2>4, <2>5, <2>6 DEF TypeInv
<1>3. ASSUME NEW n \in Replica, TickOf(n)
      PROVE  TypeInv'
  <2>1. PICK k \in 0 .. Len(order), S \in SUBSET CallsAt(n) : Tick(n, k, S)
    BY <1>3 DEF TickOf
  <2>2. /\ reply' = [x \in Reader |-> IF Asking(x) /\ query[x].node = n
                                      THEN PersistentCommands(n, query[x]) ELSE reply[x]]
        /\ k \in commit[n] .. Len(order) /\ commit' = [commit EXCEPT ![n] = k]
        /\ answer' = [c \in Command |-> IF c \in S THEN "persisted" ELSE answer[c]]
        /\ S \subseteq UpTo(k)
        /\ UNCHANGED <<order, query, storeVars, callVars, mainVars, seen>>
    BY <1>3, <2>1 DEF TickOf, Tick, Learn, Answered
  <2>3. \A x \in Reader : Asking(x) => PersistentCommands(n, query[x]) \in Seq(Command)
    BY <1>0, ReadOfOrder DEF Asking, ReadsFromOne, TypeInv
  <2>4. reply' \in [Reader -> Seq(Command) \cup {None}]
    BY <1>0, <2>2, <2>3 DEF LogTypeOK
  <2>5. commit' \in [Replica -> Nat] /\ CommitOrdered'
    BY <1>0, <2>2 DEF LogTypeOK, CommitOrdered
  <2>6. answer' \in [Command -> {"new", "waiting", "persisted", "broken"} \cup Replica]
    BY <1>0, <2>2 DEF LogTypeOK
  <2>7. LogTypeOK'
    BY <1>0, <2>2, <2>4, <2>5, <2>6 DEF LogTypeOK
  <2>8. UpTo(k) \subseteq UpTo(Len(order))
    BY <1>0, <2>2 DEF UpTo, LogTypeOK
  <2>9. PersistedOrdered'
    BY <2>2, <2>8 DEF TypeInv, PersistedOrdered, UpTo
  <2>10. ReadsFromOne'
    BY <1>0, <2>2 DEF TypeInv, ReadsFromOne, LogTypeOK, Asking
  <2>11. StoreTypeOK' /\ Placed'
    BY <1>0, <2>2, <2>7 DEF StoreTypeOK, Placed, storeVars, callVars, mainVars
  <2> QED
    BY <2>5, <2>9, <2>10, <2>11 DEF TypeInv
<1>4. ASSUME NEW n \in Replica, Stop(n)
      PROVE  TypeInv'
  <2>1. /\ stage' \in [Replica -> {"up", "isolated", "draining", "stopped"}]
        /\ UNCHANGED <<order, commit, answer, query, reply, storeVars, callVars, restarts, seen>>
    BY <1>0, <1>4 DEF Stop, StoreTypeOK, logVars
  <2>2. StoreTypeOK'
    BY <1>0, <2>1, LogTypeKept DEF StoreTypeOK, storeVars, callVars
  <2>3. Placed'
    BY <1>0, <2>1 DEF Placed, callVars
  <2> QED
    BY <2>1, <2>2, <2>3, TypeKept
<1>5. ASSUME NEW n \in Replica, Crash(n)
      PROVE  TypeInv'
  <2>1. /\ storage' = [storage EXCEPT ![n] = << >>] /\ commit' = [commit EXCEPT ![n] = 0]
        /\ last_persisted_id' = [last_persisted_id EXCEPT ![n] = 0]
        /\ lock' = [lock EXCEPT ![n] = None] /\ stage' = [stage EXCEPT ![n] = "up"]
        /\ restarts' = restarts + 1
        /\ pc' = [x \in Reader |-> IF x \in InProgress /\ at[x] = n THEN "lost" ELSE pc[x]]
        /\ answer' = [c \in Command |-> IF c \in Waiting \cap CallsAt(n) THEN "broken" ELSE answer[c]]
        /\ query' = [x \in Reader |-> IF Asking(x) /\ query[x].node = n THEN NotAsked ELSE query[x]]
        /\ UNCHANGED <<order, reply, at, handled, result, floor, seen>>
    BY <1>5 DEF Crash, Restart, Answered
  <2>2. NotAsked \in [node : Replica \cup {None}, from : Nat, count : Nat]
    BY DEF NotAsked
  <2>3. /\ query' \in [Reader -> [node : Replica \cup {None}, from : Nat, count : Nat]]
        /\ answer' \in [Command -> {"new", "waiting", "persisted", "broken"} \cup Replica]
        /\ commit' \in [Replica -> Nat]
    BY <1>0, <2>1, <2>2 DEF LogTypeOK
  <2>4. LogTypeOK'
    BY <1>0, <2>1, <2>3 DEF LogTypeOK
  <2>5. /\ pc' \in [Reader -> {"new", "actualize", "ask", "lookup", "add", "wait", "done", "lost"}]
        /\ Placed'
    BY <1>0, <2>1 DEF StoreTypeOK, Placed, InProgress
  <2>6. /\ DOMAIN storage' = Replica
        /\ \A p \in Replica : \A k \in DOMAIN storage'[p] : {k, storage'[p][k]} \subseteq Seq(Word)
    BY <1>0, <2>1 DEF StoreTypeOK
  <2>7. /\ last_persisted_id' \in [Replica -> Nat] /\ lock' \in [Replica -> Reader \cup {None}]
        /\ stage' \in [Replica -> {"up", "isolated", "draining", "stopped"}]
        /\ seen' \in [Replica -> Nat] /\ restarts' \in Nat
    BY <1>0, <2>1 DEF StoreTypeOK
  <2>8. StoreTypeOK'
    BY <1>0, <2>1, <2>4, <2>5, <2>6, <2>7 DEF StoreTypeOK
  <2>9. PersistedOrdered' /\ CommitOrdered'
    BY <1>0, <2>1 DEF TypeInv, PersistedOrdered, CommitOrdered, UpTo, LogTypeOK
  <2>10. ReadsFromOne'
    BY <1>0, <2>1, CallAssumption DEF TypeInv, ReadsFromOne, NotAsked
  <2> QED
    BY <2>5, <2>8, <2>9, <2>10 DEF TypeInv
<1>6. ASSUME NEW n \in Replica, NEW l \in Replica, HearFrom(n, l)
      PROVE  TypeInv'
  <2>1. PICK k \in 0 .. Len(order), S \in SUBSET CallsAt(n) : Hear(n, k, S, l)
    BY <1>6 DEF HearFrom
  <2>2. /\ k \in commit[n] .. Len(order) /\ commit' = [commit EXCEPT ![n] = k]
        /\ answer' = [c \in Command |-> IF c \in S THEN l ELSE answer[c]]
        /\ UNCHANGED <<order, query, reply, storeVars, callVars, mainVars, seen>>
    BY <1>6, <2>1 DEF HearFrom, Hear, Learn, Answered
  <2>3. commit' \in [Replica -> Nat] /\ CommitOrdered'
    BY <1>0, <2>2 DEF LogTypeOK, CommitOrdered
  <2>4. answer' \in [Command -> {"new", "waiting", "persisted", "broken"} \cup Replica]
    BY <1>0, <2>2 DEF LogTypeOK
  <2>5. LogTypeOK'
    BY <1>0, <2>2, <2>3, <2>4 DEF LogTypeOK
  <2>6. l # "persisted"
    BY CallAssumption
  <2>7. PersistedOrdered' /\ ReadsFromOne'
    BY <2>2, <2>6 DEF TypeInv, PersistedOrdered, UpTo, ReadsFromOne
  <2>8. StoreTypeOK'
    BY <1>0, <2>2, <2>5, StorageTypeKept DEF StoreTypeOK, storeVars, callVars, mainVars
  <2>9. Placed'
    BY <1>0, <2>2 DEF Placed, callVars
  <2> QED
    BY <2>3, <2>7, <2>8, <2>9 DEF TypeInv
<1>7. ASSUME UNCHANGED vars
      PROVE  TypeInv'
  <2>1. StoreTypeOK' /\ Placed'
    BY <1>0, <1>7 DEF vars, StoreTypeOK, LogTypeOK, Placed, logVars, storeVars, callVars, mainVars
  <2> QED
    BY <1>7, <2>1, TypeKept DEF vars, logVars
<1> QED
  BY <1>1, <1>2, <1>3, <1>4, <1>5, <1>6, <1>7

\* Every step keeps the service well-typed.
LEMMA TypeNext == TypeInv /\ [StoreNext]_vars => TypeInv'
<1> SUFFICES ASSUME TypeInv, [StoreNext]_vars PROVE TypeInv'
  OBVIOUS
<1>1. ASSUME NEW x \in Reader, Step(x) PROVE TypeInv'
  <2>1. pc[x] # "new"
    BY <1>1 DEF Step, Ask, Apply, Unlock, Lookup, Add, Return
  <2> QED
    BY <1>1, <2>1, TypeCalls DEF TypeInv, Placed
<1> QED
  BY <1>1, TypeOthers DEF StoreNext

\* Every reachable state of the service is well-typed: its storage maps strings to
\* strings, and the index a Write's caller is told of exists.
THEOREM StoreTypeCorrect == StoreSpec => []StoreTypeOK
<1>1. TypeInv => StoreTypeOK
  BY DEF TypeInv
<1> QED
  BY TypeInit, TypeNext, <1>1, PTL DEF StoreSpec
-----------------------------------------------------------------------------
(***************************************************************************)
(* The storage of a worker.  The inductive invariant ties what a handler   *)
(* holds in its hands to the order: the thread that has asked has the lock *)
(* and has asked for what comes after what has been applied; the answer is *)
(* the order from there on.                                                *)
(***************************************************************************)
Answers(x) ==
    /\ handled[x] <= Len(reply[x])
    /\ query[x].from + Len(reply[x]) <= commit[at[x]] + 1
    /\ \A i \in 1 .. Len(reply[x]) : reply[x][i] = order[query[x].from + i - 1]

HasAsked(x) ==
    /\ lock[at[x]] = x /\ query[x].node = at[x]
    /\ query[x].from > 0 /\ query[x].count = BatchSize
    /\ query[x].from + handled[x] = last_persisted_id[at[x]] + 1
    /\ IF reply[x] = None THEN handled[x] = 0 ELSE Answers(x)

HandlerOK(x) ==
    /\ pc[x] \in {"new", "actualize"} => query[x].node = None /\ reply[x] = None /\ handled[x] = 0
    /\ pc[x] = "ask" => HasAsked(x)

Handlers == \A x \in Reader : HandlerOK(x)

StoreInv == TypeInv /\ Handlers /\ StorageIsApplied

\* One more command that does not write k leaves k as it is.
LEMMA HoldsExtend ==
  ASSUME NEW n \in Nat, NEW write, NEW k, NEW v, Holds(n, write, k, v),
         write[order[n + 1]].key # k
  PROVE  Holds(n + 1, write, k, v)
<1>1. CASE v = << >> /\ \A i \in 1 .. n : write[order[i]].key # k
  BY <1>1 DEF Holds
<1>2. CASE \E i \in 1 .. n : LastWrite(i, n, write, k) /\ write[order[i]].value = v
  <2>1. PICK i \in 1 .. n : LastWrite(i, n, write, k) /\ write[order[i]].value = v
    BY <1>2
  <2>2. LastWrite(i, n + 1, write, k)
    BY <2>1 DEF LastWrite
  <2> QED
    BY <2>1, <2>2 DEF Holds
<1> QED
  BY <1>1, <1>2 DEF Holds

\* The storage stays what it is to the order while the order grows and more of it
\* becomes persistent.
LEMMA AppliedKept ==
  ASSUME TypeInv, StorageIsApplied, CommitOrdered', UNCHANGED <<storage, last_persisted_id>>,
         \A p \in Replica : commit[p] <= commit'[p] /\ commit'[p] \in Nat,
         \A i \in 1 .. Len(order) : order'[i] = order[i]
  PROVE  StorageIsApplied'
<1> SUFFICES ASSUME NEW p \in Replica
             PROVE  /\ last_persisted_id'[p] <= commit'[p]
                    /\ commit'[p] <= Len(order')
                    /\ DOMAIN storage'[p] = {Decoded[order'[i]].key : i \in 1 .. last_persisted_id'[p]}
                    /\ \A k \in DOMAIN storage'[p] :
                           Holds(last_persisted_id[p], Decoded, k, storage[p][k])'
  BY DEF StorageIsApplied, Decoded, NextWord, Words
<1>1. /\ last_persisted_id[p] \in Nat /\ commit[p] \in Nat /\ Len(order) \in Nat
      /\ last_persisted_id[p] <= commit[p] /\ commit[p] <= Len(order)
      /\ commit[p] <= commit'[p] /\ commit'[p] \in Nat /\ commit'[p] <= Len(order')
  BY DEF TypeInv, StoreTypeOK, LogTypeOK, StorageIsApplied, CommitOrdered
<1>2. \A i \in 1 .. last_persisted_id[p] : order'[i] = order[i]
  BY <1>1
<1>3. DOMAIN storage[p] = {Decoded[order'[i]].key : i \in 1 .. last_persisted_id[p]}
  BY <1>2 DEF StorageIsApplied
<1>4. ASSUME NEW k \in DOMAIN storage[p]
      PROVE  Holds(last_persisted_id[p], Decoded, k, storage[p][k])'
  <2>1. Holds(last_persisted_id[p], Decoded, k, storage[p][k])
    BY DEF StorageIsApplied
  <2>2. \A i \in 1 .. last_persisted_id[p] :
            LastWrite(i, last_persisted_id[p], Decoded, k)
                => LastWrite(i, last_persisted_id[p], Decoded, k)'
    <3> HIDE DEF Decoded
    <3>1. Decoded' = Decoded
      BY DEF Decoded, NextWord, Words
    <3>2. ASSUME NEW i \in 1 .. last_persisted_id[p]
          PROVE  \A j \in i + 1 .. last_persisted_id[p] : order'[j] = order[j]
      BY <1>1, <1>2
    <3> QED
      BY <1>2, <3>1, <3>2 DEF LastWrite
  <2> QED
    BY <1>2, <2>1, <2>2 DEF Holds
<1>5. last_persisted_id'[p] <= commit'[p]
  BY <1>1
<1> QED
  BY <1>1, <1>3, <1>4, <1>5

\* So does what a handler has in its hands.
LEMMA HandlerKept ==
  ASSUME TypeInv, NEW x \in Reader, HandlerOK(x),
         pc'[x] = pc[x], at'[x] = at[x], query'[x] = query[x], reply'[x] = reply[x],
         handled'[x] = handled[x],
         pc[x] = "ask" => /\ lock'[at[x]] = lock[at[x]]
                          /\ last_persisted_id'[at[x]] = last_persisted_id[at[x]]
                          /\ commit[at[x]] <= commit'[at[x]] /\ commit'[at[x]] \in Nat,
         \A i \in 1 .. Len(order) : order'[i] = order[i]
  PROVE  HandlerOK(x)'
<1>1. CASE pc[x] # "ask"
  BY <1>1 DEF HandlerOK
<1>2. CASE pc[x] = "ask" /\ reply[x] = None
  BY <1>2 DEF HandlerOK, HasAsked
<1>3. CASE pc[x] = "ask" /\ reply[x] # None
  <2>1. HasAsked(x) /\ Answers(x)
    BY <1>3 DEF HandlerOK, HasAsked
  <2>2. /\ at[x] \in Replica /\ commit[at[x]] \in Nat /\ commit[at[x]] <= Len(order)
        /\ Len(order) \in Nat /\ query[x].from \in Nat /\ Len(reply[x]) \in Nat
    BY <1>3 DEF TypeInv, Placed, StoreTypeOK, LogTypeOK, CommitOrdered
  <2>3. \A i \in 1 .. Len(reply[x]) : query[x].from + i - 1 \in 1 .. Len(order)
    <3>1. query[x].from > 0 /\ query[x].from + Len(reply[x]) <= commit[at[x]] + 1
      BY <2>1 DEF Answers, HasAsked
    <3> QED
      BY <2>2, <3>1, SMTT(30)
  <2>4. \A i \in 1 .. Len(reply[x]) : order'[query[x].from + i - 1] = order[query[x].from + i - 1]
    BY <2>3
  <2>5. query[x].from + Len(reply[x]) <= commit'[at[x]] + 1
    BY <1>3, <2>1, <2>2 DEF Answers
  <2>6. Answers(x)'
    BY <2>1, <2>4, <2>5 DEF Answers
  <2> QED
    BY <1>3, <2>1, <2>6 DEF HandlerOK, HasAsked
<1> QED
  BY <1>1, <1>2, <1>3

\* A thread that has asked holds the lock of its worker: another one has asked at
\* another worker.
LEMMA OneAsks ==
  ASSUME StoreInv, NEW x \in Reader, NEW y \in Reader, pc[y] = "ask",
         \/ pc[x] = "ask" /\ x # y
         \/ Free(at[x])
  PROVE  at[y] # at[x]
BY CallAssumption DEF StoreInv, Handlers, HandlerOK, HasAsked, Free

\* An iteration of the loop applies the next command of the order to the storage.
LEMMA ApplyStores ==
  ASSUME StoreInv, NEW x \in Reader, Apply(x), TypeInv'
  PROVE  StorageIsApplied'
<1> DEFINE n == at[x]
           l == last_persisted_id[n]
           c == reply[x][handled[x] + 1]
           key == Decoded[c].key
           value == Decoded[c].value
<1>1. pc[x] = "ask" /\ reply[x] # None /\ HasAsked(x) /\ Answers(x) /\ n \in Replica
  BY DEF Apply, StoreInv, Handlers, HandlerOK, HasAsked, TypeInv, Placed
<1>2. /\ l \in Nat /\ commit[n] \in Nat /\ handled[x] \in Nat /\ Len(reply[x]) \in Nat
      /\ query[x].from \in Nat /\ handled[x] < Len(reply[x]) /\ commit[n] <= Len(order)
  <2>1. reply[x] \in Seq(Command)
    BY <1>1 DEF StoreInv, TypeInv, StoreTypeOK, LogTypeOK
  <2>2. Len(reply[x]) \in Nat
    BY <2>1
  <2>3. handled[x] < Len(reply[x])
    BY DEF Apply
  <2>4. /\ l \in Nat /\ commit[n] \in Nat /\ handled[x] \in Nat
        /\ query[x].from \in Nat /\ commit[n] <= Len(order)
    BY <1>1 DEF StoreInv, TypeInv, StoreTypeOK, LogTypeOK, CommitOrdered
  <2> QED
    BY <2>2, <2>3, <2>4
<1>3. c = order[l + 1] /\ l + 1 <= commit[n]
  <2>0. handled[x] + 1 \in 1 .. Len(reply[x])
    BY <1>2
  <2>1. c = order[query[x].from + (handled[x] + 1) - 1]
    BY <1>1, <2>0 DEF Answers
  <2>2. query[x].from + (handled[x] + 1) - 1 = l + 1
    BY <1>1, <1>2 DEF HasAsked
  <2>3. query[x].from + Len(reply[x]) <= commit[n] + 1
    BY <1>1 DEF Answers
  <2>4. query[x].from + handled[x] = l + 1
    BY <1>1 DEF HasAsked
  <2> HIDE DEF n, l, c
  <2>5. l + 1 <= commit[n]
    BY <1>2, <2>3, <2>4
  <2> QED
    BY <2>1, <2>2, <2>5
<1>4. /\ storage' = [storage EXCEPT ![n] = Set(storage[n], key, value)]
      /\ last_persisted_id' = [last_persisted_id EXCEPT ![n] = l + 1]
      /\ UNCHANGED <<order, commit>>
  BY <1>1 DEF Apply, logVars, StoreInv, TypeInv, StoreTypeOK
<1> HIDE DEF c
<1>5. /\ storage'[n] = Set(storage[n], key, value) /\ last_persisted_id'[n] = l + 1
      /\ \A p \in Replica \ {n} : storage'[p] = storage[p]
                                  /\ last_persisted_id'[p] = last_persisted_id[p]
  BY <1>1, <1>4 DEF StoreInv, TypeInv, StoreTypeOK
<1>6. /\ DOMAIN storage[n] = {Decoded[order[i]].key : i \in 1 .. l}
      /\ \A k \in DOMAIN storage[n] : Holds(l, Decoded, k, storage[n][k])
  BY <1>1 DEF StoreInv, StorageIsApplied
<1> DEFINE t == Set(storage[n], key, value)
<1> HIDE DEF n, l
<1>7. DOMAIN t = {Decoded[order[i]].key : i \in 1 .. l + 1}
  <2>1. 1 .. l + 1 = (1 .. l) \cup {l + 1}
    BY <1>2
  <2>2. DOMAIN t = DOMAIN storage[n] \cup {Decoded[order[l + 1]].key}
    BY <1>3 DEF Set
  <2> QED
    BY <1>6, <2>1, <2>2
<1>8. ASSUME NEW k \in DOMAIN t
      PROVE  Holds(l + 1, Decoded, k, t[k])
  <2>1. CASE k = key
    <3>1. t[k] = value
      BY <2>1 DEF Set
    <3>2. LastWrite(l + 1, l + 1, Decoded, k)
      BY <1>2, <1>3, <2>1 DEF LastWrite
    <3>3. l + 1 \in 1 .. l + 1
      BY <1>2
    <3> QED
      BY <1>3, <3>1, <3>2, <3>3 DEF Holds
  <2>2. CASE k # key
    <3>1. t[k] = storage[n][k] /\ k \in DOMAIN storage[n]
      BY <2>2 DEF Set
    <3>2. Holds(l, Decoded, k, storage[n][k])
      BY <1>6, <3>1
    <3>3. Decoded[order[l + 1]].key # k
      BY <1>3, <2>2
    <3> QED
      BY <1>2, <3>1, <3>2, <3>3, HoldsExtend
  <2> QED
    BY <2>1, <2>2
<1> HIDE DEF t, key, value
<1>9. /\ l + 1 <= commit'[n] /\ commit'[n] <= Len(order')
      /\ DOMAIN storage'[n] = {Decoded[order'[i]].key : i \in 1 .. last_persisted_id'[n]}
  BY <1>2, <1>3, <1>4, <1>5, <1>7 DEF t
<1>10. ASSUME NEW p \in Replica
       PROVE  /\ last_persisted_id'[p] <= commit'[p] /\ commit'[p] <= Len(order')
              /\ DOMAIN storage'[p] = {Decoded[order'[i]].key : i \in 1 .. last_persisted_id'[p]}
              /\ \A k \in DOMAIN storage'[p] :
                     Holds(last_persisted_id[p], Decoded, k, storage[p][k])'
  <2>1. CASE p = n
    <3>1. ASSUME NEW k \in DOMAIN storage'[p]
          PROVE  Holds(last_persisted_id[p], Decoded, k, storage[p][k])'
      <4>1. Holds(l + 1, Decoded, k, t[k])
        BY <1>5, <1>8, <2>1, <3>1 DEF t
      <4> QED
        BY <1>4, <1>5, <2>1, <4>1 DEF Holds, LastWrite, t
    <3> QED
      BY <1>5, <1>9, <2>1, <3>1
  <2>2. CASE p # n
    <3>1. /\ last_persisted_id[p] <= commit[p] /\ commit[p] <= Len(order)
          /\ DOMAIN storage[p] = {Decoded[order[i]].key : i \in 1 .. last_persisted_id[p]}
          /\ \A k \in DOMAIN storage[p] : Holds(last_persisted_id[p], Decoded, k, storage[p][k])
      BY DEF StoreInv, StorageIsApplied
    <3> QED
      BY <1>4, <1>5, <2>2, <3>1 DEF Holds, LastWrite
  <2> QED
    BY <2>1, <2>2
<1> QED
  BY <1>10 DEF StorageIsApplied, Decoded, NextWord, Words

\* A handler's steps keep what every handler has in its hands.
LEMMA HandlersStep ==
  ASSUME StoreInv, NEW x \in Reader, at[x] \in Replica, Step(x), TypeInv'
  PROVE  Handlers'
<1> DEFINE n == at[x]
<1>0. TypeInv /\ StoreTypeOK /\ LogTypeOK /\ CommitOrdered /\ n \in Replica
  BY DEF StoreInv, TypeInv, StoreTypeOK
<1>1. order' = order /\ commit' = commit /\ reply' = reply /\ at' = at
  BY DEF Step, Ask, Apply, Unlock, Lookup, Add, Return, GetPersistentCommands, AddCommand,
         logVars
<1>2. ASSUME NEW y \in Reader, y # x
      PROVE  HandlerOK(y)'
  <2>1. pc'[y] = pc[y] /\ query'[y] = query[y] /\ handled'[y] = handled[y]
    BY <1>0, <1>2 DEF Step, Ask, Apply, Unlock, Lookup, Add, Return, GetPersistentCommands,
                      AddCommand, Goto, logVars, StoreTypeOK, LogTypeOK
  <2>2. ASSUME pc[y] = "ask"
        PROVE  /\ lock'[at[y]] = lock[at[y]]
               /\ last_persisted_id'[at[y]] = last_persisted_id[at[y]]
    <3>1. at[y] \in Replica
      BY <2>2 DEF StoreInv, TypeInv, Placed
    <3>2. CASE pc[x] = "ask" \/ Free(n)
      <4>1. at[y] # n
        BY <1>2, <2>2, <3>2, OneAsks
      <4> QED
        BY <1>0, <3>1, <4>1 DEF Step, Ask, Apply, Unlock, Lookup, Add, Return, storeVars,
                                StoreTypeOK
    <3>3. CASE pc[x] # "ask" /\ ~Free(n)
      BY <3>3 DEF Step, Ask, Apply, Unlock, Lookup, Add, Return, storeVars
    <3> QED
      BY <3>2, <3>3
  <2>3. ASSUME pc[y] = "ask"
        PROVE  commit[at[y]] <= commit'[at[y]] /\ commit'[at[y]] \in Nat
    <3>1. at[y] \in Replica
      BY <2>3 DEF StoreInv, TypeInv, Placed
    <3> QED
      BY <1>0, <1>1, <3>1 DEF LogTypeOK
  <2>4. HandlerOK(y)
    BY DEF StoreInv, Handlers
  <2> QED
    BY <1>0, <1>1, <2>1, <2>2, <2>3, <2>4, HandlerKept
<1>3. HandlerOK(x) /\ pc[x] \in {"actualize", "ask", "lookup", "add", "wait"}
  BY DEF StoreInv, Handlers, Step, Ask, Apply, Unlock, Lookup, Add, Return
<1>4. CASE Ask(x)
  <2> DEFINE q == [node |-> n, from |-> last_persisted_id[n] + 1, count |-> BatchSize]
  <2>1. /\ lock' = [lock EXCEPT ![n] = x] /\ query' = [query EXCEPT ![x] = q]
        /\ pc' = [pc EXCEPT ![x] = "ask"] /\ UNCHANGED <<last_persisted_id, handled>>
    BY <1>4 DEF Ask, GetPersistentCommands, Goto
  <2>2. /\ lock'[n] = x /\ query'[x] = q /\ pc'[x] = "ask"
    BY <1>0, <2>1 DEF StoreTypeOK, LogTypeOK
  <2>3. reply[x] = None /\ handled[x] = 0
    BY <1>3, <1>4 DEF Ask, HandlerOK
  <2>4. last_persisted_id[n] \in Nat
    BY <1>0 DEF StoreTypeOK
  <2>5. HasAsked(x)'
    BY <1>1, <2>1, <2>2, <2>3, <2>4 DEF HasAsked
  <2> QED
    BY <1>2, <2>2, <2>5 DEF Handlers, HandlerOK
<1>5. CASE Apply(x)
  <2>1. /\ last_persisted_id' = [last_persisted_id EXCEPT ![n] = last_persisted_id[n] + 1]
        /\ handled' = [handled EXCEPT ![x] = handled[x] + 1]
        /\ UNCHANGED <<lock, pc, query>>
    BY <1>0, <1>5 DEF Apply, logVars, StoreTypeOK
  <2>2. /\ last_persisted_id'[n] = last_persisted_id[n] + 1 /\ handled'[x] = handled[x] + 1
    BY <1>0, <2>1 DEF StoreTypeOK
  <2>3. pc[x] = "ask" /\ reply[x] # None /\ HasAsked(x) /\ Answers(x)
    BY <1>3, <1>5 DEF Apply, HandlerOK, HasAsked
  <2>4. /\ handled[x] \in Nat /\ query[x].from \in Nat /\ last_persisted_id[n] \in Nat
    BY <1>0 DEF StoreTypeOK, LogTypeOK
  <2>5. Len(reply[x]) \in Nat /\ handled[x] < Len(reply[x])
    <3>1. reply[x] \in Seq(Command)
      BY <1>0, <2>3 DEF LogTypeOK
    <3> QED
      BY <1>5, <3>1 DEF Apply
  <2>6. Answers(x)'
    BY <1>1, <2>1, <2>2, <2>3, <2>4, <2>5 DEF Answers
  <2>7. query[x].from + handled'[x] = last_persisted_id'[n] + 1
    BY <2>2, <2>3, <2>4 DEF HasAsked
  <2>8. HasAsked(x)'
    BY <1>1, <2>1, <2>3, <2>6, <2>7 DEF HasAsked
  <2> QED
    BY <1>2, <2>1, <2>3, <2>8 DEF Handlers, HandlerOK
<1>6. CASE Unlock(x) \/ Lookup(x) \/ Add(x) \/ Return(x)
  <2>1. pc'[x] \in {"add", "lookup", "done", "wait"}
    BY <1>0, <1>6 DEF Unlock, Lookup, Add, Return, Goto, StoreTypeOK
  <2> QED
    BY <1>2, <2>1 DEF Handlers, HandlerOK
<1> QED
  BY <1>4, <1>5, <1>6 DEF Step

\* So do a call that arrives, the other threads of a worker, its restart, and
\* what the other workers do.
LEMMA HandlersOthers ==
  ASSUME StoreInv, TypeInv',
         \/ \E x \in Reader, n \in Replica : Begin(x, n)
         \/ \E c \in Command : TakeIn(c)
         \/ \E n \in Replica : TickOf(n) \/ Stop(n) \/ Crash(n) \/ \E l \in Replica : HearFrom(n, l)
         \/ UNCHANGED vars
  PROVE  Handlers'
<1> SUFFICES ASSUME NEW y \in Reader PROVE HandlerOK(y)'
  BY DEF Handlers
<1>0. /\ TypeInv /\ StoreTypeOK /\ LogTypeOK /\ CommitOrdered /\ HandlerOK(y) /\ StorageIsApplied
      /\ pc[y] = "ask" => at[y] \in Replica /\ commit[at[y]] \in Nat
  BY DEF StoreInv, TypeInv, Handlers, StoreTypeOK, LogTypeOK, Placed
<1>1. ASSUME NEW x \in Reader, NEW n \in Replica, Begin(x, n)
      PROVE  HandlerOK(y)'
  <2>1. /\ pc[x] = "new" /\ pc' = [pc EXCEPT ![x] = "actualize"] /\ at' = [at EXCEPT ![x] = n]
        /\ UNCHANGED <<order, commit, query, reply, last_persisted_id, lock, handled>>
    BY <1>1 DEF Begin, Goto, Start, logVars, storeVars
  <2>2. CASE y = x
    BY <1>0, <2>1, <2>2 DEF HandlerOK, StoreTypeOK
  <2>3. CASE y # x
    <3>1. pc'[y] = pc[y] /\ at'[y] = at[y]
      BY <1>0, <2>1, <2>3 DEF StoreTypeOK
    <3> QED
      BY <1>0, <2>1, <3>1, HandlerKept
  <2> QED
    BY <2>2, <2>3
<1>2. ASSUME NEW c \in Command, TakeIn(c)
      PROVE  HandlerOK(y)'
  <2>1. /\ order' = order \o <<c>>
        /\ UNCHANGED <<commit, query, reply, last_persisted_id, lock, pc, at, handled>>
    BY <1>2 DEF TakeIn, Order, storeVars, callVars
  <2>2. \A i \in 1 .. Len(order) : order'[i] = order[i]
    BY <1>0, <2>1 DEF LogTypeOK
  <2> QED
    BY <1>0, <2>1, <2>2, HandlerKept
<1>3. ASSUME NEW n \in Replica, TickOf(n)
      PROVE  HandlerOK(y)'
  <2>1. PICK k \in 0 .. Len(order), S \in SUBSET CallsAt(n) : Tick(n, k, S)
    BY <1>3 DEF TickOf
  <2>2. /\ reply' = [x \in Reader |-> IF Asking(x) /\ query[x].node = n
                                      THEN PersistentCommands(n, query[x]) ELSE reply[x]]
        /\ k \in commit[n] .. Len(order) /\ commit' = [commit EXCEPT ![n] = k]
        /\ UNCHANGED <<order, query, last_persisted_id, lock, pc, at, handled>>
    BY <1>3, <2>1 DEF TickOf, Tick, Learn, storeVars, callVars
  <2>3. \A p \in Replica : commit[p] <= commit'[p] /\ commit'[p] \in Nat
    BY <1>0, <2>2 DEF LogTypeOK
  <2>4. CASE ~(Asking(y) /\ query[y].node = n)
    <3>1. reply'[y] = reply[y]
      BY <2>2, <2>4
    <3> QED
      BY <1>0, <2>2, <2>3, <3>1, HandlerKept
  <2>5. CASE Asking(y) /\ query[y].node = n /\ pc[y] # "ask"
    BY <1>0, <2>2, <2>5, CallAssumption DEF HandlerOK, Asking
  <2>6. CASE Asking(y) /\ query[y].node = n /\ pc[y] = "ask"
    <3> DEFINE from == query[y].from
               last == IF from + query[y].count - 1 <= commit[n] THEN from + query[y].count - 1
                                                                 ELSE commit[n]
               r == PersistentCommands(n, query[y])
    <3>1. HasAsked(y) /\ at[y] = n /\ handled[y] = 0 /\ reply[y] = None
      BY <1>0, <2>6 DEF HandlerOK, HasAsked, Asking
    <3>2. from > 0
      BY <3>1 DEF HasAsked
    <3>3. /\ r \in Seq(Command) /\ Len(r) = IF from <= last THEN last - from + 1 ELSE 0
          /\ \A i \in 1 .. Len(r) : r[i] = order[from + i - 1]
      BY <1>0, <3>2, ReadOfOrder
    <3>4. /\ from \in Nat /\ query[y].count \in Nat /\ commit[n] \in Nat /\ commit'[n] \in Nat
          /\ commit[n] <= commit'[n] /\ last_persisted_id[n] \in Nat
          /\ from = last_persisted_id[n] + 1 /\ last_persisted_id[n] <= commit[n]
      <4>1. /\ from \in Nat /\ query[y].count \in Nat /\ commit[n] \in Nat
            /\ last_persisted_id[n] \in Nat /\ last_persisted_id[n] <= commit[n]
        BY <1>0 DEF LogTypeOK, StoreTypeOK, StorageIsApplied
      <4>2. from + 0 = last_persisted_id[n] + 1
        BY <3>1 DEF HasAsked
      <4> QED
        BY <2>3, <4>1, <4>2
    <3>5. last \in Int /\ last <= commit[n]
      BY <3>4
    <3>6. reply'[y] = r /\ r # None
      BY <2>2, <2>6, <3>3, CallAssumption
    <3> HIDE DEF last, r
    <3>7. Len(r) \in Nat /\ from + Len(r) <= commit'[n] + 1
      <4>1. CASE from <= last
        <5>1. Len(r) = last - from + 1
          BY <3>3, <4>1
        <5>2. \A f, l, p, q \in Int : f <= l /\ l <= p /\ p <= q /\ f >= 0
                  => l - f + 1 \in Nat /\ f + (l - f + 1) <= q + 1
          OBVIOUS
        <5>3. from \in Int /\ commit[n] \in Int /\ commit'[n] \in Int /\ from >= 0
          BY <3>4
        <5>4. last - from + 1 \in Nat /\ from + (last - from + 1) <= commit'[n] + 1
          BY <3>4, <3>5, <4>1, <5>2, <5>3
        <5> QED
          BY <5>1, <5>4
      <4>2. CASE ~(from <= last)
        BY <3>3, <3>4, <3>5, <4>2
      <4> QED
        BY <4>1, <4>2
    <3>8. Answers(y)'
      BY <2>2, <3>1, <3>3, <3>6, <3>7 DEF Answers
    <3>9. HasAsked(y)'
      BY <2>2, <3>1, <3>6, <3>8 DEF HasAsked
    <3> QED
      BY <2>2, <2>6, <3>9 DEF HandlerOK
  <2> QED
    BY <2>4, <2>5, <2>6
<1>4. ASSUME NEW n \in Replica, Stop(n)
      PROVE  HandlerOK(y)'
  <2>1. UNCHANGED <<order, commit, query, reply, last_persisted_id, lock, pc, at, handled>>
    BY <1>4 DEF Stop, logVars, storeVars, callVars
  <2> QED
    BY <1>0, <2>1, HandlerKept
<1>5. ASSUME NEW n \in Replica, Crash(n)
      PROVE  HandlerOK(y)'
  <2>1. /\ commit' = [commit EXCEPT ![n] = 0]
        /\ last_persisted_id' = [last_persisted_id EXCEPT ![n] = 0]
        /\ lock' = [lock EXCEPT ![n] = None]
        /\ pc' = [x \in Reader |-> IF x \in InProgress /\ at[x] = n THEN "lost" ELSE pc[x]]
        /\ query' = [x \in Reader |-> IF Asking(x) /\ query[x].node = n THEN NotAsked ELSE query[x]]
        /\ UNCHANGED <<order, reply, at, handled>>
    BY <1>5 DEF Crash, Restart
  <2>2. CASE pc'[y] \notin {"new", "actualize", "ask"}
    BY <2>2 DEF HandlerOK
  <2>3. CASE pc'[y] \in {"new", "actualize", "ask"}
    <3>1. pc'[y] = pc[y] /\ ~(y \in InProgress /\ at[y] = n)
      BY <2>1, <2>3
    <3>2. query[y].node # n
      BY <1>0, <2>3, <3>1, CallAssumption DEF HandlerOK, HasAsked, InProgress
    <3>3. query'[y] = query[y]
      BY <2>1, <3>2
    <3>4. ASSUME pc[y] = "ask"
          PROVE  /\ at[y] # n /\ lock'[at[y]] = lock[at[y]]
                 /\ last_persisted_id'[at[y]] = last_persisted_id[at[y]]
                 /\ commit'[at[y]] = commit[at[y]]
      BY <1>0, <2>1, <3>1, <3>4 DEF InProgress, StoreTypeOK, LogTypeOK
    <3>5. pc[y] = "ask" => commit[at[y]] <= commit'[at[y]] /\ commit'[at[y]] \in Nat
      BY <1>0, <3>4
    <3> QED
      BY <1>0, <2>1, <3>1, <3>3, <3>4, <3>5, HandlerKept
  <2> QED
    BY <2>2, <2>3
<1>6. ASSUME NEW n \in Replica, NEW l \in Replica, HearFrom(n, l)
      PROVE  HandlerOK(y)'
  <2>1. PICK k \in 0 .. Len(order), S \in SUBSET CallsAt(n) : Hear(n, k, S, l)
    BY <1>6 DEF HearFrom
  <2>2. /\ k \in commit[n] .. Len(order) /\ commit' = [commit EXCEPT ![n] = k]
        /\ UNCHANGED <<order, query, reply, last_persisted_id, lock, pc, at, handled>>
    BY <1>6, <2>1 DEF HearFrom, Hear, Learn, storeVars, callVars
  <2>3. \A p \in Replica : commit[p] <= commit'[p] /\ commit'[p] \in Nat
    BY <1>0, <2>2 DEF LogTypeOK
  <2> QED
    BY <1>0, <2>2, <2>3, HandlerKept
<1>7. ASSUME UNCHANGED vars
      PROVE  HandlerOK(y)'
  BY <1>0, <1>7, HandlerKept DEF vars, logVars, storeVars, callVars
<1> QED
  BY <1>1, <1>2, <1>3, <1>4, <1>5, <1>6, <1>7

\* Every step keeps the storage what its part of the order makes it.
LEMMA StorageStep ==
  ASSUME StoreInv, [StoreNext]_vars, TypeInv'
  PROVE  StorageIsApplied'
<1>0. TypeInv /\ StoreTypeOK /\ LogTypeOK /\ StorageIsApplied /\ CommitOrdered'
  BY DEF StoreInv, TypeInv, StoreTypeOK
<1>1. ASSUME NEW x \in Reader, Apply(x) PROVE StorageIsApplied'
  BY <1>1, ApplyStores
<1>2. ASSUME NEW n \in Replica, Crash(n) PROVE StorageIsApplied'
  <2>1. /\ storage' = [storage EXCEPT ![n] = << >>] /\ commit' = [commit EXCEPT ![n] = 0]
        /\ last_persisted_id' = [last_persisted_id EXCEPT ![n] = 0] /\ order' = order
    BY <1>2 DEF Crash, Restart
  <2>2. /\ storage'[n] = << >> /\ commit'[n] = 0 /\ last_persisted_id'[n] = 0
        /\ \A p \in Replica \ {n} : /\ storage'[p] = storage[p] /\ commit'[p] = commit[p]
                                    /\ last_persisted_id'[p] = last_persisted_id[p]
    BY <1>0, <2>1 DEF StoreTypeOK, LogTypeOK
  <2>3. ASSUME NEW p \in Replica
        PROVE  /\ last_persisted_id'[p] <= commit'[p] /\ commit'[p] <= Len(order')
               /\ DOMAIN storage'[p] = {Decoded[order'[i]].key : i \in 1 .. last_persisted_id'[p]}
               /\ \A k \in DOMAIN storage'[p] :
                      Holds(last_persisted_id[p], Decoded, k, storage[p][k])'
    <3>1. CASE p = n
      <4>1. DOMAIN storage'[p] = {} /\ 1 .. last_persisted_id'[p] = {}
        BY <2>2, <3>1
      <4>2. commit'[p] <= Len(order')
        BY <1>0 DEF CommitOrdered
      <4> QED
        BY <2>2, <3>1, <4>1, <4>2
    <3>2. CASE p # n
      <4>1. /\ last_persisted_id[p] <= commit[p] /\ commit[p] <= Len(order)
            /\ DOMAIN storage[p] = {Decoded[order[i]].key : i \in 1 .. last_persisted_id[p]}
            /\ \A k \in DOMAIN storage[p] : Holds(last_persisted_id[p], Decoded, k, storage[p][k])
        BY <1>0 DEF StorageIsApplied
      <4> QED
        BY <2>1, <2>2, <3>2, <4>1 DEF Holds, LastWrite
    <3> QED
      BY <3>1, <3>2
  <2> QED
    BY <2>3 DEF StorageIsApplied, Decoded, NextWord, Words
<1>3. ASSUME NEW c \in Command, TakeIn(c) PROVE StorageIsApplied'
  <2>1. order' = order \o <<c>> /\ UNCHANGED <<commit, storage, last_persisted_id>>
    BY <1>3 DEF TakeIn, Order, storeVars
  <2>2. \A i \in 1 .. Len(order) : order'[i] = order[i]
    BY <1>0, <2>1 DEF LogTypeOK
  <2>3. \A p \in Replica : commit[p] <= commit'[p] /\ commit'[p] \in Nat
    BY <1>0, <2>1 DEF LogTypeOK
  <2> QED
    BY <1>0, <2>1, <2>2, <2>3, AppliedKept
<1>4. ASSUME NEW n \in Replica, TickOf(n) \/ \E l \in Replica : HearFrom(n, l)
      PROVE  StorageIsApplied'
  <2>1. PICK k \in commit[n] .. Len(order) : commit' = [commit EXCEPT ![n] = k]
    BY <1>4 DEF TickOf, HearFrom, Tick, Hear, Learn
  <2>2. UNCHANGED <<order, storage, last_persisted_id>>
    BY <1>4 DEF TickOf, HearFrom, Tick, Hear, storeVars
  <2>3. \A p \in Replica : commit[p] <= commit'[p] /\ commit'[p] \in Nat
    BY <1>0, <2>1 DEF LogTypeOK
  <2> QED
    BY <1>0, <2>2, <2>3, AppliedKept
<1>5. ASSUME UNCHANGED <<order, commit, storage, last_persisted_id>> PROVE StorageIsApplied'
  <2>1. \A p \in Replica : commit[p] <= commit'[p] /\ commit'[p] \in Nat
    BY <1>0, <1>5 DEF LogTypeOK
  <2> QED
    BY <1>0, <1>5, <2>1, AppliedKept
<1>6. ASSUME NEW x \in Reader, Ask(x) \/ Unlock(x) \/ Lookup(x) \/ Add(x) \/ Return(x)
      PROVE  StorageIsApplied'
  BY <1>5, <1>6 DEF Ask, Unlock, Lookup, Add, Return, GetPersistentCommands, AddCommand, logVars,
                    storeVars
<1>7. ASSUME NEW n \in Replica, Stop(n) \/ \E x \in Reader : Begin(x, n)
      PROVE  StorageIsApplied'
  BY <1>5, <1>7 DEF Stop, Begin, logVars, storeVars
<1>8. ASSUME UNCHANGED vars PROVE StorageIsApplied'
  BY <1>5, <1>8 DEF vars, logVars, storeVars
<1> QED
  BY <1>1, <1>2, <1>3, <1>4, <1>6, <1>7, <1>8 DEF StoreNext, Step

\* The invariant holds at the start.
LEMMA StoreInvInit == StoreInit => StoreInv
<1> SUFFICES ASSUME StoreInit PROVE StoreInv
  OBVIOUS
<1>1. Handlers
  BY DEF StoreInit, Init, NotAsked, Handlers, HandlerOK
<1>2. StorageIsApplied
  <2>1. ASSUME NEW n \in Replica
        PROVE  /\ last_persisted_id[n] = 0 /\ commit[n] = 0 /\ Len(order) = 0
               /\ DOMAIN storage[n] = {} /\ 1 .. last_persisted_id[n] = {}
    BY DEF StoreInit, Init
  <2> QED
    BY <2>1 DEF StorageIsApplied
<1> QED
  BY <1>1, <1>2, TypeInit DEF StoreInv

\* Every step keeps it.
LEMMA StoreInvNext == StoreInv /\ [StoreNext]_vars => StoreInv'
<1> SUFFICES ASSUME StoreInv, [StoreNext]_vars PROVE StoreInv'
  OBVIOUS
<1>1. TypeInv'
  BY TypeNext DEF StoreInv
<1>2. ASSUME NEW x \in Reader, Step(x) PROVE at[x] \in Replica
  BY <1>2 DEF Step, Ask, Apply, Unlock, Lookup, Add, Return, StoreInv, TypeInv, Placed
<1>3. Handlers'
  BY <1>1, <1>2, HandlersStep, HandlersOthers DEF StoreNext
<1> QED
  BY <1>1, <1>3, StorageStep DEF StoreInv

\* In every reachable state the storage of every worker is what the commands it has
\* applied make of an empty map: no interleaving of the handlers of ActualizeState
\* leaves one out, applies one twice, or one that is not persistent.
THEOREM StorageApplied == StoreSpec => []StorageIsApplied
<1>1. StoreInv => StorageIsApplied
  BY DEF StoreInv
<1> QED
  BY StoreInvInit, StoreInvNext, <1>1, PTL DEF StoreSpec
-----------------------------------------------------------------------------
(***************************************************************************)
(* What a Read returns (SessionReads).  The way from what a client has     *)
(* seen to what another reads is long: their worker, unless it has         *)
(* restarted, knows it to be persistent, so the answer to ActualizeState   *)
(* reaches beyond it, so it has been applied when the key is looked up,    *)
(* whatever other threads have applied in between.                         *)
(***************************************************************************)
\* No command is ordered twice.
Distinct == \A i, j \in DOMAIN order : order[i] = order[j] => i = j

\* A Write that is told that its command is persisted is told so by a worker that
\* knows it.
PersistedKnown == \A c \in Command :
    pc[c] = "wait" /\ answer[c] = "persisted" => c \in UpTo(commit[at[c]])

\* One request returns all commands.
Short == Len(order) <= BatchSize

\* Where a handler is in ActualizeState, what its worker knew when it was called is
\* known to the worker still, then in the answer it was given, then applied.
FloorOK(x) ==
    /\ pc[x] \in {"actualize", "ask"} => floor[x] <= commit[at[x]]
    /\ Short /\ pc[x] = "ask" /\ reply[x] # None => floor[x] + 1 <= query[x].from + Len(reply[x])
    /\ Short /\ pc[x] = "lookup" => floor[x] <= last_persisted_id[at[x]]

FloorKnown == \A x \in Reader : FloorOK(x)

SessionInv == StoreInv /\ Distinct /\ PersistedKnown /\ FloorKnown /\ SessionReads

\* The order grows with every step, without ordering a command twice.
LEMMA OrderGrows ==
  ASSUME StoreInv, Distinct, [StoreNext]_vars
  PROVE  /\ Len(order) \in Nat /\ Len(order') \in Nat /\ Len(order) <= Len(order')
         /\ \A i \in 1 .. Len(order) : order'[i] = order[i]
         /\ Distinct'
<1>0. order \in Seq(Command) /\ Len(order) \in Nat /\ DOMAIN order = 1 .. Len(order)
  BY DEF StoreInv, TypeInv, StoreTypeOK, LogTypeOK
<1>1. ASSUME NEW c \in Command, TakeIn(c)
      PROVE  /\ Len(order') \in Nat /\ Len(order) <= Len(order')
             /\ \A i \in 1 .. Len(order) : order'[i] = order[i]
             /\ Distinct'
  <2>1. order' = order \o <<c>>
    BY <1>1 DEF TakeIn, Order
  <2>2. c \notin UpTo(Len(order))
    <3> DEFINE new == <<c>>
    <3>1. \A i \in DOMAIN new : new[i] \in Waiting \ UpTo(Len(order))
      BY <1>1 DEF TakeIn, Order
    <3>2. 1 \in DOMAIN new /\ new[1] = c
      OBVIOUS
    <3> QED
      BY <3>1, <3>2
  <2>3. /\ Len(order') = Len(order) + 1 /\ DOMAIN order' = 1 .. Len(order) + 1
        /\ order'[Len(order) + 1] = c
        /\ \A i \in 1 .. Len(order) : order'[i] = order[i]
    BY <1>0, <2>1
  <2>4. ASSUME NEW i \in DOMAIN order', NEW j \in DOMAIN order', order'[i] = order'[j]
        PROVE  i = j
    <3>1. \A k \in 1 .. Len(order) : order[k] # c
      BY <2>2 DEF UpTo
    <3>2. /\ i \in 1 .. Len(order) \/ i = Len(order) + 1
          /\ j \in 1 .. Len(order) \/ j = Len(order) + 1
      BY <1>0, <2>3
    <3> QED
      BY <1>0, <2>3, <2>4, <3>1, <3>2 DEF Distinct
  <2> QED
    BY <1>0, <2>3, <2>4 DEF Distinct
<1>2. ASSUME order' = order
      PROVE  /\ Len(order') \in Nat /\ Len(order) <= Len(order')
             /\ \A i \in 1 .. Len(order) : order'[i] = order[i]
             /\ Distinct'
  BY <1>0, <1>2 DEF Distinct
<1>3. ASSUME NEW x \in Reader, Step(x) PROVE order' = order
  BY <1>3 DEF Step, Ask, Apply, Unlock, Lookup, Add, Return, GetPersistentCommands, AddCommand,
              logVars
<1>4. ASSUME NEW x \in Reader, NEW n \in Replica, Begin(x, n) PROVE order' = order
  BY <1>4 DEF Begin, logVars
<1>5. ASSUME NEW n \in Replica,
             TickOf(n) \/ Stop(n) \/ Crash(n) \/ \E l \in Replica : HearFrom(n, l)
      PROVE  order' = order
  BY <1>5 DEF TickOf, Tick, HearFrom, Hear, Stop, Crash, Restart, logVars
<1>6. UNCHANGED vars => order' = order
  BY DEF vars, logVars
<1> QED
  BY <1>0, <1>1, <1>2, <1>3, <1>4, <1>5, <1>6 DEF StoreNext

\* A worker that does not die forgets nothing of what is persistent.
LEMMA CommitGrows ==
  ASSUME StoreInv, [StoreNext]_vars, NEW p \in Replica,
         restarts' = restarts \/ \E n \in Replica \ {p} : Crash(n)
  PROVE  commit[p] \in Nat /\ commit'[p] \in Nat /\ commit[p] <= commit'[p]
<1>0. commit \in [Replica -> Nat] /\ Len(order) \in Nat /\ restarts \in Nat
  BY DEF StoreInv, TypeInv, StoreTypeOK, LogTypeOK
<1>1. ASSUME NEW n \in Replica, TickOf(n) \/ \E l \in Replica : HearFrom(n, l)
      PROVE  commit'[p] \in Nat /\ commit[p] <= commit'[p]
  <2>1. PICK k \in commit[n] .. Len(order) : commit' = [commit EXCEPT ![n] = k]
    BY <1>1 DEF TickOf, HearFrom, Tick, Hear, Learn
  <2> QED
    BY <1>0, <2>1
<1>2. ASSUME NEW n \in Replica, Crash(n)
      PROVE  commit'[p] \in Nat /\ commit[p] <= commit'[p]
  <2>1. restarts' # restarts
    BY <1>0, <1>2 DEF Crash
  <2>2. PICK m \in Replica \ {p} : commit' = [commit EXCEPT ![m] = 0]
    BY <2>1 DEF Crash, Restart
  <2> QED
    BY <1>0, <2>2
<1>3. ASSUME commit' = commit
      PROVE  commit'[p] \in Nat /\ commit[p] <= commit'[p]
  BY <1>0, <1>3
<1>4. ASSUME NEW x \in Reader, Step(x) PROVE commit' = commit
  BY <1>4 DEF Step, Ask, Apply, Unlock, Lookup, Add, Return, GetPersistentCommands, AddCommand,
              logVars
<1>5. ASSUME NEW n \in Replica, Stop(n) \/ \E x \in Reader : Begin(x, n) PROVE commit' = commit
  BY <1>5 DEF Stop, Begin, logVars
<1>6. ASSUME NEW c \in Command, TakeIn(c) PROVE commit' = commit
  BY <1>6 DEF TakeIn, Order
<1>7. UNCHANGED vars => commit' = commit
  BY DEF vars, logVars
<1> QED
  BY <1>0, <1>1, <1>2, <1>3, <1>4, <1>5, <1>6, <1>7 DEF StoreNext
-----------------------------------------------------------------------------
(***************************************************************************)
(* What clients have seen is known.                                        *)
(***************************************************************************)
\* What a replica knows to be persistent at one state, it knows later.
LEMMA KnownLater ==
  ASSUME StoreInv, Distinct, [StoreNext]_vars, NEW p \in Replica,
         restarts' = restarts \/ \E n \in Replica \ {p} : Crash(n),
         NEW c \in UpTo(commit[p])
  PROVE  (c \in UpTo(commit[p]))'
<1>1. PICK i \in 1 .. commit[p] : order[i] = c
  BY DEF UpTo
<1>2. /\ commit[p] \in Nat /\ commit[p] <= Len(order) /\ Len(order) \in Nat
      /\ commit'[p] \in Nat /\ commit[p] <= commit'[p]
  BY CommitGrows, OrderGrows DEF StoreInv, StorageIsApplied
<1>3. order'[i] = c /\ i \in 1 .. commit'[p]
  BY <1>1, <1>2, OrderGrows
<1> QED
  BY <1>3 DEF UpTo

\* Every step keeps PersistedKnown.
LEMMA PersistedStep ==
  ASSUME StoreInv, Distinct, PersistedKnown, [StoreNext]_vars
  PROVE  PersistedKnown'
<1> SUFFICES ASSUME NEW c \in Command, pc'[c] = "wait", answer'[c] = "persisted"
             PROVE  (c \in UpTo(commit[at[c]]))'
  BY DEF PersistedKnown
<1>0. /\ c \in Reader /\ StoreTypeOK /\ LogTypeOK
      /\ pc[c] # "new" => at[c] \in Replica
  BY CallAssumption DEF StoreInv, TypeInv, StoreTypeOK, Placed
\* A step that does not concern the call.
<1>1. ASSUME pc[c] = "wait", answer[c] = "persisted", at'[c] = at[c],
             restarts' = restarts \/ \E n \in Replica \ {at[c]} : Crash(n)
      PROVE  (c \in UpTo(commit[at[c]]))'
  <2>1. at[c] \in Replica /\ c \in UpTo(commit[at[c]])
    BY <1>0, <1>1 DEF PersistedKnown
  <2>2. (c \in UpTo(commit[at[c]]))' <=> c \in {order'[i] : i \in 1 .. commit'[at[c]]}
    BY <1>1 DEF UpTo
  <2> QED
    BY <1>1, <2>1, <2>2, KnownLater DEF UpTo
<1>2. ASSUME NEW x \in Reader, Step(x), x # c
      PROVE  pc[c] = "wait" /\ answer[c] = "persisted" /\ at'[c] = at[c] /\ restarts' = restarts
  BY <1>0, <1>2 DEF Step, Ask, Apply, Unlock, Lookup, Add, Return, GetPersistentCommands,
                    AddCommand, logVars, mainVars, Goto, StoreTypeOK, LogTypeOK
<1>3. ASSUME Step(c)
      PROVE  FALSE
  <2>1. CASE Add(c)
    BY <1>0, <2>1 DEF Add, AddCommand, LogTypeOK
  <2>2. CASE Ask(c) \/ Apply(c) \/ Unlock(c) \/ Lookup(c) \/ Return(c)
    BY <1>0, <2>2 DEF Ask, Apply, Unlock, Lookup, Return, Goto, StoreTypeOK
  <2> QED
    BY <1>3, <2>1, <2>2 DEF Step
<1>4. ASSUME NEW x \in Reader, NEW n \in Replica, Begin(x, n)
      PROVE  pc[c] = "wait" /\ answer[c] = "persisted" /\ at'[c] = at[c] /\ restarts' = restarts
  BY <1>0, <1>4 DEF Begin, Goto, Start, logVars, mainVars, StoreTypeOK
<1>5. ASSUME NEW d \in Command, TakeIn(d)
      PROVE  pc[c] = "wait" /\ answer[c] = "persisted" /\ at'[c] = at[c] /\ restarts' = restarts
  BY <1>5 DEF TakeIn, Order, callVars, mainVars
<1>6. ASSUME NEW n \in Replica, TickOf(n)
      PROVE  (c \in UpTo(commit[at[c]]))'
  <2>1. PICK k \in 0 .. Len(order), S \in SUBSET CallsAt(n) : Tick(n, k, S)
    BY <1>6 DEF TickOf
  <2>2. /\ commit' = [commit EXCEPT ![n] = k] /\ S \subseteq UpTo(k)
        /\ answer' = Answered(S, "persisted") /\ UNCHANGED <<order, pc, at>>
    BY <1>6, <2>1 DEF TickOf, Tick, Learn, callVars
  <2>3. CASE c \in S
    <3>1. at[c] = n /\ c \in UpTo(k) /\ n \in Replica
      BY <2>1, <2>2, <2>3 DEF CallsAt
    <3>2. commit'[n] = k
      BY <1>0, <2>2 DEF LogTypeOK
    <3> QED
      BY <2>2, <3>1, <3>2 DEF UpTo
  <2>4. CASE c \notin S
    <3>1. answer[c] = "persisted" /\ pc[c] = "wait" /\ at'[c] = at[c]
      BY <2>2, <2>4 DEF Answered
    <3>2. restarts' = restarts
      BY <1>6 DEF TickOf, mainVars
    <3> QED
      BY <1>1, <3>1, <3>2
  <2> QED
    BY <2>3, <2>4
<1>7. ASSUME NEW n \in Replica, NEW l \in Replica, HearFrom(n, l)
      PROVE  pc[c] = "wait" /\ answer[c] = "persisted" /\ at'[c] = at[c] /\ restarts' = restarts
  <2>1. PICK S \in SUBSET CallsAt(n) : answer' = Answered(S, l)
    BY <1>7 DEF HearFrom, Hear
  <2>2. l # "persisted" /\ UNCHANGED <<pc, at, restarts>>
    BY <1>7, CallAssumption DEF HearFrom, callVars, mainVars
  <2> QED
    BY <2>1, <2>2 DEF Answered
<1>8. ASSUME NEW n \in Replica, Crash(n)
      PROVE  pc[c] = "wait" /\ answer[c] = "persisted" /\ at'[c] = at[c] /\ at[c] # n
  <2>1. /\ pc' = [x \in Reader |-> IF x \in InProgress /\ at[x] = n THEN "lost" ELSE pc[x]]
        /\ at' = at /\ answer' = Answered(Waiting \cap CallsAt(n), "broken")
    BY <1>8 DEF Crash, Restart
  <2>2. pc[c] = "wait" /\ ~(c \in InProgress /\ at[c] = n)
    BY <1>0, <2>1
  <2> QED
    BY <1>0, <2>1, <2>2 DEF Answered, InProgress
<1>9. ASSUME NEW n \in Replica, Stop(n)
      PROVE  pc[c] = "wait" /\ answer[c] = "persisted" /\ at'[c] = at[c] /\ restarts' = restarts
  BY <1>9 DEF Stop, logVars, callVars
<1>10. ASSUME NEW x \in Reader, Step(x)
       PROVE  (c \in UpTo(commit[at[c]]))'
  BY <1>1, <1>2, <1>3, <1>10
<1>11. ASSUME NEW n \in Replica, TickOf(n) \/ Stop(n) \/ Crash(n) \/ \E l \in Replica : HearFrom(n, l)
       PROVE  (c \in UpTo(commit[at[c]]))'
  BY <1>1, <1>6, <1>7, <1>8, <1>9, <1>11
<1>12. UNCHANGED vars => (c \in UpTo(commit[at[c]]))'
  BY <1>1 DEF vars, logVars, callVars, mainVars
<1> QED
  BY <1>1, <1>4, <1>5, <1>10, <1>11, <1>12 DEF StoreNext

\* Every step keeps SeenKnown: a Read shows what has been applied, a Write that is
\* told so shows its own command, at the place where it is known to be persistent,
\* and only a restart takes away from what a worker knows.
LEMMA SeenStep ==
  ASSUME StoreInv, Distinct, PersistedKnown, SeenKnown, [StoreNext]_vars
  PROVE  SeenKnown'
<1> SUFFICES ASSUME NEW p \in Replica, ~ (p \in Restarting /\ restarts' > 0)
             PROVE  seen'[p] <= commit'[p]
  <2>1. seen' \in [Replica -> Nat] /\ commit' \in [Replica -> Nat]
    BY StoreInvNext DEF StoreInv, TypeInv, StoreTypeOK, LogTypeOK
  <2> QED
    BY <2>1 DEF SeenKnown
<1>0. /\ StoreTypeOK /\ seen \in [Replica -> Nat] /\ commit \in [Replica -> Nat]
      /\ Len(order) \in Nat /\ DOMAIN order = 1 .. Len(order)
      /\ commit[p] <= Len(order) /\ restarts \in Nat
  BY DEF StoreInv, TypeInv, StoreTypeOK, LogTypeOK, StorageIsApplied
<1>1. restarts' = restarts => seen[p] <= commit[p]
  BY <1>0 DEF SeenKnown
<1>2. ASSUME seen'[p] = seen[p], restarts' = restarts PROVE seen'[p] <= commit'[p]
  <2>1. commit[p] <= commit'[p] /\ commit'[p] \in Nat
    BY <1>2, CommitGrows
  <2> QED
    BY <1>0, <1>1, <1>2, <2>1
<1>3. ASSUME NEW x \in Reader, Lookup(x) PROVE seen'[p] <= commit'[p]
  <2>1. /\ seen' = [seen EXCEPT ![at[x]] = Max2(@, last_persisted_id[at[x]])]
        /\ commit' = commit /\ restarts' = restarts
    BY <1>3 DEF Lookup, logVars, mainVars
  <2>2. last_persisted_id[p] \in Nat /\ last_persisted_id[p] <= commit[p]
    BY <1>0 DEF StoreInv, StorageIsApplied, StoreTypeOK
  <2>3. Max2(seen[p], last_persisted_id[p]) <= commit[p]
    BY <1>1, <2>1, <2>2 DEF Max2
  <2> QED
    BY <1>0, <1>1, <2>1, <2>3
<1>4. ASSUME NEW x \in Reader, Return(x) PROVE seen'[p] <= commit'[p]
  <2> DEFINE i == CHOOSE j \in DOMAIN order : order[j] = x
  <2>1. /\ commit' = commit /\ restarts' = restarts
        /\ seen' = IF answer[x] # "persisted" THEN seen ELSE [seen EXCEPT ![at[x]] = Max2(@, i)]
    BY <1>4 DEF Return, logVars, mainVars
  <2>2. CASE answer[x] # "persisted" \/ at[x] # p
    BY <1>0, <1>1, <2>1, <2>2
  <2>3. CASE answer[x] = "persisted" /\ at[x] = p
    <3>1. x \in UpTo(commit[p])
      BY <1>4, <2>3 DEF Return, StoreInv, TypeInv, Placed, PersistedKnown
    <3>2. PICK j \in 1 .. commit[p] : order[j] = x
      BY <3>1 DEF UpTo
    <3>3. j \in DOMAIN order
      BY <1>0, <3>2
    <3>4. i \in DOMAIN order /\ order[i] = x
      BY <3>2, <3>3
    <3>5. i = j
      BY <3>2, <3>3, <3>4 DEF Distinct
    <3> HIDE DEF i
    <3>6. Max2(seen[p], i) <= commit[p]
      BY <1>0, <1>1, <2>1, <3>2, <3>5 DEF Max2
    <3> QED
      BY <1>0, <2>1, <2>3, <3>6
  <2> QED
    BY <2>2, <2>3
<1>5. ASSUME NEW n \in Replica, Crash(n) PROVE seen'[p] <= commit'[p]
  <2>1. restarts' = restarts + 1 /\ restarts' > 0
    BY <1>0, <1>5 DEF Crash
  <2>2. /\ n \in Restarting /\ n # p /\ seen' = seen
        /\ commit' = [commit EXCEPT ![n] = 0]
    BY <1>5, <2>1 DEF Crash, Restart
  <2>3. seen[p] <= commit[p]
    BY <1>0, <2>1 DEF SeenKnown
  <2> QED
    BY <1>0, <2>2, <2>3
<1>6. ASSUME NEW x \in Reader, Ask(x) \/ Apply(x) \/ Unlock(x) \/ Add(x)
      PROVE  seen' = seen /\ restarts' = restarts
  BY <1>6 DEF Ask, Apply, Unlock, Add, mainVars
<1>7. ASSUME NEW n \in Replica,
             \/ TickOf(n) \/ Stop(n) \/ \E l \in Replica : HearFrom(n, l)
             \/ \E x \in Reader : Begin(x, n)
      PROVE  seen' = seen /\ restarts' = restarts
  BY <1>7 DEF TickOf, Stop, HearFrom, Begin, mainVars
<1>8. ASSUME NEW c \in Command, TakeIn(c) PROVE seen' = seen /\ restarts' = restarts
  BY <1>8 DEF TakeIn, mainVars
<1>9. UNCHANGED vars => seen' = seen /\ restarts' = restarts
  BY DEF vars, mainVars
<1> QED
  BY <1>2, <1>3, <1>4, <1>5, <1>6, <1>7, <1>8, <1>9 DEF StoreNext, Step
-----------------------------------------------------------------------------
(***************************************************************************)
(* What a worker knew has been applied when a key is looked up.            *)
(***************************************************************************)
\* The types of what the lemmas below are about.
LEMMA TypesOf ==
  ASSUME StoreInv, NEW y \in Reader
  PROVE  /\ StoreTypeOK /\ LogTypeOK /\ floor[y] \in Nat /\ Len(order) \in Nat
         /\ pc[y] # "new" => at[y] \in Replica
         /\ commit \in [Replica -> Nat] /\ last_persisted_id \in [Replica -> Nat]
<1>1. StoreTypeOK /\ LogTypeOK /\ Placed
  BY DEF StoreInv, TypeInv, StoreTypeOK
<1>2. floor[y] \in Nat /\ last_persisted_id \in [Replica -> Nat]
  BY <1>1 DEF StoreTypeOK
<1>3. Len(order) \in Nat /\ commit \in [Replica -> Nat]
  BY <1>1 DEF LogTypeOK
<1> QED
  BY <1>1, <1>2, <1>3 DEF Placed

\* FloorOK(x) lasts while x is left alone and its worker forgets nothing.
LEMMA FloorKept ==
  ASSUME StoreInv, NEW x \in Reader, FloorOK(x), Len(order) \in Nat, Len(order') \in Nat,
         Len(order) <= Len(order'),
         pc'[x] = pc[x], at'[x] = at[x], query'[x] = query[x], reply'[x] = reply[x],
         floor'[x] = floor[x],
         pc[x] \in {"actualize", "ask"} => commit[at[x]] <= commit'[at[x]] /\ commit'[at[x]] \in Nat,
         pc[x] = "lookup" => /\ last_persisted_id[at[x]] <= last_persisted_id'[at[x]]
                             /\ last_persisted_id'[at[x]] \in Nat
  PROVE  FloorOK(x)'
<1>1. /\ floor[x] \in Nat
      /\ pc[x] # "new" => at[x] \in Replica
      /\ \A n \in Replica : commit[n] \in Nat /\ last_persisted_id[n] \in Nat
  BY DEF StoreInv, TypeInv, StoreTypeOK, LogTypeOK, Placed
<1>2. Short' => Short
  BY DEF Short, BatchSize
<1>3. CASE pc[x] \in {"actualize", "ask"}
  <2>1. floor[x] <= commit'[at[x]]
    BY <1>1, <1>3 DEF FloorOK
  <2> QED
    BY <1>2, <1>3, <2>1 DEF FloorOK
<1>4. CASE pc[x] = "lookup"
  <2>1. Short => floor[x] <= last_persisted_id'[at[x]]
    BY <1>1, <1>4 DEF FloorOK
  <2> QED
    BY <1>2, <1>4, <2>1 DEF FloorOK
<1>5. CASE pc[x] \notin {"actualize", "ask", "lookup"}
  BY <1>5 DEF FloorOK
<1> QED
  BY <1>3, <1>4, <1>5

\* The steps of a handler x keep FloorOK of every handler.
LEMMA FloorCalls ==
  ASSUME StoreInv, Distinct, FloorKnown, NEW x \in Reader, Step(x), NEW y \in Reader
  PROVE  FloorOK(y)'
<1>0. /\ StoreTypeOK /\ LogTypeOK /\ FloorOK(y) /\ HandlerOK(x) /\ floor[y] \in Nat
      /\ pc[y] # "new" => at[y] \in Replica
      /\ Len(order) \in Nat /\ commit \in [Replica -> Nat] /\ last_persisted_id \in [Replica -> Nat]
  BY TypesOf DEF FloorKnown, StoreInv, Handlers
<1>1. at[x] \in Replica /\ pc[x] # "new"
  BY DEF Step, Ask, Apply, Unlock, Lookup, Add, Return, StoreInv, TypeInv, Placed
<1>2. UNCHANGED <<order, commit, reply, at, floor>>
  BY DEF Step, Ask, Apply, Unlock, Lookup, Add, Return, GetPersistentCommands, AddCommand, logVars
<1>3. \A n \in Replica : /\ last_persisted_id[n] <= last_persisted_id'[n]
                         /\ last_persisted_id'[n] \in Nat
  <2>1. CASE Apply(x)
    BY <1>0, <1>1, <2>1 DEF Apply
  <2>2. CASE UNCHANGED last_persisted_id
    BY <1>0, <2>2
  <2>3. Apply(x) \/ UNCHANGED last_persisted_id
    BY DEF Step, Ask, Unlock, Lookup, Add, Return, storeVars
  <2> QED
    BY <2>1, <2>2, <2>3
<1>4. CASE y # x
  <2>1. pc'[y] = pc[y] /\ query'[y] = query[y]
    BY <1>0, <1>4 DEF Step, Ask, Apply, Unlock, Lookup, Add, Return, Goto, GetPersistentCommands,
                      AddCommand, logVars, StoreTypeOK, LogTypeOK
  <2>2. /\ Len(order') \in Nat /\ Len(order) <= Len(order')
        /\ reply'[y] = reply[y] /\ at'[y] = at[y] /\ floor'[y] = floor[y]
    BY <1>0, <1>2
  <2>3. /\ pc[y] \in {"actualize", "ask"} => /\ commit[at[y]] <= commit'[at[y]]
                                             /\ commit'[at[y]] \in Nat
        /\ pc[y] = "lookup" => /\ last_persisted_id[at[y]] <= last_persisted_id'[at[y]]
                               /\ last_persisted_id'[at[y]] \in Nat
    BY <1>0, <1>2, <1>3
  <2> QED
    BY <1>0, <2>1, <2>2, <2>3, FloorKept
<1>5. CASE y = x /\ Ask(x)
  <2>1. pc[x] = "actualize" /\ pc'[x] = "ask" /\ reply[x] = None
    BY <1>0, <1>5 DEF Ask, Goto, StoreTypeOK, HandlerOK
  <2> QED
    BY <1>0, <1>2, <1>5, <2>1 DEF FloorOK
<1>6. CASE y = x /\ Apply(x)
  <2>1. pc[x] = "ask" /\ pc' = pc /\ query' = query
    BY <1>6 DEF Apply, logVars
  <2> QED
    BY <1>0, <1>2, <1>6, <2>1 DEF FloorOK, Short
<1>7. CASE y = x /\ Unlock(x)
  <2>1. /\ pc[x] = "ask" /\ reply[x] # None /\ handled[x] = Len(reply[x])
        /\ pc'[x] \in {"add", "lookup"} /\ last_persisted_id' = last_persisted_id
    BY <1>0, <1>7 DEF Unlock, Goto, StoreTypeOK
  <2>2. query[x].from + handled[x] = last_persisted_id[at[x]] + 1
    BY <1>0, <2>1 DEF HandlerOK, HasAsked
  <2>3. Short => floor[x] + 1 <= query[x].from + Len(reply[x])
    BY <1>0, <1>7, <2>1 DEF FloorOK
  <2>4. Short => floor[x] <= last_persisted_id[at[x]]
    BY <1>0, <1>1, <1>7, <2>1, <2>2, <2>3
  <2> QED
    BY <1>2, <1>7, <2>1, <2>4 DEF FloorOK, Short
<1>8. CASE y = x /\ (Lookup(x) \/ Add(x) \/ Return(x))
  <2>1. pc'[x] \in {"wait", "done"}
    BY <1>0, <1>8 DEF Lookup, Add, Return, Goto, StoreTypeOK
  <2> QED
    BY <1>8, <2>1 DEF FloorOK
<1> QED
  BY <1>4, <1>5, <1>6, <1>7, <1>8 DEF Step

\* The other steps keep it too.  Begin notes what the worker knows; the answer to a
\* read reaches up to what the worker knew.
LEMMA FloorOthers ==
  ASSUME StoreInv, Distinct, FloorKnown, [StoreNext]_vars,
         \/ \E x \in Reader, n \in Replica : Begin(x, n)
         \/ \E c \in Command : TakeIn(c)
         \/ \E n \in Replica : TickOf(n) \/ Stop(n) \/ Crash(n) \/ \E l \in Replica : HearFrom(n, l)
         \/ UNCHANGED vars,
         NEW y \in Reader
  PROVE  FloorOK(y)'
<1>0. /\ StoreTypeOK /\ LogTypeOK /\ FloorOK(y) /\ HandlerOK(y) /\ floor[y] \in Nat
      /\ pc[y] # "new" => at[y] \in Replica
      /\ Len(order) \in Nat /\ commit \in [Replica -> Nat] /\ last_persisted_id \in [Replica -> Nat]
  BY TypesOf DEF FloorKnown, StoreInv, Handlers
\* y is left alone by a step in which nobody dies, or somebody else does.
<1>1. ASSUME pc'[y] = pc[y], at'[y] = at[y], query'[y] = query[y], reply'[y] = reply[y],
             floor'[y] = floor[y],
             pc[y] = "lookup" => last_persisted_id'[at[y]] = last_persisted_id[at[y]],
             \/ restarts' = restarts
             \/ \E n \in Replica : Crash(n) /\ (pc[y] \in {"actualize", "ask"} => n # at[y])
      PROVE  FloorOK(y)'
  <2>1. Len(order') \in Nat /\ Len(order) <= Len(order')
    BY OrderGrows
  <2>2. ASSUME pc[y] \in {"actualize", "ask"}
        PROVE  commit[at[y]] <= commit'[at[y]] /\ commit'[at[y]] \in Nat
    <3>1. at[y] \in Replica /\ (restarts' = restarts \/ \E n \in Replica \ {at[y]} : Crash(n))
      BY <1>0, <1>1, <2>2
    <3> QED
      BY <3>1, CommitGrows
  <2>3. ASSUME pc[y] = "lookup"
        PROVE  /\ last_persisted_id[at[y]] <= last_persisted_id'[at[y]]
               /\ last_persisted_id'[at[y]] \in Nat
    BY <1>0, <1>1, <2>3
  <2> QED
    BY <1>0, <1>1, <2>1, <2>2, <2>3, FloorKept
<1>2. ASSUME NEW x \in Reader, NEW n \in Replica, Begin(x, n) PROVE FloorOK(y)'
  <2>1. /\ pc' = [pc EXCEPT ![x] = "actualize"] /\ at' = [at EXCEPT ![x] = n]
        /\ floor' = [floor EXCEPT ![x] = commit[n]]
        /\ UNCHANGED <<commit, query, reply, last_persisted_id, restarts>>
    BY <1>2 DEF Begin, Goto, Start, logVars, storeVars, mainVars
  <2>2. CASE y # x
    <3>1. pc'[y] = pc[y] /\ at'[y] = at[y] /\ floor'[y] = floor[y]
      BY <1>0, <2>1, <2>2 DEF StoreTypeOK
    <3> QED
      BY <1>1, <2>1, <3>1
  <2>3. CASE y = x
    <3>1. pc'[y] = "actualize" /\ at'[y] = n /\ floor'[y] = commit[n]
      BY <1>0, <2>1, <2>3 DEF StoreTypeOK
    <3>2. commit[n] <= commit'[n]
      BY <1>0, <2>1
    <3> QED
      BY <3>1, <3>2 DEF FloorOK
  <2> QED
    BY <2>2, <2>3
<1>3. ASSUME NEW n \in Replica, TickOf(n) PROVE FloorOK(y)'
  <2>1. /\ reply' = [x \in Reader |-> IF Asking(x) /\ query[x].node = n
                                      THEN PersistentCommands(n, query[x]) ELSE reply[x]]
        /\ UNCHANGED <<order, query, last_persisted_id, pc, at, floor, restarts>>
    BY <1>3 DEF TickOf, Tick, storeVars, callVars, mainVars
  <2>2. CASE reply'[y] = reply[y]
    BY <1>1, <2>1, <2>2
  <2>3. CASE reply'[y] # reply[y] /\ pc[y] = "ask"
    <3> DEFINE from == query[y].from
               last == IF from + query[y].count - 1 <= commit[n] THEN from + query[y].count - 1
                                                                 ELSE commit[n]
               r == PersistentCommands(n, query[y])
    <3>1. Asking(y) /\ query[y].node = n /\ reply'[y] = r
      BY <2>1, <2>3
    <3>2. /\ HasAsked(y) /\ at[y] = n /\ from > 0 /\ query[y].count = BatchSize
      BY <1>0, <2>3, <3>1 DEF HandlerOK, HasAsked
    <3>3. Len(r) = IF from <= last THEN last - from + 1 ELSE 0
      BY <3>2, ReadOfOrder DEF StoreInv, TypeInv
    <3>4. /\ from \in Nat /\ commit[n] \in Nat /\ commit[n] <= Len(order)
          /\ floor[y] <= commit[n]
      BY <1>0, <2>3, <3>2 DEF LogTypeOK, StoreInv, StorageIsApplied, FloorOK
    <3>5. commit[n] <= commit'[n] /\ commit'[n] \in Nat
      BY <2>1, CommitGrows
    <3>6. Short => last = commit[n]
      BY <1>0, <3>2, <3>4 DEF Short, BatchSize
    <3> HIDE DEF r, last
    <3>7. Short => floor[y] + 1 <= from + Len(r)
      <4>1. \A f, l, k \in Nat : k <= l => k + 1 <= f + IF f <= l THEN l - f + 1 ELSE 0
        OBVIOUS
      <4>2. ASSUME Short PROVE Len(r) = IF from <= commit[n] THEN commit[n] - from + 1 ELSE 0
        BY <3>3, <3>6, <4>2
      <4> QED
        BY <1>0, <3>4, <4>1, <4>2
    <3>8. floor[y] <= commit'[n]
      BY <1>0, <3>4, <3>5
    <3> QED
      BY <2>1, <2>3, <3>1, <3>2, <3>7, <3>8 DEF FloorOK, Short
  <2>4. CASE reply'[y] # reply[y] /\ pc[y] # "ask"
    <3>1. /\ pc[y] \in {"actualize", "ask"} => /\ at[y] \in Replica
                                              /\ commit[at[y]] <= commit'[at[y]]
                                              /\ commit'[at[y]] \in Nat
      BY <1>0, <2>1, CommitGrows
    <3>2. pc[y] = "actualize" => floor[y] <= commit'[at[y]]
      BY <1>0, <3>1 DEF FloorOK
    <3> QED
      BY <1>0, <2>1, <2>4, <3>2 DEF FloorOK, Short
  <2> QED
    BY <2>2, <2>3, <2>4
<1>4. ASSUME NEW n \in Replica, Crash(n) PROVE FloorOK(y)'
  <2>1. /\ last_persisted_id' = [last_persisted_id EXCEPT ![n] = 0]
        /\ pc' = [x \in Reader |-> IF x \in InProgress /\ at[x] = n THEN "lost" ELSE pc[x]]
        /\ query' = [x \in Reader |-> IF Asking(x) /\ query[x].node = n THEN NotAsked ELSE query[x]]
        /\ UNCHANGED <<reply, at, floor>>
    BY <1>4 DEF Crash, Restart
  <2>2. CASE pc'[y] \notin {"actualize", "ask", "lookup"}
    BY <2>2 DEF FloorOK
  <2>3. CASE pc'[y] = "lookup"
    <3>1. pc[y] = "lookup" /\ at[y] # n
      BY <2>1, <2>3 DEF InProgress
    <3>2. last_persisted_id'[at[y]] = last_persisted_id[at[y]]
      BY <1>0, <2>1, <3>1
    <3>3. Short' => Short
      BY OrderGrows DEF Short, BatchSize
    <3> QED
      BY <1>0, <2>1, <2>3, <3>1, <3>2, <3>3 DEF FloorOK
  <2>4. CASE pc'[y] \in {"actualize", "ask"}
    <3>1. pc'[y] = pc[y] /\ at[y] # n
      BY <2>1, <2>4 DEF InProgress
    <3>2. query[y].node # n
      BY <1>0, <2>4, <3>1, CallAssumption DEF HandlerOK, HasAsked
    <3>3. query'[y] = query[y]
      BY <2>1, <3>2
    <3> QED
      BY <1>1, <1>4, <2>1, <2>4, <3>1, <3>3
  <2> QED
    BY <2>2, <2>3, <2>4
<1>5. ASSUME NEW n \in Replica, Stop(n) \/ \E l \in Replica : HearFrom(n, l) PROVE FloorOK(y)'
  <2>1. UNCHANGED <<query, reply, last_persisted_id, pc, at, floor, restarts>>
    BY <1>5 DEF Stop, HearFrom, Hear, logVars, storeVars, callVars, mainVars
  <2> QED
    BY <1>1, <2>1
<1>6. ASSUME NEW c \in Command, TakeIn(c) PROVE FloorOK(y)'
  <2>1. UNCHANGED <<query, reply, last_persisted_id, pc, at, floor, restarts>>
    BY <1>6 DEF TakeIn, Order, storeVars, callVars, mainVars
  <2> QED
    BY <1>1, <2>1
<1>7. UNCHANGED vars => FloorOK(y)'
  BY <1>1 DEF vars, logVars, storeVars, callVars, mainVars
<1> QED
  BY <1>2, <1>3, <1>4, <1>5, <1>6, <1>7
-----------------------------------------------------------------------------
(***************************************************************************)
(* What a Read returns.                                                    *)
(***************************************************************************)
\* All that has been written so far is names of one word.
Plain == \A i \in DOMAIN order : OneWord(Request[order[i]].key) /\ OneWord(Request[order[i]].value)

\* What the storage has for a key is what a map would have after the commands that
\* have been applied.
LEMMA GetHolds ==
  ASSUME StoreInv, Plain, NEW n \in Replica, NEW k
  PROVE  Holds(last_persisted_id[n], Request, k, Get(storage[n], k))
<1> DEFINE applied == last_persisted_id[n]
<1>1. /\ order \in Seq(Command) /\ applied \in Nat /\ applied <= Len(order) /\ Len(order) \in Nat
      /\ DOMAIN order = 1 .. Len(order)
  BY DEF StoreInv, TypeInv, StoreTypeOK, LogTypeOK, StorageIsApplied
<1>2. /\ DOMAIN storage[n] = {Decoded[order[i]].key : i \in 1 .. applied}
      /\ \A a \in DOMAIN storage[n] : Holds(applied, Decoded, a, storage[n][a])
  BY DEF StoreInv, StorageIsApplied
<1> HIDE DEF applied
<1>3. \A i \in 1 .. applied : /\ Decoded[order[i]].key = Request[order[i]].key
                              /\ Decoded[order[i]].value = Request[order[i]].value
  <2>1. ASSUME NEW i \in 1 .. applied
        PROVE  /\ order[i] \in Command
               /\ OneWord(Request[order[i]].key) /\ OneWord(Request[order[i]].value)
    BY <1>1 DEF Plain
  <2> QED
    BY <2>1, RoundTrip
<1>4. CASE k \in DOMAIN storage[n]
  <2>1. Holds(applied, Decoded, k, storage[n][k]) /\ Get(storage[n], k) = storage[n][k]
    BY <1>2, <1>4 DEF Get
  <2>2. ASSUME NEW i \in 1 .. applied, LastWrite(i, applied, Decoded, k)
        PROVE  LastWrite(i, applied, Request, k)
    <3>1. \A j \in i + 1 .. applied : j \in 1 .. applied
      BY <1>1
    <3> QED
      BY <1>3, <2>2, <3>1 DEF LastWrite
  <2> QED
    BY <1>3, <2>1, <2>2 DEF Holds, applied
<1>5. CASE k \notin DOMAIN storage[n]
  <2>1. \A i \in 1 .. applied : Request[order[i]].key # k
    BY <1>2, <1>3, <1>5
  <2> QED
    BY <1>5, <2>1 DEF Holds, Get, applied
<1> QED
  BY <1>4, <1>5

\* What held after some commands holds after them when there are more.
LEMMA HoldsLater ==
  ASSUME NEW m \in Nat, m <= Len(order), Len(order) \in Nat,
         \A i \in 1 .. Len(order) : order'[i] = order[i],
         NEW k, NEW v, Holds(m, Request, k, v)
  PROVE  \/ \E i \in 1 .. m : /\ Request[order'[i]].key = k /\ Request[order'[i]].value = v
                              /\ \A j \in i + 1 .. m : Request[order'[j]].key # k
         \/ v = << >> /\ \A i \in 1 .. m : Request[order'[i]].key # k
<1>1. \A i \in 1 .. m : order'[i] = order[i]
  OBVIOUS
<1>2. \A i \in 1 .. m : \A j \in i + 1 .. m : order'[j] = order[j]
  BY <1>1
<1> QED
  BY <1>1, <1>2 DEF Holds, LastWrite

\* Every step keeps SessionReads.
LEMMA ReadsStep ==
  ASSUME StoreInv, Distinct, PersistedKnown, FloorKnown, SessionReads, [StoreNext]_vars
  PROVE  SessionReads'
<1> SUFFICES ASSUME Plain', Short', NEW x \in Reader \ Command, pc'[x] = "done"
             PROVE  \E i \in floor'[x] .. Len(order') :
                        Holds(i, Request, Request[x].key, result[x])'
  BY SeenStep DEF SessionReads, Plain, Short
<1> DEFINE k == Request[x].key
<1>0. /\ StoreTypeOK /\ Len(order) \in Nat /\ DOMAIN order = 1 .. Len(order) /\ floor[x] \in Nat
      /\ Len(order') \in Nat /\ Len(order) <= Len(order')
      /\ \A i \in 1 .. Len(order) : order'[i] = order[i]
      /\ DOMAIN order' = 1 .. Len(order')
  <2>1. StoreTypeOK /\ order \in Seq(Command) /\ order' \in Seq(Command) /\ floor[x] \in Nat
    BY StoreInvNext DEF StoreInv, TypeInv, StoreTypeOK, LogTypeOK
  <2> QED
    BY <2>1, OrderGrows
<1>1. Short /\ Plain
  <2>1. \A i \in DOMAIN order : i \in DOMAIN order' /\ order'[i] = order[i]
    BY <1>0
  <2> QED
    BY <1>0, <2>1 DEF Short, Plain, BatchSize
<1>2. ASSUME pc[x] = "done", floor'[x] = floor[x], result'[x] = result[x]
      PROVE  \E i \in floor'[x] .. Len(order') : Holds(i, Request, k, result[x])'
  <2>1. PICK i \in floor[x] .. Len(order) : Holds(i, Request, k, result[x])
    BY <1>1, <1>2 DEF SessionReads, Short, Plain
  <2>2. i \in Nat /\ i <= Len(order) /\ i \in floor'[x] .. Len(order')
    BY <1>0, <1>2, <2>1
  <2>3. Holds(i, Request, k, result[x])'
    <3> DEFINE v == result[x]
    <3> HIDE DEF k, v
    <3>1. Holds(i, Request, k, v)
      BY <2>1 DEF v
    <3>2. \/ \E j \in 1 .. i : /\ Request[order'[j]].key = k /\ Request[order'[j]].value = v
                              /\ \A h \in j + 1 .. i : Request[order'[h]].key # k
          \/ v = << >> /\ \A j \in 1 .. i : Request[order'[j]].key # k
      BY <1>0, <2>2, <3>1, HoldsLater
    <3>3. result'[x] = v
      BY <1>2 DEF v
    <3> QED
      BY <3>2, <3>3 DEF Holds, LastWrite, k
  <2> QED
    BY <2>2, <2>3
<1>3. ASSUME Lookup(x)
      PROVE  \E i \in floor'[x] .. Len(order') : Holds(i, Request, k, result[x])'
  <2> DEFINE n == at[x]
             applied == last_persisted_id[n]
  <2>1. /\ pc[x] = "lookup" /\ result' = [result EXCEPT ![x] = Get(storage[n], k)]
        /\ UNCHANGED <<order, floor>>
    BY <1>3 DEF Lookup, logVars
  <2>2. n \in Replica
    BY <2>1 DEF StoreInv, TypeInv, Placed
  <2>3. floor[x] <= applied /\ applied \in Nat /\ applied <= Len(order)
    <3>1. floor[x] <= applied
      BY <1>1, <2>1 DEF FloorKnown, FloorOK
    <3>2. applied \in Nat /\ commit[n] \in Nat
      BY <2>2 DEF StoreInv, TypeInv, StoreTypeOK, LogTypeOK
    <3>3. applied <= commit[n] /\ commit[n] <= Len(order)
      BY <2>2 DEF StoreInv, StorageIsApplied
    <3> QED
      BY <1>0, <3>1, <3>2, <3>3
  <2>4. Holds(applied, Request, k, Get(storage[n], k))
    BY <1>1, <2>2, GetHolds
  <2>5. result'[x] = Get(storage[n], k)
    BY <1>0, <2>1 DEF StoreTypeOK
  <2> HIDE DEF applied, n
  <2>6. Holds(applied, Request, k, result'[x])
    BY <2>4, <2>5
  <2>7. applied \in floor'[x] .. Len(order')
    BY <1>0, <2>1, <2>3
  <2>8. \A m : Holds(m, Request, k, result'[x]) => \E i \in {m} : Holds(i, Request, k, result[x])'
    BY <2>1 DEF Holds, LastWrite
  <2> QED
    BY <2>6, <2>7, <2>8
<1>4. ASSUME NEW y \in Reader, Step(y), ~(y = x /\ Lookup(x))
      PROVE  pc[x] = "done" /\ floor'[x] = floor[x] /\ result'[x] = result[x]
  <2>1. CASE y = x
    <3>1. CASE Ask(x) \/ Unlock(x) \/ Apply(x)
      BY <1>0, <3>1 DEF Ask, Unlock, Apply, Goto, StoreTypeOK
    <3>2. CASE Add(x) \/ Return(x)
      BY <3>2 DEF Add, Return, StoreInv, TypeInv, Placed
    <3> QED
      BY <1>4, <2>1, <3>1, <3>2 DEF Step
  <2>2. CASE y # x
    BY <1>0, <1>4, <2>2 DEF Step, Ask, Apply, Unlock, Lookup, Add, Return, Goto, StoreTypeOK
  <2> QED
    BY <2>1, <2>2
<1>5. ASSUME NEW y \in Reader, NEW n \in Replica, Begin(y, n)
      PROVE  pc[x] = "done" /\ floor'[x] = floor[x] /\ result'[x] = result[x]
  BY <1>0, <1>5 DEF Begin, Goto, Start, StoreTypeOK
<1>6. ASSUME NEW n \in Replica,
             TickOf(n) \/ Stop(n) \/ Crash(n) \/ \E l \in Replica : HearFrom(n, l)
      PROVE  pc[x] = "done" /\ floor'[x] = floor[x] /\ result'[x] = result[x]
  BY <1>6 DEF TickOf, HearFrom, Stop, Crash, callVars
<1>7. ASSUME NEW c \in Command, TakeIn(c)
      PROVE  pc[x] = "done" /\ floor'[x] = floor[x] /\ result'[x] = result[x]
  BY <1>7 DEF TakeIn, callVars
<1>8. UNCHANGED vars => pc[x] = "done" /\ floor'[x] = floor[x] /\ result'[x] = result[x]
  BY DEF vars, callVars
<1> QED
  BY <1>2, <1>3, <1>4, <1>5, <1>6, <1>7, <1>8 DEF StoreNext

\* However handlers, ticks, stops and restarts interleave: each Read that has returned
\* gave the value its key had at a point of the order not before anything its worker
\* knew to be persistent when the Read began; and a worker knows all that it has
\* confirmed or shown to clients, but for one that has restarted and not caught up.
THEOREM SessionReadsHold == StoreSpec => []SessionReads
<1>1. StoreInit => SessionInv
  <2> SUFFICES ASSUME StoreInit PROVE SessionInv
    OBVIOUS
  <2>1. Distinct /\ PersistedKnown /\ FloorKnown /\ SessionReads
    BY CallAssumption DEF StoreInit, Init, Distinct, PersistedKnown, SeenKnown, FloorKnown, FloorOK,
       SessionReads, SeenKnown
  <2> QED
    BY <2>1, StoreInvInit DEF SessionInv
<1>2. SessionInv /\ [StoreNext]_vars => SessionInv'
  <2> SUFFICES ASSUME SessionInv, [StoreNext]_vars PROVE SessionInv'
    OBVIOUS
  <2>1. StoreInv' /\ Distinct'
    BY StoreInvNext, OrderGrows DEF SessionInv
  <2>2. PersistedKnown' /\ SessionReads'
    BY PersistedStep, ReadsStep DEF SessionInv
  <2>3. FloorKnown'
    <3> SUFFICES ASSUME NEW y \in Reader PROVE FloorOK(y)'
      BY DEF FloorKnown
    <3> QED
      BY FloorCalls, FloorOthers DEF SessionInv, StoreNext
  <2> QED
    BY <2>1, <2>2, <2>3 DEF SessionInv
<1>3. SessionInv => SessionReads
  BY DEF SessionInv
<1> QED
  BY <1>1, <1>2, <1>3, PTL DEF StoreSpec
=============================================================================
