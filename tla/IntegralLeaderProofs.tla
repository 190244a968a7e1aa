-------------------------- MODULE IntegralLeaderProofs --------------------------
(***************************************************************************)
(* The books of the leader of hw1: every slice is somewhere, and counted   *)
(* once, as long as nothing disturbs them.                                 *)
(***************************************************************************)
EXTENDS IntegralLeader, FunctionTheorems, FiniteSetTheorems, SequenceTheorems, TLAPS

(***************************************************************************)
(* What holds whatever happens.                                            *)
(***************************************************************************)
\* The workers the leader knows have slots of their own; no other slot is in use,
\* and the leader holds no descriptor but those whose numbers are in slots.
SlotInv ==
    /\ \A v, w \in Known : position[v] = position[w] => v = w
    /\ \A i \in Slot : worker_fds_[i] # 0 <=> \E w \in Known : position[w] = i
    /\ \A f \in Slot : descriptor[f] # 0 => \E i \in Slot : worker_fds_[i] = f
    /\ at # 0 => worker_fds_[at] # 0

TypeInv == IntegralTypeOK /\ SlotInv
-----------------------------------------------------------------------------
(***************************************************************************)
(* What holds until something disturbs the books.                          *)
(***************************************************************************)
\* No two slots hold the same number, no two numbers the same connection.
NumbersInv ==
    /\ \A i, j \in Slot : worker_fds_[i] # 0 /\ worker_fds_[i] = worker_fds_[j] => i = j
    /\ \A f, g \in Slot : descriptor[f] # 0 /\ descriptor[f] = descriptor[g] => f = g

InProgress(t) == t.slice \in tasks_in_progress[t.query]

\* The i-th task of w is t.
Has(w, i, t) == i \in DOMAIN assigned_tasks[w] /\ assigned_tasks[w][i] = t

\* What is in progress is in one place of one list, and nothing else is in a list.
ListsInv == \A t \in Task :
    /\ InProgress(t) => \E w \in Known, i \in Nat : Has(w, i, t)
    /\ \A w \in Worker, i \in Nat : Has(w, i, t) => w \in Known /\ InProgress(t)
    /\ \A v, w \in Worker, i, j \in Nat : Has(v, i, t) /\ Has(w, j, t) => v = w /\ i = j

\* Slices wait only while no worker is known.
WaitInv == \A q \in Query :
    tasks_to_do[q] # {} => Known = {} /\ tasks_in_progress[q] = {}

\* The queries that have not been taken have no slices yet.
FutureInv == \A q \in Query : q > queries_ =>
    tasks_to_do[q] = {} /\ tasks_in_progress[q] = {} /\ sum[q] = Bag({})

\* What is sent is about queries that have been taken, and arrives as it was sent.
MessagesInv == \A c \in Connection :
    /\ \A k \in DOMAIN tasks[c] : tasks[c][k].query <= queries_
    /\ \A k \in DOMAIN results[c] : /\ results[c][k].value.query <= queries_
                                    /\ results[c][k].slice = results[c][k].value.slice

\* The task t is on the connection c, or its result.
OnTheWay(c, t) ==
    \/ \E k \in DOMAIN tasks[c] : tasks[c][k] = t
    \/ \E k \in DOMAIN results[c] : results[c][k].value = t

\* The open connection to a known worker, or 0.
ConnectionTo(w) == descriptor[worker_fds_[position[w]]]

\* On the open connection to a worker there is no task in progress but the first of
\* the worker's tasks.
FirstInv == \A w \in Known, c \in Connection, t \in Task :
    ConnectionTo(w) = c /\ OnTheWay(c, t) /\ InProgress(t) =>
        assigned_tasks[w] # << >> /\ Head(assigned_tasks[w]) = t

\* The result of a query has the values of the slices that neither wait nor are in
\* progress.
SumsInv == \A q \in 1 .. queries_ :
    sum[q] = Bag(Slice \ (tasks_to_do[q] \cup tasks_in_progress[q]))

BooksInv ==
    /\ NumbersInv /\ ListsInv /\ WaitInv /\ FutureInv /\ MessagesInv /\ FirstInv
    /\ SumsInv

IInv == TypeInv /\ (Undisturbed => BooksInv)
-----------------------------------------------------------------------------
(***************************************************************************)
(* Counting.                                                               *)
(***************************************************************************)
\* Each element of S has the set of those up to it, and of two elements one has more.
Orders(upTo, S) ==
    /\ upTo \in [S -> SUBSET S]
    /\ \A x \in S : x \in upTo[x]
    /\ \A x, y \in S : \/ x = y
                      \/ (upTo[x] \subseteq upTo[y] /\ y \notin upTo[x])
                      \/ (upTo[y] \subseteq upTo[x] /\ x \notin upTo[y])

\* Elements that are ordered have different places: 1, 2, and so on.
LEMMA Places ==
  ASSUME NEW S, IsFiniteSet(S), NEW upTo, Orders(upTo, S)
  PROVE  /\ \A x \in S : Cardinality(upTo[x]) \in 1 .. Cardinality(S)
         /\ \A x, y \in S : Cardinality(upTo[x]) = Cardinality(upTo[y]) => x = y
         /\ \A k \in 1 .. Cardinality(S) : \E x \in S : Cardinality(upTo[x]) = k
<1> DEFINE place == [x \in S |-> Cardinality(upTo[x])]
<1>1. Cardinality(S) \in Nat
  BY FS_CardinalityType
<1>2. ASSUME NEW x \in S
      PROVE  /\ IsFiniteSet(upTo[x]) /\ Cardinality(upTo[x]) \in Nat
             /\ Cardinality(upTo[x]) <= Cardinality(S) /\ Cardinality(upTo[x]) # 0
  <2>1. upTo[x] \in SUBSET S /\ upTo[x] # {}
    BY DEF Orders
  <2>2. IsFiniteSet(upTo[x]) /\ Cardinality(upTo[x]) <= Cardinality(S)
    BY <2>1, FS_Subset
  <2>3. QED
    BY <2>1, <2>2, FS_CardinalityType, FS_EmptySet
<1>3. \A x \in S : Cardinality(upTo[x]) \in 1 .. Cardinality(S)
  BY <1>1, <1>2
<1>4. ASSUME NEW x \in S, NEW y \in S, Cardinality(upTo[x]) = Cardinality(upTo[y])
      PROVE  x = y
  <2>1. ASSUME NEW a \in S, NEW b \in S, upTo[a] \subseteq upTo[b], b \notin upTo[a],
               Cardinality(upTo[a]) = Cardinality(upTo[b])
        PROVE  FALSE
    <3>1. upTo[a] = upTo[b]
      BY <1>2, <2>1, FS_Subset
    <3>2. QED
      BY <2>1, <3>1 DEF Orders
  <2>2. QED
    BY <1>4, <2>1 DEF Orders
<1>5. place \in Injection(S, 1 .. Cardinality(S))
  BY <1>3, <1>4 DEF Injection, IsInjective
<1>6. IsFiniteSet(1 .. Cardinality(S)) /\ Cardinality(1 .. Cardinality(S)) = Cardinality(S)
  BY <1>1, FS_Interval
<1>7. place \in Surjection(S, 1 .. Cardinality(S))
  BY <1>5, <1>6, FS_Injection
<1>8. \A k \in 1 .. Cardinality(S) : \E x \in S : Cardinality(upTo[x]) = k
  <2>1. \A x \in S : place[x] = Cardinality(upTo[x])
    OBVIOUS
  <2> HIDE DEF place
  <2>2. \A k \in 1 .. Cardinality(S) : \E x \in S : place[x] = k
    BY <1>7 DEF Surjection
  <2>3. QED
    BY <2>1, <2>2
<1>9. QED
  BY <1>3, <1>4, <1>8

NumberSet(N) == N \subseteq Nat /\ IsFiniteSet(N)

\* The places of numbers.
LEMMA NumberPlaces ==
  ASSUME NEW N, NumberSet(N)
  PROVE  /\ \A x \in N : Cardinality({y \in N : y <= x}) \in 1 .. Cardinality(N)
         /\ \A x, y \in N :
                Cardinality({z \in N : z <= x}) = Cardinality({z \in N : z <= y}) => x = y
         /\ \A k \in 1 .. Cardinality(N) : \E x \in N : Cardinality({y \in N : y <= x}) = k
<1> DEFINE upTo == [x \in N |-> {y \in N : y <= x}]
           place(x) == Cardinality({y \in N : y <= x})
<1>0. upTo \in [N -> SUBSET N]
  OBVIOUS
<1>1. \A x, y \in N : y \in upTo[x] <=> y <= x
  OBVIOUS
<1>2. \A x \in N : Cardinality(upTo[x]) = place(x)
  OBVIOUS
<1> HIDE DEF upTo, place
<1>3. IsFiniteSet(N) /\ \A x \in N : x \in Nat
  BY DEF NumberSet
<1>4. \A x \in N : x \in upTo[x]
  BY <1>1, <1>3
<1>5. Orders(upTo, N)
  <2>1. ASSUME NEW x \in N, NEW y \in N, x < y
        PROVE  upTo[x] \subseteq upTo[y] /\ y \notin upTo[x]
    <3>1. \A z \in N : z <= x => z <= y
      BY <1>3, <2>1
    <3>2. ~ y <= x
      BY <1>3, <2>1
    <3>3. QED
      BY <1>0, <1>1, <3>1, <3>2
  <2>2. \A x, y \in N : x < y \/ y < x \/ x = y
    BY <1>3
  <2>3. QED
    BY <1>0, <1>4, <2>1, <2>2 DEF Orders
<1>6. /\ \A x \in N : Cardinality(upTo[x]) \in 1 .. Cardinality(N)
      /\ \A x, y \in N : Cardinality(upTo[x]) = Cardinality(upTo[y]) => x = y
      /\ \A k \in 1 .. Cardinality(N) : \E x \in N : Cardinality(upTo[x]) = k
  BY <1>3, <1>5, Places
<1>7. /\ \A x \in N : place(x) \in 1 .. Cardinality(N)
      /\ \A x, y \in N : place(x) = place(y) => x = y
      /\ \A k \in 1 .. Cardinality(N) : \E x \in N : place(x) = k
  BY <1>2, <1>6
<1>8. QED
  BY <1>7 DEF place

\* Ascending lists each number once.
LEMMA AscendingFacts ==
  ASSUME NEW S, NumberSet(S)
  PROVE  /\ DOMAIN Ascending(S) = 1 .. Cardinality(S) /\ Cardinality(S) \in Nat
         /\ Ascending(S) \in Seq(S) /\ Len(Ascending(S)) = Cardinality(S)
         /\ \A k \in 1 .. Cardinality(S) : Ascending(S)[k] \in S
         /\ \A j, k \in 1 .. Cardinality(S) : Ascending(S)[j] = Ascending(S)[k] => j = k
         /\ \A x \in S : \E k \in 1 .. Cardinality(S) : Ascending(S)[k] = x
<1> DEFINE place(x) == Cardinality({y \in S : y <= x})
           a == Ascending(S)
<1>1. /\ \A x \in S : place(x) \in 1 .. Cardinality(S)
      /\ \A x, y \in S : place(x) = place(y) => x = y
      /\ \A k \in 1 .. Cardinality(S) : \E x \in S : place(x) = k
  BY NumberPlaces
<1>2. a = [k \in 1 .. Cardinality(S) |-> CHOOSE x \in S : place(x) = k]
  BY DEF Ascending
<1>3. Cardinality(S) \in Nat
  BY FS_CardinalityType DEF NumberSet
<1> HIDE DEF place, a
<1>4. \A k \in 1 .. Cardinality(S) : a[k] \in S /\ place(a[k]) = k
  BY <1>1, <1>2
<1>5. a \in [1 .. Cardinality(S) -> S]
  BY <1>2, <1>4
<1>6. a \in Seq(S) /\ Len(a) = Cardinality(S)
  BY <1>3, <1>5
<1>7. \A x \in S : place(x) \in 1 .. Cardinality(S) /\ a[place(x)] = x
  BY <1>1, <1>4
<1>8. \A j, k \in 1 .. Cardinality(S) : a[j] = a[k] => j = k
  BY <1>4
<1>9. QED
  BY <1>3, <1>4, <1>5, <1>6, <1>7, <1>8 DEF a

\* A list with each element of S once.
Enumerates(list, S) ==
    /\ DOMAIN list = 1 .. Cardinality(S) /\ Cardinality(S) \in Nat
    /\ \A k \in DOMAIN list : list[k] \in S
    /\ \A j, k \in DOMAIN list : list[j] = list[k] => j = k
    /\ \A x \in S : \E k \in DOMAIN list : list[k] = x

PairSet(P) == P \subseteq Nat \X Nat /\ IsFiniteSet(P)

\* Listed lists each pair once.
LEMMA ListedFacts ==
  ASSUME NEW P, PairSet(P)
  PROVE  Enumerates(Listed(P), P)
<1> DEFINE before(r, p) == r[1] < p[1] \/ (r[1] = p[1] /\ r[2] <= p[2])
           upTo == [p \in P |-> {r \in P : before(r, p)}]
           place(p) == Cardinality({r \in P : before(r, p)})
           l == Listed(P)
<1>1. IsFiniteSet(P) /\ \A p \in P : p = <<p[1], p[2]>> /\ p[1] \in Nat /\ p[2] \in Nat
  BY DEF PairSet
<1>2. /\ \A p \in P : before(p, p)
      /\ \A p, r \in P : p = r \/ ~ before(p, r) \/ ~ before(r, p)
      /\ \A p, r \in P : before(p, r) \/ before(r, p)
      /\ \A o, p, r \in P : before(o, p) /\ before(p, r) => before(o, r)
  BY <1>1
<1>3. upTo \in [P -> SUBSET P] /\ \A p \in P : upTo[p] = {r \in P : before(r, p)}
  OBVIOUS
<1>4. l = [k \in 1 .. Cardinality(P) |-> CHOOSE p \in P : place(p) = k]
  BY DEF Listed
<1> HIDE DEF before, upTo, l
<1>5. Orders(upTo, P)
  BY <1>2, <1>3 DEF Orders
<1>6. /\ \A p \in P : Cardinality(upTo[p]) \in 1 .. Cardinality(P)
      /\ \A p, r \in P : Cardinality(upTo[p]) = Cardinality(upTo[r]) => p = r
      /\ \A k \in 1 .. Cardinality(P) : \E p \in P : Cardinality(upTo[p]) = k
  BY <1>1, <1>5, Places
<1>7. \A p \in P : place(p) = Cardinality(upTo[p])
  BY <1>3
<1> HIDE DEF place
<1>8. \A k \in 1 .. Cardinality(P) : l[k] \in P /\ place(l[k]) = k
  BY <1>4, <1>6, <1>7
<1>9. /\ \A p \in P : place(p) \in 1 .. Cardinality(P) /\ l[place(p)] = p
      /\ \A j, k \in 1 .. Cardinality(P) : l[j] = l[k] => j = k
  BY <1>6, <1>7, <1>8
<1>10. DOMAIN l = 1 .. Cardinality(P) /\ Cardinality(P) \in Nat
  BY <1>1, <1>4, FS_CardinalityType
<1>11. QED
  BY <1>8, <1>9, <1>10 DEF l, Enumerates
-----------------------------------------------------------------------------
(***************************************************************************)
(* The new connections of a round.                                         *)
(***************************************************************************)
LEMMA Numbers ==
  /\ Worker \subseteq Nat \ {0} /\ Query \subseteq Nat \ {0} /\ Slice \subseteq Nat \ {0}
  /\ Connection \subseteq Nat \ {0} /\ Slot \subseteq Nat \ {0}
  /\ IsFiniteSet(Worker) /\ IsFiniteSet(Query) /\ IsFiniteSet(Slice)
  /\ IsFiniteSet(Connection) /\ IsFiniteSet(Slot)
<1>1. Cardinality(Slot) \in Nat
  BY LeaderAssumption, FS_CardinalityType
<1>2. Slot \subseteq Nat \ {0}
  BY <1>1, LeaderAssumption
<1>3. QED
  BY <1>2, WorkerAssumption, LeaderAssumption

\* A set of slots, workers or connections is a set of numbers.
LEMMA NumberSets ==
  ASSUME NEW S, S \subseteq Slot \/ S \subseteq Worker \/ S \subseteq Connection
  PROVE  NumberSet(S) /\ Cardinality(S) \in Nat
<1>1. IsFiniteSet(S)
  BY Numbers, FS_Subset
<1>2. S \subseteq Nat
  BY Numbers
<1>3. QED
  BY <1>1, <1>2, FS_CardinalityType DEF NumberSet

\* Of some slots there is a lowest.
LEMMA LowestSlot ==
  ASSUME NEW S \in SUBSET Slot, S # {}
  PROVE  \E j \in S : \A k \in S : j <= k
<1>1. NumberSet(S) /\ Cardinality(S) \in Nat /\ IsFiniteSet(S)
  BY NumberSets DEF NumberSet
<1>2. 1 \in 1 .. Cardinality(S)
  BY <1>1, FS_EmptySet
<1>3. PICK j \in S : Cardinality({y \in S : y <= j}) = 1
  BY <1>1, <1>2, NumberPlaces
<1>4. ASSUME NEW k \in S, k < j
      PROVE  FALSE
  <2>1. PICK x : {y \in S : y <= j} = {x}
    <3>1. {y \in S : y <= j} \in SUBSET S
      OBVIOUS
    <3>2. IsFiniteSet({y \in S : y <= j})
      BY <1>1, <3>1, FS_Subset
    <3>3. QED
      BY <1>3, <3>2, FS_Singleton
  <2>2. j \in Nat /\ k \in Nat
    BY Numbers
  <2>3. j \in {y \in S : y <= j} /\ k \in {y \in S : y <= j} /\ j # k
    BY <1>4, <2>2
  <2>4. QED
    BY <2>1, <2>3
<1>5. QED
  BY <1>4, Numbers

LEMMA SlotFromFacts ==
  ASSUME NEW fds \in [Slot -> Slot \cup {0}], NEW i \in Nat
  PROVE  /\ SlotFrom(fds, i) \in Slot \cup {0}
         /\ SlotFrom(fds, i) # 0 => fds[SlotFrom(fds, i)] # 0
<1> DEFINE inUse == {j \in Slot : j >= i /\ fds[j] # 0}
<1>1. CASE inUse = {}
  BY <1>1 DEF SlotFrom
<1>2. CASE inUse # {}
  <2>1. \E j \in inUse : \A k \in inUse : j <= k
    <3> HIDE DEF inUse
    <3>1. inUse \in SUBSET Slot
      BY DEF inUse
    <3>2. QED
      BY <1>2, <3>1, LowestSlot
  <2>2. SlotFrom(fds, i) = CHOOSE j \in inUse : \A k \in inUse : j <= k
    BY <1>2 DEF SlotFrom
  <2>3. SlotFrom(fds, i) \in inUse
    BY <2>1, <2>2
  <2>4. QED
    BY <2>3
<1>3. QED
  BY <1>1, <1>2

\* There are no more new workers than free slots.
FreeSlots == {i \in Slot : worker_fds_[i] = 0}
FreeNumbers == {f \in Slot : descriptor[f] = 0}
FreeConnections == Connection \ (Open \cup Held)

LEMMA JoinersFit ==
  ASSUME TypeInv
  PROVE  /\ Joiners \subseteq Worker /\ Joiners \cap Known = {}
         /\ NumberSet(Joiners) /\ Cardinality(Joiners) <= Cardinality(FreeSlots)
<1> DEFINE new == hb_updates_ \ Known
           free == Cardinality(FreeSlots)
           place == [w \in Joiners |-> Cardinality({v \in new : v <= w})]
<1>1. Joiners \subseteq new /\ new \subseteq Worker
  BY DEF Joiners, TypeInv, IntegralTypeOK
<1>2. NumberSet(new) /\ NumberSet(Joiners)
  <2> HIDE DEF new
  <2>1. QED
    BY <1>1, NumberSets
<1>3. free \in Nat
  BY NumberSets DEF FreeSlots
<1>4. \A w \in Joiners : place[w] \in 1 .. free
  <2>1. \A w \in new : Cardinality({v \in new : v <= w}) \in 1 .. Cardinality(new)
    <3> HIDE DEF new
    <3>1. QED
      BY <1>2, NumberPlaces
  <2>2. \A w \in Joiners : Cardinality({v \in new : v <= w}) <= free
    BY DEF Joiners, FreeSlots
  <2>3. Cardinality(new) \in Nat
    BY <1>2, FS_CardinalityType DEF NumberSet
  <2>4. QED
    BY <1>1, <1>3, <2>1, <2>2, <2>3
<1>5. \A v, w \in Joiners : place[v] = place[w] => v = w
  <2>1. \A v, w \in new : Cardinality({u \in new : u <= v}) = Cardinality({u \in new : u <= w}) => v = w
    <3> HIDE DEF new
    <3>1. QED
      BY <1>2, NumberPlaces
  <2>2. QED
    BY <1>1, <2>1
<1>6. place \in Injection(Joiners, 1 .. free)
  BY <1>4, <1>5 DEF Injection, IsInjective
<1>7. Cardinality(Joiners) <= free
  <2> HIDE DEF place, free
  <2>1. IsFiniteSet(1 .. free) /\ Cardinality(1 .. free) = free
    BY <1>3, FS_Interval
  <2>2. QED
    BY <1>6, <2>1, FS_Injection
<1>8. QED
  BY <1>1, <1>2, <1>7

\* A descriptor that is open is in a slot that is in use, so there are no fewer
\* free numbers than free slots.
LEMMA NumbersFit ==
  ASSUME TypeInv
  PROVE  Cardinality(FreeSlots) <= Cardinality(FreeNumbers)
<1> DEFINE used == Slot \ FreeSlots
           open == Slot \ FreeNumbers
           slot == [f \in open |-> CHOOSE i \in Slot : worker_fds_[i] = f]
<1>1. \A f \in open : slot[f] \in Slot /\ worker_fds_[slot[f]] = f
  <2>1. \A f \in open : \E i \in Slot : worker_fds_[i] = f
    BY DEF TypeInv, SlotInv, FreeNumbers
  <2>2. QED
    BY <2>1
<1>2. slot \in Injection(open, used)
  <2>1. \A f \in open : slot[f] \in used
    BY <1>1, Numbers DEF FreeSlots
  <2>2. \A f, g \in open : slot[f] = slot[g] => f = g
    BY <1>1
  <2>3. slot \in [open -> used]
    BY <2>1
  <2> HIDE DEF slot, open, used
  <2>4. QED
    BY <2>2, <2>3 DEF Injection, IsInjective
<1>3. FreeSlots \subseteq Slot /\ FreeNumbers \subseteq Slot
  BY DEF FreeSlots, FreeNumbers
<1>4. /\ Cardinality(used) = Cardinality(Slot) - Cardinality(FreeSlots)
      /\ Cardinality(open) = Cardinality(Slot) - Cardinality(FreeNumbers)
      /\ IsFiniteSet(used)
  <2>1. ASSUME NEW T \in SUBSET Slot
        PROVE  /\ Cardinality(Slot \ T) = Cardinality(Slot) - Cardinality(T)
               /\ IsFiniteSet(Slot \ T)
    <3>1. Slot \cap T = T
      OBVIOUS
    <3>2. QED
      BY <3>1, Numbers, FS_Difference, FS_Subset
  <2>2. QED
    BY <1>3, <2>1
<1>5. Cardinality(open) <= Cardinality(used)
  <2> HIDE DEF slot, open, used
  <2>1. QED
    BY <1>2, <1>4, FS_Injection
<1>6. /\ Cardinality(Slot) \in Nat /\ Cardinality(FreeSlots) \in Nat
      /\ Cardinality(FreeNumbers) \in Nat
  BY <1>3, NumberSets
<1>7. QED
  BY <1>4, <1>5, <1>6

\* The place of a new worker among them.
Turn(w) == Cardinality({v \in Joiners : v <= w})

\* The connection to a new worker.
Made(w) == [worker |-> w,
            slot |-> Ascending(FreeSlots)[Turn(w)],
            number |-> Ascending(FreeNumbers)[Turn(w)],
            connection |-> Ascending(FreeConnections)[Turn(w)]]

\* Every new worker gets a free slot, a free number and a connection of its own.
EachItsOwn(made) ==
    /\ \A m \in made : /\ m.worker \in Joiners
                       /\ m.slot \in FreeSlots
                       /\ m.number \in FreeNumbers
                       /\ m.connection \in FreeConnections
    /\ \A m, n \in made :
           m.worker = n.worker \/ m.slot = n.slot \/ m.number = n.number
           \/ m.connection = n.connection => m = n
    /\ \A w \in Joiners : \E m \in made : m.worker = w

LEMMA ConnectionsFacts ==
  ASSUME TypeInv, Bounded
  PROVE  EachItsOwn(Connections)
<1>1. Connections = {Made(w) : w \in Joiners}
  BY DEF Connections, Made, Turn, FreeSlots, FreeNumbers, FreeConnections
<1>2. /\ NumberSet(Joiners)
      /\ Cardinality(Joiners) <= Cardinality(FreeSlots)
      /\ Cardinality(Joiners) <= Cardinality(FreeNumbers)
      /\ Cardinality(Joiners) <= Cardinality(FreeConnections)
  <2>1. Cardinality(Joiners) <= Cardinality(FreeConnections)
    BY DEF Bounded, FreeConnections
  <2>2. /\ Cardinality(FreeSlots) \in Nat /\ Cardinality(FreeNumbers) \in Nat
        /\ Cardinality(Joiners) \in Nat
    BY NumberSets, JoinersFit DEF FreeSlots, FreeNumbers
  <2>3. QED
    BY <2>1, <2>2, JoinersFit, NumbersFit
<1>3. /\ \A w \in Joiners : Turn(w) \in 1 .. Cardinality(Joiners)
      /\ \A v, w \in Joiners : Turn(v) = Turn(w) => v = w
  BY <1>2, NumberPlaces DEF Turn
<1>4. ASSUME NEW S, NumberSet(S), Cardinality(Joiners) <= Cardinality(S)
      PROVE  /\ \A w \in Joiners : Ascending(S)[Turn(w)] \in S
             /\ \A v, w \in Joiners :
                    Ascending(S)[Turn(v)] = Ascending(S)[Turn(w)] => v = w
  <2>1. Cardinality(S) \in Nat /\ Cardinality(Joiners) \in Nat
    BY <1>2, <1>4, FS_CardinalityType DEF NumberSet
  <2>2. \A w \in Joiners : Turn(w) \in 1 .. Cardinality(S)
    BY <1>3, <1>4, <2>1
  <2>3. /\ \A k \in 1 .. Cardinality(S) : Ascending(S)[k] \in S
        /\ \A j, k \in 1 .. Cardinality(S) : Ascending(S)[j] = Ascending(S)[k] => j = k
    BY <1>4, AscendingFacts
  <2>4. QED
    BY <1>3, <2>2, <2>3
<1>5. NumberSet(FreeSlots) /\ NumberSet(FreeNumbers) /\ NumberSet(FreeConnections)
  BY NumberSets DEF FreeSlots, FreeNumbers, FreeConnections
<1>6. \A w \in Joiners : /\ Made(w).worker = w
                         /\ Made(w).slot \in FreeSlots
                         /\ Made(w).number \in FreeNumbers
                         /\ Made(w).connection \in FreeConnections
  BY <1>2, <1>4, <1>5 DEF Made
<1>7. \A v, w \in Joiners :
          Made(v).slot = Made(w).slot \/ Made(v).number = Made(w).number
          \/ Made(v).connection = Made(w).connection => v = w
  <2>1. \A v, w \in Joiners : Made(v).slot = Made(w).slot => v = w
    BY <1>2, <1>4, <1>5 DEF Made
  <2>2. \A v, w \in Joiners : Made(v).number = Made(w).number => v = w
    BY <1>2, <1>4, <1>5 DEF Made
  <2>3. \A v, w \in Joiners : Made(v).connection = Made(w).connection => v = w
    BY <1>2, <1>4, <1>5 DEF Made
  <2>4. QED
    BY <2>1, <2>2, <2>3
<1>8. QED
  BY <1>1, <1>6, <1>7 DEF EachItsOwn

\* Override replaces what the records of S are about.
LEMMA OverrideFacts ==
  ASSUME NEW f, NEW S, NEW x, NEW y,
         \A m, n \in S : m[x] = n[x] => m = n,
         \A m \in S : m[x] \in DOMAIN f
  PROVE  /\ \A m \in S : Override(f, S, x, y)[m[x]] = m[y]
         /\ \A a \in DOMAIN f : (\A m \in S : m[x] # a) => Override(f, S, x, y)[a] = f[a]
<1>1. ASSUME NEW m \in S
      PROVE  Override(f, S, x, y)[m[x]] = m[y]
  <2>1. (CHOOSE n \in S : n[x] = m[x]) = m
    OBVIOUS
  <2>2. QED
    BY <2>1 DEF Override
<1>2. \A a \in DOMAIN f : (\A m \in S : m[x] # a) => Override(f, S, x, y)[a] = f[a]
  BY DEF Override
<1>3. QED
  BY <1>1, <1>2

Gone == wid_to_delete_ \cap Known
Stay == (Known \cup Joiners) \ Gone

\* What a round does to the slots of the workers that are gone and of the new ones.
PositionsMoved ==
    /\ DOMAIN position' = Worker
    /\ \A w \in Gone : position'[w] = 0
    /\ \A m \in Connections : position'[m.worker] = m.slot
    /\ \A w \in Worker : w \notin Gone /\ w \notin Joiners => position'[w] = position[w]

SlotsMoved ==
    /\ DOMAIN worker_fds_' = Slot
    /\ \A w \in Gone : worker_fds_'[position[w]] = 0
    /\ \A m \in Connections : worker_fds_'[m.slot] = m.number
    /\ \A i \in Slot : \/ worker_fds_'[i] = worker_fds_[i]
                       \/ \E w \in Gone : position[w] = i
                       \/ \E m \in Connections : m.slot = i

NumbersMoved ==
    /\ DOMAIN descriptor' = Slot
    /\ \A w \in Gone : descriptor'[worker_fds_[position[w]]] = 0
    /\ \A m \in Connections : \/ descriptor'[m.number] = m.connection
                              \/ \E w \in Gone : worker_fds_[position[w]] = m.number
    /\ \A f \in Slot : \/ descriptor'[f] = descriptor[f]
                       \/ \E w \in Gone : worker_fds_[position[w]] = f
                       \/ \E m \in Connections : m.number = f

LEMMA PositionsMove ==
  ASSUME TypeInv, Round
  PROVE  PositionsMoved
<1> DEFINE made == Connections
           over == Override(position, made, "worker", "slot")
<1>1. /\ EachItsOwn(made) /\ position \in [Worker -> Slot \cup {0}]
      /\ Joiners \subseteq Worker /\ Joiners \cap Known = {}
  BY ConnectionsFacts, JoinersFit DEF Round, TypeInv, IntegralTypeOK
<1>2. position' = [w \in Worker |-> IF w \in Gone THEN 0 ELSE over[w]]
  BY DEF Round, Gone
<1> HIDE DEF made
<1>3. /\ \A m, n \in made : m["worker"] = n["worker"] => m = n
      /\ \A m \in made : m["worker"] \in DOMAIN position /\ m["worker"] \in Joiners
  BY <1>1 DEF EachItsOwn
<1>4. /\ \A m \in made : over[m["worker"]] = m["slot"]
      /\ \A w \in DOMAIN position : (\A m \in made : m["worker"] # w) => over[w] = position[w]
  BY <1>3, OverrideFacts
<1> HIDE DEF over
<1>5. DOMAIN position' = Worker /\ \A w \in Gone : position'[w] = 0
  BY <1>2 DEF Gone, Known
<1>6. \A m \in made : position'[m.worker] = m.slot
  BY <1>1, <1>2, <1>3, <1>4 DEF Gone
<1>7. \A w \in Worker : w \notin Gone /\ w \notin Joiners => position'[w] = position[w]
  BY <1>1, <1>2, <1>3, <1>4
<1>8. QED
  BY <1>5, <1>6, <1>7 DEF made, PositionsMoved

LEMMA SlotsMove ==
  ASSUME TypeInv, Round
  PROVE  SlotsMoved /\ NumbersMoved
<1> DEFINE made == Connections
           fds == Override(worker_fds_, made, "slot", "number")
           open == Override(descriptor, made, "number", "connection")
           slots == {position[w] : w \in Gone}
           numbers == {fds[i] : i \in slots}
<1>1. /\ EachItsOwn(made)
      /\ worker_fds_ \in [Slot -> Slot \cup {0}] /\ descriptor \in [Slot -> Connection \cup {0}]
  BY ConnectionsFacts DEF Round, TypeInv, IntegralTypeOK
<1>2. /\ worker_fds_' = [i \in Slot |-> IF i \in slots THEN 0 ELSE fds[i]]
      /\ descriptor' = [f \in Slot |-> IF f \in numbers THEN 0 ELSE open[f]]
  BY DEF Round, Gone
<1> HIDE DEF made
<1>3. /\ \A m, n \in made : m["slot"] = n["slot"] \/ m["number"] = n["number"] => m = n
      /\ \A m \in made : m["slot"] \in DOMAIN worker_fds_ /\ m["number"] \in DOMAIN descriptor
      /\ \A m \in made : worker_fds_[m["slot"]] = 0
  BY <1>1 DEF EachItsOwn, FreeSlots, FreeNumbers
<1>4. /\ \A m \in made : fds[m["slot"]] = m["number"]
      /\ \A i \in Slot : (\A m \in made : m["slot"] # i) => fds[i] = worker_fds_[i]
  BY <1>1, <1>3, OverrideFacts
<1>5. /\ \A m \in made : open[m["number"]] = m["connection"]
      /\ \A f \in Slot : (\A m \in made : m["number"] # f) => open[f] = descriptor[f]
  BY <1>1, <1>3, OverrideFacts
<1> HIDE DEF fds, open
<1>6. \A w \in Gone : /\ position[w] \in Slot /\ worker_fds_[position[w]] \in Slot
                      /\ \A m \in made : m["slot"] # position[w]
                      /\ fds[position[w]] = worker_fds_[position[w]]
  <2>1. \A w \in Gone : position[w] \in Slot /\ worker_fds_[position[w]] # 0
    BY DEF Gone, Known, TypeInv, SlotInv, IntegralTypeOK
  <2>2. QED
    BY <1>1, <1>3, <1>4, <2>1
<1>7. \A f : f \in numbers <=> \E w \in Gone : worker_fds_[position[w]] = f
  BY <1>6
<1>8. SlotsMoved
  <2>1. DOMAIN worker_fds_' = Slot /\ \A w \in Gone : worker_fds_'[position[w]] = 0
    BY <1>2, <1>6
  <2>2. \A m \in made : worker_fds_'[m.slot] = m.number
    BY <1>1, <1>2, <1>3, <1>4, <1>6
  <2>3. \A i \in Slot : \/ worker_fds_'[i] = worker_fds_[i]
                        \/ \E w \in Gone : position[w] = i
                        \/ \E m \in made : m.slot = i
    BY <1>2, <1>4
  <2>4. QED
    BY <2>1, <2>2, <2>3 DEF SlotsMoved, made
<1> HIDE DEF numbers
<1>9. NumbersMoved
  <2>1. DOMAIN descriptor' = Slot /\ \A w \in Gone : descriptor'[worker_fds_[position[w]]] = 0
    BY <1>2, <1>6, <1>7
  <2>2. \A m \in made : \/ descriptor'[m.number] = m.connection
                        \/ \E w \in Gone : worker_fds_[position[w]] = m.number
    BY <1>1, <1>2, <1>3, <1>5, <1>7
  <2>3. \A f \in Slot : \/ descriptor'[f] = descriptor[f]
                        \/ \E w \in Gone : worker_fds_[position[w]] = f
                        \/ \E m \in made : m.number = f
    BY <1>2, <1>5, <1>7
  <2>4. QED
    BY <2>1, <2>2, <2>3 DEF NumbersMoved, made
<1>10. QED
  BY <1>8, <1>9

LEMMA SlotTypesAfter ==
  ASSUME TypeInv, Round
  PROVE  /\ worker_fds_' \in [Slot -> Slot \cup {0}]
         /\ descriptor' \in [Slot -> Connection \cup {0}]
         /\ position' \in [Worker -> Slot \cup {0}]
<1>1. /\ PositionsMoved /\ SlotsMoved /\ NumbersMoved /\ EachItsOwn(Connections)
      /\ worker_fds_ \in [Slot -> Slot \cup {0}] /\ descriptor \in [Slot -> Connection \cup {0}]
      /\ position \in [Worker -> Slot \cup {0}]
  BY PositionsMove, SlotsMove, ConnectionsFacts DEF Round, TypeInv, IntegralTypeOK
<1>2. /\ \A i \in Slot : worker_fds_'[i] \in Slot \cup {0}
      /\ \A f \in Slot : descriptor'[f] \in Connection \cup {0}
  BY <1>1 DEF SlotsMoved, NumbersMoved, EachItsOwn, FreeSlots, FreeNumbers, FreeConnections
<1>3. ASSUME NEW w \in Worker
      PROVE  position'[w] \in Slot \cup {0}
  <2>1. CASE w \in Joiners
    <3>1. PICK m \in Connections : m.worker = w /\ m.slot \in Slot
      BY <1>1, <2>1 DEF EachItsOwn, FreeSlots
    <3>2. QED
      BY <1>1, <3>1 DEF PositionsMoved
  <2>2. QED
    BY <1>1, <2>1 DEF PositionsMoved
<1>4. /\ worker_fds_' = [i \in Slot |-> worker_fds_'[i]]
      /\ descriptor' = [f \in Slot |-> descriptor'[f]]
      /\ position' = [w \in Worker |-> position'[w]]
  BY DEF Round
<1>5. QED
  BY <1>2, <1>3, <1>4

\* The workers known after a round.
LEMMA KnownAfter ==
  ASSUME TypeInv, Round
  PROVE  Known' = Stay
<1>1. /\ PositionsMoved /\ EachItsOwn(Connections) /\ Joiners \subseteq Worker
      /\ Joiners \cap Known = {}
  BY PositionsMove, ConnectionsFacts, JoinersFit DEF Round
<1>2. \A w \in Joiners : position'[w] # 0
  BY <1>1, Numbers DEF PositionsMoved, EachItsOwn, FreeSlots
<1>3. \A w \in Gone : position'[w] = 0 /\ w \in Known
  BY <1>1 DEF PositionsMoved, Gone
<1>4. \A w \in Worker : w \notin Gone /\ w \notin Joiners => position'[w] = position[w]
  BY <1>1 DEF PositionsMoved
<1>5. Known' = {w \in Worker : position'[w] # 0}
  BY DEF Known
<1>6. \A w \in Worker : w \in Known <=> position[w] # 0
  BY DEF Known
<1>7. Gone \subseteq Worker
  BY DEF Gone, Known
<1>8. QED
  BY <1>1, <1>2, <1>3, <1>4, <1>5, <1>6, <1>7 DEF Stay, Known

\* Workers that stay keep their slots and what these hold; a new one has a free slot,
\* and a free number there.
LEMMA SlotsAfter ==
  ASSUME TypeInv, Round
  PROVE  /\ \A w \in Known \ Gone : /\ position'[w] = position[w]
                                    /\ worker_fds_'[position[w]] = worker_fds_[position[w]]
         /\ \A w \in Joiners : \E m \in Connections :
                /\ m.worker = w /\ position'[w] = m.slot /\ worker_fds_'[m.slot] = m.number
                /\ m.slot \in FreeSlots /\ m.number \in FreeNumbers
         /\ \A i \in Slot : worker_fds_'[i] # 0 =>
                \/ \E w \in Known \ Gone : position[w] = i
                \/ \E m \in Connections : m.slot = i
<1>1. /\ PositionsMoved /\ SlotsMoved /\ EachItsOwn(Connections)
      /\ Joiners \cap Known = {} /\ SlotInv
      /\ Known \subseteq Worker /\ \A w \in Known : position[w] \in Slot
  BY PositionsMove, SlotsMove, ConnectionsFacts, JoinersFit
  DEF Round, Known, TypeInv, IntegralTypeOK
<1>2. ASSUME NEW w \in Known \ Gone
      PROVE  /\ position'[w] = position[w]
             /\ worker_fds_'[position[w]] = worker_fds_[position[w]]
  <2>1. position'[w] = position[w]
    BY <1>1 DEF PositionsMoved
  <2>2. worker_fds_[position[w]] # 0
    BY <1>1 DEF SlotInv
  <2>3. \A v \in Gone : position[v] # position[w]
    BY <1>1 DEF SlotInv, Gone
  <2>4. \A m \in Connections : m.slot # position[w]
    BY <1>1, <2>2 DEF EachItsOwn, FreeSlots
  <2>5. QED
    BY <1>1, <2>1, <2>3, <2>4 DEF SlotsMoved
<1>3. \A w \in Joiners : \E m \in Connections :
          /\ m.worker = w /\ position'[w] = m.slot /\ worker_fds_'[m.slot] = m.number
          /\ m.slot \in FreeSlots /\ m.number \in FreeNumbers
  BY <1>1 DEF PositionsMoved, SlotsMoved, EachItsOwn
<1>4. ASSUME NEW i \in Slot, worker_fds_'[i] # 0
      PROVE  \/ \E w \in Known \ Gone : position[w] = i
             \/ \E m \in Connections : m.slot = i
  <2>1. CASE worker_fds_'[i] = worker_fds_[i]
    <3>1. PICK w \in Known : position[w] = i
      BY <1>1, <1>4, <2>1 DEF SlotInv
    <3>2. w \notin Gone
      BY <1>1, <1>4, <3>1 DEF SlotsMoved
    <3>3. QED
      BY <3>1, <3>2
  <2>2. CASE \E w \in Gone : position[w] = i
    BY <1>1, <1>4, <2>2 DEF SlotsMoved
  <2>3. QED
    BY <1>1, <2>1, <2>2 DEF SlotsMoved
<1>5. QED
  BY <1>2, <1>3, <1>4

LEMMA SlotInvRound ==
  ASSUME TypeInv, Round
  PROVE  SlotInv'
<1>1. /\ EachItsOwn(Connections) /\ SlotInv /\ NumbersMoved /\ SlotsMoved
      /\ Joiners \cap Known = {} /\ Known' = Stay
      /\ Known \subseteq Worker /\ \A w \in Known : position[w] \in Slot
  BY SlotsMove, ConnectionsFacts, JoinersFit, KnownAfter
  DEF Round, Known, TypeInv, IntegralTypeOK
<1>2. \A w \in Known \ Gone : /\ position'[w] = position[w] /\ worker_fds_[position[w]] # 0
                              /\ worker_fds_'[position[w]] = worker_fds_[position[w]]
  BY <1>1, SlotsAfter DEF SlotInv
<1>3. \A w \in Joiners : \E m \in Connections :
          /\ m.worker = w /\ position'[w] = m.slot /\ worker_fds_'[m.slot] = m.number
          /\ m.slot \in FreeSlots /\ m.number \in FreeNumbers
  BY SlotsAfter
<1>4. \A v, w \in Known' : position'[v] = position'[w] => v = w
  <2>1. ASSUME NEW v \in Known \ Gone, NEW w \in Joiners
        PROVE  position'[v] # position'[w]
    BY <1>2, <1>3 DEF FreeSlots
  <2>2. \A v, w \in Joiners : position'[v] = position'[w] => v = w
    BY <1>1, <1>3 DEF EachItsOwn
  <2>3. \A v, w \in Known \ Gone : position'[v] = position'[w] => v = w
    BY <1>1, <1>2 DEF SlotInv
  <2>4. QED
    BY <1>1, <2>1, <2>2, <2>3 DEF Stay
<1>5. ASSUME NEW i \in Slot
      PROVE  worker_fds_'[i] # 0 <=> \E w \in Known' : position'[w] = i
  <2>1. ASSUME worker_fds_'[i] # 0
        PROVE  \E w \in Known' : position'[w] = i
    <3>1. CASE \E w \in Known \ Gone : position[w] = i
      BY <1>1, <1>2, <3>1 DEF Stay
    <3>2. CASE \E m \in Connections : m.slot = i
      <4>1. PICK m \in Connections : m.slot = i
        BY <3>2
      <4>2. position'[m.worker] = i /\ m.worker \in Joiners
        BY <1>1, <4>1, PositionsMove DEF PositionsMoved, EachItsOwn
      <4>3. m.worker \in Known'
        BY <1>1, <4>2 DEF Stay, Gone
      <4>4. QED
        BY <4>2, <4>3
    <3>3. QED
      BY <2>1, <3>1, <3>2, SlotsAfter
  <2>2. ASSUME NEW w \in Known', position'[w] = i
        PROVE  worker_fds_'[i] # 0
    <3>1. CASE w \in Known \ Gone
      BY <1>2, <2>2, <3>1
    <3>2. CASE w \in Joiners
      BY <1>3, <2>2, <3>2, Numbers DEF FreeNumbers
    <3>3. QED
      BY <1>1, <3>1, <3>2 DEF Stay
  <2>3. QED
    BY <2>1, <2>2
<1>6. ASSUME NEW f \in Slot, descriptor'[f] # 0
      PROVE  \E i \in Slot : worker_fds_'[i] = f
  <2>1. CASE descriptor'[f] = descriptor[f]
    <3>1. PICK i \in Slot : worker_fds_[i] = f
      BY <1>1, <1>6, <2>1 DEF SlotInv
    <3>2. worker_fds_[i] # 0
      BY <3>1, Numbers
    <3>3. PICK w \in Known : position[w] = i
      BY <1>1, <3>2 DEF SlotInv
    <3>4. w \notin Gone
      BY <1>1, <1>6, <3>1, <3>3 DEF NumbersMoved
    <3>5. QED
      BY <1>2, <3>1, <3>3, <3>4
  <2>2. CASE \E w \in Gone : worker_fds_[position[w]] = f
    BY <1>1, <1>6, <2>2 DEF NumbersMoved
  <2>3. CASE \E m \in Connections : m.number = f
    BY <1>1, <2>3 DEF SlotsMoved, EachItsOwn, FreeSlots
  <2>4. QED
    BY <1>1, <2>1, <2>2, <2>3 DEF NumbersMoved
<1>7. at' # 0 => worker_fds_'[at'] # 0
  <2>1. at' = SlotFrom(worker_fds_', 1)
    BY DEF Round
  <2>2. worker_fds_' \in [Slot -> Slot \cup {0}]
    BY SlotTypesAfter
  <2>3. QED
    BY <2>1, <2>2, SlotFromFacts
<1>8. QED
  BY <1>4, <1>5, <1>6, <1>7 DEF SlotInv
-----------------------------------------------------------------------------
(***************************************************************************)
(* What a round hands out.                                                 *)
(***************************************************************************)
LEMMA PairsFinite ==
  ASSUME NEW S, IsFiniteSet(S), NEW D, \A x \in S : IsFiniteSet(D[x])
  PROVE  IsFiniteSet(UNION {{<<x, i>> : i \in D[x]} : x \in S})
<1> DEFINE row == [x \in S |-> {<<x, i>> : i \in D[x]}]
           rows == {row[x] : x \in S}
<1>1. ASSUME NEW x \in S
      PROVE  IsFiniteSet({<<x, i>> : i \in D[x]})
  <2>1. IsFiniteSet({x} \X D[x])
    BY FS_Singleton, FS_Product
  <2>2. {<<x, i>> : i \in D[x]} \in SUBSET ({x} \X D[x])
    OBVIOUS
  <2>3. QED
    BY <2>1, <2>2, FS_Subset
<1>2. \A r \in rows : IsFiniteSet(r)
  BY <1>1
<1>3. UNION {{<<x, i>> : i \in D[x]} : x \in S} = UNION rows
  OBVIOUS
<1>4. IsFiniteSet(rows)
  <2>1. row \in Surjection(S, rows)
    <3>1. row \in [S -> rows]
      OBVIOUS
    <3>2. \A r \in rows : \E x \in S : row[x] = r
      OBVIOUS
    <3> HIDE DEF row, rows
    <3>3. QED
      BY <3>1, <3>2 DEF Surjection
  <2> HIDE DEF row, rows
  <2>2. QED
    BY <2>1, FS_Surjection
<1> HIDE DEF rows
<1>5. QED
  BY <1>2, <1>3, <1>4, FS_UNION

\* The places of the tasks of the workers that are gone.
OrphanPlaces(gone) == UNION {{<<w, i>> : i \in DOMAIN assigned_tasks[w]} : w \in gone}

LEMMA OrphansFacts ==
  ASSUME IntegralTypeOK, NEW gone \in SUBSET Worker
  PROVE  /\ Orphans(gone) \in Seq(Task)
         /\ \A k \in DOMAIN Orphans(gone) :
                \E w \in gone, i \in Nat : Has(w, i, Orphans(gone)[k])
         /\ \A w \in gone, i \in Nat, t \in Task : Has(w, i, t) =>
                \E k \in DOMAIN Orphans(gone) : Orphans(gone)[k] = t
         /\ \A j, k \in DOMAIN Orphans(gone) : j # k =>
                \E v, w \in gone, i, l \in Nat : /\ Has(v, i, Orphans(gone)[j])
                                                 /\ Has(w, l, Orphans(gone)[k])
                                                 /\ (v # w \/ i # l)
<1> DEFINE P == OrphanPlaces(gone)
           places == Listed(P)
           o == Orphans(gone)
<1>1. \A w \in Worker : /\ assigned_tasks[w] \in Seq(Task)
                        /\ DOMAIN assigned_tasks[w] = 1 .. Len(assigned_tasks[w])
                        /\ Len(assigned_tasks[w]) \in Nat
  BY DEF IntegralTypeOK
<1>2. \A p : p \in P <=> \E w \in gone : \E i \in DOMAIN assigned_tasks[w] : p = <<w, i>>
  BY DEF OrphanPlaces
<1>3. P \subseteq Nat \X Nat
  BY <1>1, <1>2, Numbers
<1>4. IsFiniteSet(P)
  <2> DEFINE D == [w \in Worker |-> DOMAIN assigned_tasks[w]]
  <2>1. \A w \in gone : IsFiniteSet(D[w])
    BY <1>1, FS_Interval
  <2>2. P = UNION {{<<w, i>> : i \in D[w]} : w \in gone}
    <3>1. \A w \in gone : D[w] = DOMAIN assigned_tasks[w]
      OBVIOUS
    <3> HIDE DEF D
    <3>2. QED
      BY <3>1 DEF OrphanPlaces
  <2>3. IsFiniteSet(gone)
    BY NumberSets DEF NumberSet
  <2> HIDE DEF D, P
  <2>4. QED
    BY <2>1, <2>2, <2>3, PairsFinite
<1>5. o = [k \in DOMAIN places |-> assigned_tasks[places[k][1]][places[k][2]]]
  BY DEF Orphans, OrphanPlaces
<1> HIDE DEF P, places, o
<1>6. Enumerates(places, P)
  BY <1>3, <1>4, ListedFacts DEF places, PairSet
<1>7. \A k \in DOMAIN places :
          /\ places[k][1] \in gone /\ places[k][2] \in Nat
          /\ Has(places[k][1], places[k][2], o[k])
          /\ places[k] = <<places[k][1], places[k][2]>>
          /\ o[k] \in Task
  BY <1>1, <1>2, <1>5, <1>6 DEF Has, Enumerates
<1>8. o \in Seq(Task) /\ DOMAIN o = DOMAIN places
  <2>1. o \in [1 .. Cardinality(P) -> Task]
    BY <1>5, <1>6, <1>7 DEF Enumerates
  <2>2. QED
    BY <1>5, <1>6, <2>1 DEF Enumerates
<1>9. ASSUME NEW w \in gone, NEW i \in Nat, NEW t \in Task, Has(w, i, t)
      PROVE  \E k \in DOMAIN o : o[k] = t
  <2>1. <<w, i>> \in P
    BY <1>2, <1>9 DEF Has
  <2>2. PICK k \in DOMAIN places : places[k] = <<w, i>>
    BY <1>6, <2>1 DEF Enumerates
  <2>3. o[k] = t
    BY <1>5, <1>9, <2>2 DEF Has
  <2>4. QED
    BY <1>8, <2>2, <2>3
<1>10. \A j, k \in DOMAIN o : j # k =>
          places[j][1] # places[k][1] \/ places[j][2] # places[k][2]
  BY <1>6, <1>7, <1>8 DEF Enumerates
<1>11. QED
  BY <1>7, <1>8, <1>9, <1>10 DEF o

LEMMA ToDoFacts ==
  ASSUME IntegralTypeOK
  PROVE  /\ ToDo \in Seq(Task)
         /\ \A t \in Task : (\E k \in DOMAIN ToDo : ToDo[k] = t) <=> t.slice \in Taken(t.query)
         /\ \A j, k \in DOMAIN ToDo : ToDo[j] = ToDo[k] => j = k
<1> DEFINE P == UNION {{<<q, s>> : s \in Taken(q)} : q \in Query}
           places == Listed(P)
<1>1. \A q \in Query : Taken(q) \subseteq Slice
  BY DEF Taken, IntegralTypeOK
<1>2. \A p : p \in P <=> \E q \in Query : \E s \in Taken(q) : p = <<q, s>>
  OBVIOUS
<1> HIDE DEF P
<1>3. P \subseteq Query \X Slice /\ P \subseteq Nat \X Nat
  <2>1. \A p \in P : p \in Query \X Slice
    BY <1>1, <1>2
  <2>2. \A p \in Query \X Slice : p \in Nat \X Nat
    BY Numbers
  <2>3. QED
    BY <2>1, <2>2
<1>4. IsFiniteSet(P)
  <2>1. IsFiniteSet(Query \X Slice)
    BY Numbers, FS_Product
  <2>2. QED
    BY <1>3, <2>1, FS_Subset
<1>5. ToDo = [k \in DOMAIN places |-> [query |-> places[k][1], slice |-> places[k][2]]]
  BY DEF ToDo, P
<1> HIDE DEF places
<1>6. Enumerates(places, P)
  BY <1>3, <1>4, ListedFacts DEF places, PairSet
<1>7. \A k \in DOMAIN places :
          /\ ToDo[k] \in Task /\ ToDo[k].slice \in Taken(ToDo[k].query)
          /\ places[k] = <<ToDo[k].query, ToDo[k].slice>>
  BY <1>1, <1>2, <1>5, <1>6 DEF Task, Enumerates
<1>8. ToDo \in Seq(Task) /\ DOMAIN ToDo = DOMAIN places
  <2>1. ToDo \in [1 .. Cardinality(P) -> Task]
    BY <1>5, <1>6, <1>7 DEF Enumerates
  <2>2. QED
    BY <1>5, <1>6, <2>1 DEF Enumerates
<1>9. ASSUME NEW t \in Task, t.slice \in Taken(t.query)
      PROVE  \E k \in DOMAIN ToDo : ToDo[k] = t
  <2>1. <<t.query, t.slice>> \in P
    BY <1>2, <1>9 DEF Task
  <2>2. PICK k \in DOMAIN places : places[k] = <<t.query, t.slice>>
    BY <1>6, <2>1 DEF Enumerates
  <2>3. ToDo[k] = t
    BY <1>5, <2>2 DEF Task
  <2>4. QED
    BY <1>8, <2>2, <2>3
<1>10. QED
  BY <1>6, <1>7, <1>8, <1>9 DEF Enumerates

\* The tasks that go to w are those at the places for w, each once.
LEMMA ShareFacts ==
  ASSUME NEW new \in Seq(Task), NEW to, NEW w
  PROVE  /\ Share(new, to, w) \in Seq(Task)
         /\ \A i \in DOMAIN Share(new, to, w) :
                \E k \in DOMAIN new : to[k] = w /\ Share(new, to, w)[i] = new[k]
         /\ \A k \in DOMAIN new : to[k] = w =>
                \E i \in DOMAIN Share(new, to, w) : Share(new, to, w)[i] = new[k]
         /\ \A i, j \in DOMAIN Share(new, to, w) : i # j =>
                \E k, l \in DOMAIN new : /\ k # l /\ Share(new, to, w)[i] = new[k]
                                         /\ Share(new, to, w)[j] = new[l]
<1> DEFINE S == {k \in DOMAIN new : to[k] = w}
           places == Ascending(S)
           share == Share(new, to, w)
<1>1. DOMAIN new = 1 .. Len(new) /\ Len(new) \in Nat
  OBVIOUS
<1>2. NumberSet(S)
  <2>1. S \in SUBSET (1 .. Len(new)) /\ S \subseteq Nat
    BY <1>1
  <2>2. IsFiniteSet(1 .. Len(new))
    BY <1>1, FS_Interval
  <2>3. QED
    BY <2>1, <2>2, FS_Subset DEF NumberSet
<1>3. share = [i \in DOMAIN places |-> new[places[i]]]
  BY DEF Share
<1>4. \A k : k \in S <=> k \in DOMAIN new /\ to[k] = w
  OBVIOUS
<1> HIDE DEF S, places, share
<1>5. /\ DOMAIN places = 1 .. Cardinality(S) /\ Cardinality(S) \in Nat
      /\ \A k \in DOMAIN places : places[k] \in S
      /\ \A j, k \in DOMAIN places : places[j] = places[k] => j = k
      /\ \A x \in S : \E k \in DOMAIN places : places[k] = x
  BY <1>2, AscendingFacts DEF places
<1>6. share \in Seq(Task) /\ DOMAIN share = DOMAIN places
  <2>1. share \in [1 .. Cardinality(S) -> Task]
    BY <1>3, <1>4, <1>5
  <2>2. QED
    BY <1>3, <1>5, <2>1
<1>7. QED
  BY <1>3, <1>4, <1>5, <1>6 DEF share
-----------------------------------------------------------------------------
(***************************************************************************)
(* Types.                                                                  *)
(***************************************************************************)
LEMMA ListTypes ==
  ASSUME NEW S, NEW s \in Seq(S)
  PROVE  /\ \A n \in 1 .. Len(s) : Rest(s, n) \in Seq(S)
         /\ s # << >> => Head(s) \in S /\ Tail(s) \in Seq(S)
         /\ \A e \in S : Append(s, e) \in Seq(S)
<1>1. ASSUME NEW n \in 1 .. Len(s)
      PROVE  Rest(s, n) \in Seq(S)
  <2>1. n + 1 \in Int /\ Len(s) \in Int /\ \A i \in n + 1 .. Len(s) : s[i] \in S
    OBVIOUS
  <2>2. QED
    BY <2>1, SubSeqProperties DEF Rest
<1>2. QED
  BY <1>1, HeadTailProperties, AppendProperties

\* The parts of the type invariant that belong to workers, queries and slots.
LEMMA WorkTypes ==
  ASSUME WorkersTypeOK, NEW w \in Worker, Work(w)
  PROVE  WorkersTypeOK'
<1> DEFINE c == Head(queue[w])
<1>1. queue[w] \in Seq(Connection) /\ queue[w] # << >>
  BY DEF WorkersTypeOK, Work
<1>2. c \in Connection
  BY <1>1, ListTypes
<1>3. /\ tasks \in [Connection -> Seq(Task)] /\ results \in [Connection -> Seq(Result)]
      /\ garbled \in BOOLEAN
  BY DEF WorkersTypeOK
<1>4. PICK n \in 1 .. Len(tasks[c]) : \E slice \in Parsed(tasks[c], n) :
          /\ results' = [results EXCEPT ![c] = Append(@, [value |-> Head(tasks[c]), slice |-> slice])]
          /\ tasks' = [tasks EXCEPT ![c] = Rest(@, n)]
          /\ garbled' = (garbled \/ n > 1)
  BY DEF Work
<1>5. PICK slice \in Parsed(tasks[c], n) :
          results' = [results EXCEPT ![c] = Append(@, [value |-> Head(tasks[c]), slice |-> slice])]
  BY <1>4
<1> HIDE DEF c
<1>6. tasks[c] \in Seq(Task) /\ tasks[c] # << >> /\ results[c] \in Seq(Result)
  BY <1>2, <1>3
<1>7. Head(tasks[c]) \in Task /\ Rest(tasks[c], n) \in Seq(Task)
  BY <1>6, ListTypes
<1>8. [value |-> Head(tasks[c]), slice |-> slice] \in Result
  BY <1>7 DEF Parsed, Result, Task
<1>9. /\ tasks' \in [Connection -> Seq(Task)] /\ results' \in [Connection -> Seq(Result)]
      /\ garbled' \in BOOLEAN
  BY <1>2, <1>3, <1>4, <1>5, <1>6, <1>7, <1>8, ListTypes
<1>10. QED
  BY <1>9 DEF WorkersTypeOK, Work

LEMMA DieTypes ==
  ASSUME WorkersTypeOK, NEW w \in Worker, Die(w), crashes' \in Nat
  PROVE  WorkersTypeOK'
<1>1. << >> \in Seq(Task) /\ << >> \in Seq(Connection)
  OBVIOUS
<1>2. tasks' \in [Connection -> Seq(Task)]
  BY <1>1 DEF Die, WorkersTypeOK
<1>3. queue' \in [Worker -> Seq(Connection)] /\ up' \in [Worker -> BOOLEAN]
  BY <1>1 DEF Die, WorkersTypeOK
<1>4. QED
  BY <1>2, <1>3 DEF Die, WorkersTypeOK

LEMMA OfWorkerTypes ==
  ASSUME WorkersTypeOK, NEW w \in Worker,
         OfWorker(w) \/ ((Boot(w) \/ Crash(w)) /\ UNCHANGED leaderVars)
  PROVE  WorkersTypeOK'
<1>1. CASE Work(w)
  BY <1>1, WorkTypes
<1>2. CASE HangUp(w, Open)
  <2>1. CASE Die(w) /\ UNCHANGED crashes
    BY <2>1, DieTypes DEF WorkersTypeOK
  <2>2. CASE /\ queue' = [queue EXCEPT ![w] = Tail(@)]
             /\ tasks' = [tasks EXCEPT ![Head(queue[w])] = << >>]
             /\ UNCHANGED <<up, results, garbled, crashes>>
    <3>1. queue[w] \in Seq(Connection) /\ queue[w] # << >>
      BY <1>2 DEF WorkersTypeOK, HangUp
    <3>2. Head(queue[w]) \in Connection /\ Tail(queue[w]) \in Seq(Connection)
      BY <3>1, ListTypes
    <3>3. << >> \in Seq(Task)
      OBVIOUS
    <3>4. QED
      BY <2>2, <3>2, <3>3 DEF WorkersTypeOK
  <2>3. QED
    BY <1>2, <2>1, <2>2 DEF HangUp
<1>3. CASE Boot(w)
  BY <1>3 DEF Boot, WorkersTypeOK
<1>4. CASE Crash(w)
  <2>1. crashes' \in Nat
    BY <1>4 DEF Crash, WorkersTypeOK
  <2>2. QED
    BY <1>4, <2>1, DieTypes DEF Crash
<1>5. QED
  BY <1>1, <1>2, <1>3, <1>4 DEF OfWorker

\* The worker whose slot the leader looks at.
LEMMA WorkerAtFacts ==
  ASSUME TypeInv, NEW i \in Slot, worker_fds_[i] # 0
  PROVE  WorkerAt(i) \in Known /\ position[WorkerAt(i)] = i
<1>1. \E w \in Known : position[w] = i
  BY DEF TypeInv, SlotInv
<1>2. QED
  BY <1>1 DEF WorkerAt, Known

LEMMA LookTypes ==
  ASSUME TypeInv, Look
  PROVE  TypeInv'
<1> DEFINE i == at
           f == worker_fds_[at]
           c == ConnectionAt(at)
           w == WorkerAt(at)
<1>1. at \in Slot /\ f \in Slot /\ w \in Worker /\ f # 0
  BY WorkerAtFacts DEF Look, TypeInv, IntegralTypeOK, SlotInv, Known
<1>2. /\ WorkersTypeOK /\ IntegralTypeOK /\ SlotInv
      /\ tasks \in [Connection -> Seq(Task)] /\ results \in [Connection -> Seq(Result)]
      /\ garbled \in BOOLEAN /\ assigned_tasks \in [Worker -> Seq(Task)]
      /\ descriptor \in [Slot -> Connection \cup {0}] /\ worker_fds_ \in [Slot -> Slot \cup {0}]
      /\ sum \in [Query -> [Slice -> 0 .. 2]] /\ tasks_in_progress \in [Query -> SUBSET Slice]
  BY DEF TypeInv, IntegralTypeOK, WorkersTypeOK
<1>3. c = descriptor[f] /\ c \in Connection \cup {0}
  BY <1>1, <1>2 DEF ConnectionAt
<1>4. at' \in Slot \cup {0} /\ (at' # 0 => worker_fds_'[at'] # 0)
  <2>1. at + 1 \in Nat
    BY <1>1, Numbers
  <2>2. QED
    BY <1>2, <2>1, SlotFromFacts DEF Look
<1> HIDE DEF c, w, f
\* What is sent.
<1>5. ASSUME NEW list \in Seq(Task), SendFirst(list, c), c # 0
      PROVE  tasks' \in [Connection -> Seq(Task)]
  <2>1. tasks[c] \in Seq(Task) /\ (list # << >> => Append(tasks[c], Head(list)) \in Seq(Task))
    BY <1>2, <1>3, <1>5, ListTypes
  <2>2. QED
    BY <1>2, <1>3, <1>5, <2>1 DEF SendFirst
\* What changes, in whichever of the ways.
<1>6. /\ tasks' \in [Connection -> Seq(Task)] /\ results' \in [Connection -> Seq(Result)]
      /\ garbled' \in BOOLEAN /\ assigned_tasks' \in [Worker -> Seq(Task)]
      /\ descriptor' \in [Slot -> Connection \cup {0}]
      /\ sum' \in [Query -> [Slice -> 0 .. 2]] /\ tasks_in_progress' \in [Query -> SUBSET Slice]
      /\ wid_to_delete_' \subseteq Worker /\ alive' \in BOOLEAN
      /\ \A g \in Slot : descriptor'[g] # 0 => descriptor[g] # 0
      /\ UNCHANGED <<up, queue, crashes, asked, queries_, tasks_to_do>>
  <2>1. CASE Detect(at)
    BY <1>1, <1>2, <2>1 DEF Detect, IntegralTypeOK, workerVars, queryVars, w, f
  <2>2. CASE Receive(at)
    <3>1. PICK n \in 1 .. Len(results[c]) : \E slice \in Parsed(results[c], n) :
              LET r == [Head(results[c]) EXCEPT !.slice = slice]
              IN  /\ results' = [results EXCEPT ![c] = Rest(@, n)]
                  /\ garbled' = (garbled \/ n > 1)
                  /\ IF Empty(w, r)
                     THEN /\ End
                          /\ UNCHANGED <<tasks, sum, tasks_in_progress, assigned_tasks>>
                     ELSE /\ Accept(w, r)
                          /\ SendFirst(IF Awaited(r) THEN Tail(assigned_tasks[w])
                                                     ELSE assigned_tasks[w], c)
                          /\ UNCHANGED <<alive, descriptor>>
      BY <2>2 DEF Receive, c, w
    <3>2. PICK slice \in Parsed(results[c], n) :
              LET r == [Head(results[c]) EXCEPT !.slice = slice]
              IN  IF Empty(w, r)
                  THEN /\ End
                       /\ UNCHANGED <<tasks, sum, tasks_in_progress, assigned_tasks>>
                  ELSE /\ Accept(w, r)
                       /\ SendFirst(IF Awaited(r) THEN Tail(assigned_tasks[w])
                                                  ELSE assigned_tasks[w], c)
                       /\ UNCHANGED <<alive, descriptor>>
      BY <3>1
    <3> DEFINE r == [Head(results[c]) EXCEPT !.slice = slice]
    <3>3. c \in Connection
      BY <1>3, <2>2 DEF Receive, c
    <3>4. results[c] \in Seq(Result) /\ results[c] # << >>
      BY <1>2, <3>1, <3>3
    <3>5. Head(results[c]) \in Result /\ Rest(results[c], n) \in Seq(Result)
      BY <3>4, ListTypes
    <3>6. results' \in [Connection -> Seq(Result)] /\ garbled' \in BOOLEAN
      BY <1>2, <3>1, <3>3, <3>5
    <3>7. r.value \in Task /\ r.value.query \in Query /\ r.value.slice \in Slice
      BY <3>5 DEF Result, Task
    <3>8. CASE Empty(w, r)
      <4>1. End /\ UNCHANGED <<tasks, sum, tasks_in_progress, assigned_tasks>>
        BY <3>2, <3>8
      <4> HIDE DEF r
      <4>2. UNCHANGED <<up, queue, crashes, asked, queries_, tasks_to_do, wid_to_delete_>>
        BY <2>2 DEF Receive
      <4>3. alive' \in BOOLEAN /\ descriptor' \in [Slot -> Connection \cup {0}]
            /\ \A g \in Slot : descriptor'[g] = 0
        BY <4>1 DEF End
      <4>4. wid_to_delete_' \subseteq Worker
        BY <1>2, <4>2 DEF IntegralTypeOK
      <4>5. QED
        BY <1>2, <3>6, <4>1, <4>2, <4>3, <4>4
    <3>9. CASE ~ Empty(w, r)
      <4>1. assigned_tasks[w] \in Seq(Task)
        BY <1>1, <1>2
      <4>2. Awaited(r) => Tail(assigned_tasks[w]) \in Seq(Task)
        BY <3>9, <4>1, ListTypes DEF Empty
      <4>3. tasks' \in [Connection -> Seq(Task)]
        <5> HIDE DEF r
        <5>1. (IF Awaited(r) THEN Tail(assigned_tasks[w]) ELSE assigned_tasks[w]) \in Seq(Task)
          BY <4>1, <4>2
        <5>2. SendFirst(IF Awaited(r) THEN Tail(assigned_tasks[w]) ELSE assigned_tasks[w], c)
          BY <3>2, <3>9 DEF r
        <5>3. c # 0
          BY <3>3, Numbers
        <5>4. QED
          BY <1>5, <5>1, <5>2, <5>3
      <4>4. Accept(w, r)
        BY <3>2, <3>9
      <4> HIDE DEF r
      <4>5. /\ sum' \in [Query -> [Slice -> 0 .. 2]] /\ tasks_in_progress' \in [Query -> SUBSET Slice]
            /\ assigned_tasks' \in [Worker -> Seq(Task)]
        <5>1. CASE Awaited(r)
          <6> DEFINE q == r.value.query
                     s == r.value.slice
          <6>1. sum[q] \in [Slice -> 0 .. 2] /\ sum[q][s] \in 0 .. 2 /\ q \in Query /\ s \in Slice
            BY <1>2, <3>7
          <6>2. sum' = [sum EXCEPT ![q][s] = IF @ = 2 THEN @ ELSE @ + 1]
            BY <4>4, <5>1 DEF Accept
          <6> HIDE DEF q, s
          <6>3. sum' \in [Query -> [Slice -> 0 .. 2]]
            BY <1>2, <6>1, <6>2
          <6>4. tasks_in_progress' \in [Query -> SUBSET Slice]
            <7>1. tasks_in_progress' = [tasks_in_progress EXCEPT ![q] = @ \ {r.slice}]
              BY <4>4, <5>1 DEF Accept, q
            <7>2. tasks_in_progress[q] \ {r.slice} \in SUBSET Slice
              BY <1>2, <6>1
            <7>3. QED
              BY <1>2, <6>1, <7>1, <7>2
          <6>5. assigned_tasks' \in [Worker -> Seq(Task)]
            BY <1>2, <4>2, <4>4, <5>1 DEF Accept
          <6>6. QED
            BY <6>3, <6>4, <6>5
        <5>2. CASE ~ Awaited(r)
          BY <1>2, <4>4, <5>2 DEF Accept
        <5>3. QED
          BY <5>1, <5>2
      <4>6. UNCHANGED <<alive, descriptor>>
        BY <3>2, <3>9 DEF r
      <4>7. QED
        BY <1>2, <2>2, <3>6, <4>3, <4>5, <4>6 DEF Receive, IntegralTypeOK
    <3>10. QED
      BY <3>8, <3>9
  <2>3. CASE Send(at)
    <3>1. /\ SendFirst(assigned_tasks[w], c) /\ assigned_tasks[w] \in Seq(Task)
          /\ c \in Held
      BY <1>1, <1>2, <2>3 DEF Send, w, c
    <3>2. c # 0
      BY <1>2, <3>1, Numbers DEF Held, WorkersTypeOK
    <3>3. QED
      BY <1>2, <1>5, <2>3, <3>1, <3>2 DEF Send, IntegralTypeOK, queryVars
  <2>4. CASE Skip(at)
    BY <1>2, <2>4 DEF Skip, IntegralTypeOK, workerVars, queryVars
  <2>5. QED
    BY <2>1, <2>2, <2>3, <2>4 DEF Look
<1>7. IntegralTypeOK'
  BY <1>2, <1>4, <1>6 DEF Look, IntegralTypeOK, WorkersTypeOK
<1>8. SlotInv'
  BY <1>2, <1>4, <1>6 DEF Look, SlotInv, Known
<1>9. QED
  BY <1>7, <1>8 DEF TypeInv

\* What a round hands out, with the lists and the workers named.
HandedOut == HandOut(Orphans(Gone), Stay)

LEMMA HandOutTypes ==
  ASSUME IntegralTypeOK, HandedOut, Stay \subseteq Worker
  PROVE  /\ tasks_to_do' \in [Query -> SUBSET Slice] /\ tasks_in_progress' \in [Query -> SUBSET Slice]
         /\ assigned_tasks' \in [Worker -> Seq(Task)]
<1>1. /\ \A q \in Query : Taken(q) \subseteq Slice
      /\ tasks_in_progress \in [Query -> SUBSET Slice] /\ assigned_tasks \in [Worker -> Seq(Task)]
  BY DEF Taken, IntegralTypeOK
<1>2. Orphans(Gone) \in Seq(Task) /\ ToDo \in Seq(Task)
  BY OrphansFacts, ToDoFacts DEF Gone, Known
<1>3. CASE Stay = {}
  <2>1. << >> \in Seq(Task)
    OBVIOUS
  <2>2. QED
    BY <1>1, <1>3, <2>1 DEF HandedOut, HandOut
<1>4. CASE Stay # {}
  <2>1. Orphans(Gone) \o ToDo \in Seq(Task)
    BY <1>2, ConcatProperties
  <2> DEFINE new == Orphans(Gone) \o ToDo
  <2>2. PICK to \in Placements(new, Stay) :
            assigned_tasks' = [w \in Worker |->
                IF w \in Stay THEN assigned_tasks[w] \o Share(new, to, w) ELSE << >>]
    BY <1>4 DEF HandedOut, HandOut
  <2> HIDE DEF new
  <2>3. \A w \in Worker : assigned_tasks[w] \o Share(new, to, w) \in Seq(Task)
    BY <1>1, <2>1, ShareFacts, ConcatProperties DEF new
  <2>4. << >> \in Seq(Task)
    OBVIOUS
  <2>5. assigned_tasks' \in [Worker -> Seq(Task)]
    BY <2>2, <2>3, <2>4
  <2>6. /\ tasks_in_progress' =
               [q \in Query |-> IF Taken(q) # {} THEN Taken(q) ELSE tasks_in_progress[q]]
        /\ tasks_to_do' = [q \in Query |-> IF Taken(q) # {} THEN tasks_in_progress[q] ELSE {}]
    BY <1>4 DEF HandedOut, HandOut
  <2>7. QED
    BY <1>1, <2>5, <2>6
<1>5. QED
  BY <1>3, <1>4

LEMMA RoundTypes ==
  ASSUME TypeInv, Round
  PROVE  TypeInv'
<1>1. /\ EachItsOwn(Connections) /\ SlotInv' /\ HandedOut
      /\ Joiners \subseteq Worker /\ Stay \subseteq Worker
  BY ConnectionsFacts, SlotInvRound, JoinersFit DEF Round, HandedOut, Stay, Known, Gone
<1>2. /\ tasks_to_do' \in [Query -> SUBSET Slice] /\ tasks_in_progress' \in [Query -> SUBSET Slice]
      /\ assigned_tasks' \in [Worker -> Seq(Task)]
  BY <1>1, HandOutTypes DEF TypeInv
<1>3. /\ worker_fds_' \in [Slot -> Slot \cup {0}] /\ descriptor' \in [Slot -> Connection \cup {0}]
      /\ position' \in [Worker -> Slot \cup {0}]
  BY SlotTypesAfter
<1>4. at' \in Slot \cup {0}
  BY <1>3, SlotFromFacts DEF Round
<1>5. queue' \in [Worker -> Seq(Connection)]
  <2> DEFINE to(w) == {m.connection : m \in {m \in Connections : m.worker = w}}
  <2>1. queue' = [w \in Worker |-> queue[w] \o Ascending(to(w))]
    BY DEF Round
  <2>2. \A w \in Worker : to(w) \subseteq Connection
    BY <1>1 DEF EachItsOwn, FreeConnections
  <2> HIDE DEF to
  <2>3. ASSUME NEW w \in Worker
        PROVE  queue[w] \o Ascending(to(w)) \in Seq(Connection)
    <3>1. Ascending(to(w)) \in Seq(to(w))
      BY <2>2, NumberSets, AscendingFacts
    <3>2. Ascending(to(w)) \in Seq(Connection)
      BY <2>2, <3>1
    <3>3. queue[w] \in Seq(Connection)
      BY DEF TypeInv, IntegralTypeOK, WorkersTypeOK
    <3>4. QED
      BY <3>2, <3>3, ConcatProperties
  <2>4. QED
    BY <2>1, <2>3
<1>6. tasks' \in [Connection -> Seq(Task)] /\ results' \in [Connection -> Seq(Result)]
  <2>1. << >> \in Seq(Task) /\ << >> \in Seq(Result)
    OBVIOUS
  <2>2. /\ \A c \in Connection : tasks'[c] \in {<< >>, tasks[c]} /\ results'[c] \in {<< >>, results[c]}
        /\ tasks' = [c \in Connection |-> tasks'[c]]
        /\ results' = [c \in Connection |-> results'[c]]
    BY DEF Round
  <2>3. tasks \in [Connection -> Seq(Task)] /\ results \in [Connection -> Seq(Result)]
    BY DEF TypeInv, IntegralTypeOK, WorkersTypeOK
  <2>4. QED
    BY <2>1, <2>2, <2>3
<1>7. reused' \in BOOLEAN
  <2>1. reused \in BOOLEAN
    BY DEF TypeInv, IntegralTypeOK
  <2>2. reused' = (reused \/ \E m \in Connections : \E i \in Slot : worker_fds_[i] = m.number)
    BY DEF Round
  <2>3. QED
    BY <2>1, <2>2
<1>8. /\ UNCHANGED <<up, garbled, crashes, alive, asked, sum>>
      /\ queries_' = asked /\ hb_updates_' = {} /\ wid_to_delete_' = {}
  BY DEF Round
<1>9. WorkersTypeOK'
  BY <1>5, <1>6, <1>8 DEF TypeInv, IntegralTypeOK, WorkersTypeOK
<1>10. asked' \in 0 .. Cardinality(Query) /\ queries_' \in 0 .. asked'
  <2>1. Cardinality(Query) \in Nat
    BY Numbers, FS_CardinalityType
  <2>2. QED
    BY <1>8, <2>1 DEF TypeInv, IntegralTypeOK
<1>11. IntegralTypeOK'
  BY <1>2, <1>3, <1>4, <1>7, <1>8, <1>9, <1>10 DEF TypeInv, IntegralTypeOK
<1>12. QED
  BY <1>1, <1>11 DEF TypeInv

LEMMA TypeInit ==
  LeaderInit => TypeInv
<1> SUFFICES ASSUME LeaderInit PROVE TypeInv
  OBVIOUS
<1>1. Cardinality(Query) \in Nat
  BY Numbers, FS_CardinalityType
<1>2. << >> \in Seq(Connection) /\ << >> \in Seq(Task) /\ << >> \in Seq(Result)
  OBVIOUS
<1>3. IntegralTypeOK
  <2>1. WorkersTypeOK
    BY <1>2 DEF LeaderInit, WorkersInit, WorkersTypeOK
  <2>2. sum \in [Query -> [Slice -> 0 .. 2]]
    BY DEF LeaderInit, Bag
  <2>3. asked \in 0 .. Cardinality(Query) /\ queries_ \in 0 .. asked
    BY <1>1 DEF LeaderInit
  <2>4. QED
    BY <1>2, <2>1, <2>2, <2>3 DEF LeaderInit, IntegralTypeOK
<1>4. SlotInv
  BY Numbers DEF LeaderInit, SlotInv, Known
<1>5. QED
  BY <1>3, <1>4 DEF TypeInv

LEMMA TypeNext ==
  ASSUME TypeInv, [LeaderNext]_vars
  PROVE  TypeInv'
<1>1. CASE GetResult
  <2>1. Cardinality(Query) \in Nat
    BY Numbers, FS_CardinalityType
  <2>2. asked' \in 0 .. Cardinality(Query) /\ queries_' \in 0 .. asked'
    BY <1>1, <2>1 DEF GetResult, TypeInv, IntegralTypeOK
  <2>3. WorkersTypeOK'
    BY <1>1 DEF GetResult, TypeInv, IntegralTypeOK, WorkersTypeOK, workerVars
  <2>4. QED
    BY <1>1, <2>2, <2>3 DEF GetResult, TypeInv, IntegralTypeOK, SlotInv, Known, slotVars
<1>2. CASE Round
  BY <1>2, RoundTypes
<1>3. CASE Refused
  <2>1. WorkersTypeOK'
    BY <1>3 DEF Refused, TypeInv, IntegralTypeOK, WorkersTypeOK, workerVars
  <2>2. IntegralTypeOK'
    BY <1>3, <2>1 DEF Refused, End, TypeInv, IntegralTypeOK, queryVars
  <2>3. SlotInv'
    BY <1>3 DEF Refused, End, TypeInv, SlotInv, Known
  <2>4. QED
    BY <2>2, <2>3 DEF TypeInv
<1>4. CASE Look
  BY <1>4, LookTypes
<1>5. ASSUME NEW w \in Worker, Discover(w)
      PROVE  TypeInv'
  <2>1. WorkersTypeOK'
    BY <1>5 DEF Discover, TypeInv, IntegralTypeOK, WorkersTypeOK, workerVars
  <2>2. QED
    BY <1>5, <2>1 DEF Discover, TypeInv, IntegralTypeOK, SlotInv, Known, queryVars, slotVars
<1>6. ASSUME NEW w \in Worker,
             OfWorker(w) \/ ((Boot(w) \/ Crash(w)) /\ UNCHANGED leaderVars)
      PROVE  TypeInv'
  <2>1. WorkersTypeOK'
    BY <1>6, OfWorkerTypes DEF TypeInv, IntegralTypeOK
  <2>2. UNCHANGED leaderVars
    BY <1>6 DEF OfWorker
  <2>3. QED
    BY <2>1, <2>2
    DEF TypeInv, IntegralTypeOK, SlotInv, Known, leaderVars, queryVars, slotVars
<1>7. CASE UNCHANGED vars
  <2>1. WorkersTypeOK'
    BY <1>7 DEF TypeInv, IntegralTypeOK, WorkersTypeOK, vars, workerVars
  <2>2. QED
    BY <1>7, <2>1
    DEF TypeInv, IntegralTypeOK, SlotInv, Known, vars, leaderVars, queryVars, slotVars
<1>8. QED
  BY <1>1, <1>2, <1>3, <1>4, <1>5, <1>6, <1>7 DEF LeaderNext

\* The variables of the leader, the workers and their connections keep their
\* types. The proof goes through TypeInv, where slots, descriptors and known
\* workers also agree.
THEOREM IntegralTypeHolds == LeaderSpec => []IntegralTypeOK
<1>1. TypeInv /\ [LeaderNext]_vars => TypeInv'
  BY TypeNext
<1>2. TypeInv => IntegralTypeOK
  BY DEF TypeInv
<1>3. QED
  BY <1>1, <1>2, TypeInit, PTL DEF LeaderSpec
-----------------------------------------------------------------------------
(***************************************************************************)
(* Steps that leave the books alone.                                       *)
(***************************************************************************)
Books == <<queries_, tasks_to_do, tasks_in_progress, sum, worker_fds_, position, assigned_tasks>>

LEMMA SameBooks ==
  ASSUME BooksInv, UNCHANGED Books
  PROVE  ListsInv' /\ WaitInv' /\ FutureInv' /\ SumsInv' /\ Known' = Known /\ Known \subseteq Worker
<1>1. Known' = Known /\ Known \subseteq Worker
  BY DEF Known, Books
<1>2. ListsInv'
  BY <1>1 DEF BooksInv, ListsInv, InProgress, Has, Books
<1>3. WaitInv'
  BY <1>1 DEF BooksInv, WaitInv, Books
<1>4. FutureInv'
  BY DEF BooksInv, FutureInv, Books
<1>5. SumsInv'
  BY DEF BooksInv, SumsInv, Books
<1>6. QED
  BY <1>1, <1>2, <1>3, <1>4, <1>5

\* Connections may be closed, and messages may get lost or become results.
LEMMA Quiet ==
  ASSUME TypeInv, BooksInv, UNCHANGED Books,
         \A f \in Slot : descriptor'[f] \in {0, descriptor[f]},
         MessagesInv',
         \A c \in Connection, t \in Task : OnTheWay(c, t)' => OnTheWay(c, t)
  PROVE  BooksInv'
<1>1. NumbersInv'
  BY DEF BooksInv, NumbersInv, Books
<1>2. Known' = Known /\ Known \subseteq Worker
  BY SameBooks
<1>3. FirstInv'
  <2>1. ASSUME NEW w \in Known, NEW c \in Connection, NEW t \in Task,
               ConnectionTo(w)' = c, OnTheWay(c, t)', InProgress(t)
        PROVE  assigned_tasks[w] # << >> /\ Head(assigned_tasks[w]) = t
    <3>1. worker_fds_[position[w]] \in Slot
      BY DEF TypeInv, IntegralTypeOK, SlotInv, Known
    <3>2. ConnectionTo(w) = c
      BY <2>1, <3>1, Numbers DEF ConnectionTo, Books
    <3>3. OnTheWay(c, t)
      BY <2>1
    <3>4. QED
      BY <2>1, <3>2, <3>3 DEF BooksInv, FirstInv
  <2>2. QED
    BY <1>2, <2>1 DEF FirstInv, InProgress, Books
<1>4. QED
  BY <1>1, <1>3, SameBooks DEF BooksInv

\* Messages get lost.
LEMMA MessagesLost ==
  ASSUME MessagesInv, UNCHANGED queries_,
         \A c \in Connection : tasks'[c] \in {<< >>, tasks[c]} /\ results'[c] \in {<< >>, results[c]}
  PROVE  /\ MessagesInv'
         /\ \A c \in Connection, t \in Task : OnTheWay(c, t)' => OnTheWay(c, t)
<1>1. \A c \in Connection :
          /\ \A k \in DOMAIN tasks'[c] : k \in DOMAIN tasks[c] /\ tasks'[c][k] = tasks[c][k]
          /\ \A k \in DOMAIN results'[c] : k \in DOMAIN results[c] /\ results'[c][k] = results[c][k]
  OBVIOUS
<1>2. QED
  BY <1>1 DEF MessagesInv, OnTheWay

LEMMA RestFacts ==
  ASSUME NEW S, NEW s \in Seq(S), NEW n \in 1 .. Len(s)
  PROVE  \A k \in DOMAIN Rest(s, n) : n + k \in DOMAIN s /\ Rest(s, n)[k] = s[n + k]
<1>1. n + 1 \in Int /\ Len(s) \in Int /\ \A i \in n + 1 .. Len(s) : s[i] \in S
  OBVIOUS
<1>2. /\ Rest(s, n) \in Seq(S)
      /\ Len(Rest(s, n)) = IF n + 1 <= Len(s) THEN Len(s) - (n + 1) + 1 ELSE 0
      /\ \A k \in 1 .. Len(s) - (n + 1) + 1 : Rest(s, n)[k] = s[n + 1 + k - 1]
  BY <1>1, SubSeqProperties DEF Rest
<1>3. QED
  BY <1>2

\* Of what is sent and arrives: an element of Append is an old one or the new one.
LEMMA AppendFacts ==
  ASSUME NEW S, NEW s \in Seq(S), NEW e \in S
  PROVE  \A k \in DOMAIN Append(s, e) :
             \/ k \in DOMAIN s /\ Append(s, e)[k] = s[k]
             \/ Append(s, e)[k] = e
  OBVIOUS

LEMMA WorkBooks ==
  ASSUME TypeInv, BooksInv, NEW w \in Worker, Work(w), UNCHANGED leaderVars, ~ garbled'
  PROVE  BooksInv'
<1> DEFINE c == Head(queue[w])
           t == Head(tasks[c])
           r == [value |-> t, slice |-> t.slice]
<1>1. queue[w] \in Seq(Connection) /\ queue[w] # << >>
  BY DEF TypeInv, IntegralTypeOK, WorkersTypeOK, Work
<1>2. c \in Connection
  BY <1>1, ListTypes
<1>3. tasks \in [Connection -> Seq(Task)] /\ results \in [Connection -> Seq(Result)]
  BY DEF TypeInv, IntegralTypeOK, WorkersTypeOK
<1>4. PICK n \in 1 .. Len(tasks[c]) : \E slice \in Parsed(tasks[c], n) :
          /\ results' = [results EXCEPT ![c] = Append(@, [value |-> Head(tasks[c]), slice |-> slice])]
          /\ tasks' = [tasks EXCEPT ![c] = Rest(@, n)]
          /\ garbled' = (garbled \/ n > 1)
  BY DEF Work
<1> HIDE DEF c
<1>5. tasks[c] \in Seq(Task) /\ tasks[c] # << >> /\ results[c] \in Seq(Result) /\ Len(tasks[c]) \in Nat
  BY <1>2, <1>3
<1>6. n = 1
  <2>1. ~ (n > 1)
    BY <1>4
  <2>2. QED
    BY <1>5, <2>1
<1>7. /\ results' = [results EXCEPT ![c] = Append(@, r)]
      /\ tasks' = [tasks EXCEPT ![c] = Rest(@, 1)]
  BY <1>4, <1>6 DEF Parsed
<1>8. t \in Task /\ t = tasks[c][1] /\ 1 \in DOMAIN tasks[c]
  BY <1>5, ListTypes
<1>9. r \in Result /\ r.value = t /\ r.slice = t.slice
  BY <1>8 DEF Result, Task
<1> HIDE DEF t, r
<1>10. /\ \A k \in DOMAIN tasks'[c] : 1 + k \in DOMAIN tasks[c] /\ tasks'[c][k] = tasks[c][1 + k]
       /\ \A k \in DOMAIN results'[c] :
              \/ k \in DOMAIN results[c] /\ results'[c][k] = results[c][k]
              \/ results'[c][k] = r
       /\ \A d \in Connection : d # c => tasks'[d] = tasks[d] /\ results'[d] = results[d]
  <2>1. tasks'[c] = Rest(tasks[c], 1) /\ results'[c] = Append(results[c], r)
    BY <1>2, <1>3, <1>7
  <2>2. \A d \in Connection : d # c => tasks'[d] = tasks[d] /\ results'[d] = results[d]
    BY <1>2, <1>3, <1>7
  <2>3. \A k \in DOMAIN tasks'[c] : 1 + k \in DOMAIN tasks[c] /\ tasks'[c][k] = tasks[c][1 + k]
    BY <1>4, <1>5, <1>6, <2>1, RestFacts
  <2>4. QED
    BY <1>5, <1>9, <2>1, <2>2, <2>3, AppendFacts
<1>11. UNCHANGED queries_ /\ UNCHANGED Books /\ UNCHANGED descriptor
  BY DEF leaderVars, queryVars, slotVars, Books
<1>12. MessagesInv'
  BY <1>2, <1>8, <1>9, <1>10, <1>11 DEF BooksInv, MessagesInv
<1>13. \A d \in Connection, u \in Task : OnTheWay(d, u)' => OnTheWay(d, u)
  BY <1>2, <1>8, <1>9, <1>10 DEF OnTheWay
<1>14. \A f \in Slot : descriptor'[f] \in {0, descriptor[f]}
  BY <1>11
<1>15. QED
  BY <1>11, <1>12, <1>13, <1>14, Quiet

LEMMA WorkerBooks ==
  ASSUME TypeInv, BooksInv, ~ garbled', NEW w \in Worker,
         OfWorker(w) \/ ((Boot(w) \/ Crash(w)) /\ UNCHANGED leaderVars)
  PROVE  BooksInv'
<1>1. UNCHANGED leaderVars
  BY DEF OfWorker
<1>2. CASE Work(w)
  BY <1>1, <1>2, WorkBooks
<1>3. CASE HangUp(w, Open) \/ Boot(w) \/ Crash(w)
  <2>1. UNCHANGED Books /\ UNCHANGED queries_ /\ UNCHANGED descriptor
    BY <1>1 DEF leaderVars, queryVars, slotVars, Books
  <2>2. \A c \in Connection : tasks'[c] \in {<< >>, tasks[c]} /\ results'[c] \in {<< >>, results[c]}
    <3>1. tasks \in [Connection -> Seq(Task)]
      BY DEF TypeInv, IntegralTypeOK, WorkersTypeOK
    <3>2. CASE Die(w)
      BY <3>2 DEF Die
    <3>3. CASE /\ tasks' = [tasks EXCEPT ![Head(queue[w])] = << >>] /\ UNCHANGED results
      BY <3>1, <3>3
    <3>4. QED
      BY <1>3, <3>2, <3>3 DEF HangUp, Boot, Crash
  <2>3. /\ MessagesInv'
        /\ \A c \in Connection, t \in Task : OnTheWay(c, t)' => OnTheWay(c, t)
    BY <2>1, <2>2, MessagesLost DEF BooksInv
  <2>4. \A f \in Slot : descriptor'[f] \in {0, descriptor[f]}
    BY <2>1
  <2>5. QED
    BY <2>1, <2>3, <2>4, Quiet
<1>4. QED
  BY <1>2, <1>3 DEF OfWorker

\* Steps of the leader that touch neither messages nor books.
LEMMA StillBooks ==
  ASSUME TypeInv, BooksInv, UNCHANGED Books, UNCHANGED workerVars,
         \A f \in Slot : descriptor'[f] \in {0, descriptor[f]}
  PROVE  BooksInv'
<1>1. UNCHANGED queries_ /\ UNCHANGED <<tasks, results>>
  BY DEF Books, workerVars
<1>2. \A c \in Connection : tasks'[c] \in {<< >>, tasks[c]} /\ results'[c] \in {<< >>, results[c]}
  BY <1>1
<1>3. /\ MessagesInv'
      /\ \A c \in Connection, t \in Task : OnTheWay(c, t)' => OnTheWay(c, t)
  BY <1>1, <1>2, MessagesLost DEF BooksInv
<1>4. QED
  BY <1>3, Quiet
-----------------------------------------------------------------------------
(***************************************************************************)
(* What a round does at a slot.                                            *)
(***************************************************************************)
LEMMA OwnConnection ==
  ASSUME TypeInv, NumbersInv, NEW v \in Known, NEW w \in Known,
         ConnectionTo(v) # 0, ConnectionTo(v) = ConnectionTo(w)
  PROVE  v = w
<1>1. /\ position[v] \in Slot /\ position[w] \in Slot
      /\ worker_fds_[position[v]] \in Slot /\ worker_fds_[position[w]] \in Slot
  BY DEF TypeInv, IntegralTypeOK, SlotInv, Known
<1>2. worker_fds_[position[v]] = worker_fds_[position[w]]
  BY <1>1 DEF NumbersInv, ConnectionTo
<1>3. position[v] = position[w]
  BY <1>1, <1>2, Numbers DEF NumbersInv
<1>4. QED
  BY <1>3 DEF TypeInv, SlotInv

LEMMA SendFirstFacts ==
  ASSUME tasks \in [Connection -> Seq(Task)], NEW list \in Seq(Task), NEW c \in Connection,
         SendFirst(list, c)
  PROVE  \A d \in Connection : \A k \in DOMAIN tasks'[d] :
             \/ k \in DOMAIN tasks[d] /\ tasks'[d][k] = tasks[d][k]
             \/ d = c /\ list # << >> /\ tasks'[d][k] = Head(list)
<1>1. CASE UNCHANGED tasks
  BY <1>1
<1>2. CASE list # << >> /\ tasks' = [tasks EXCEPT ![c] = Append(@, Head(list))]
  <2>1. Head(list) \in Task /\ tasks[c] \in Seq(Task)
    BY <1>2, ListTypes
  <2>2. \A k \in DOMAIN Append(tasks[c], Head(list)) :
            \/ k \in DOMAIN tasks[c] /\ Append(tasks[c], Head(list))[k] = tasks[c][k]
            \/ Append(tasks[c], Head(list))[k] = Head(list)
    BY <2>1, AppendFacts
  <2>3. tasks'[c] = Append(tasks[c], Head(list)) /\ \A d \in Connection : d # c => tasks'[d] = tasks[d]
    BY <1>2
  <2>4. QED
    BY <1>2, <2>2, <2>3
<1>3. QED
  BY <1>1, <1>2 DEF SendFirst

\* What is in a list is in progress, and its query has been taken.
LEMMA HeadTaken ==
  ASSUME TypeInv, ListsInv, FutureInv, NEW w \in Worker, NEW i \in DOMAIN assigned_tasks[w]
  PROVE  /\ assigned_tasks[w][i] \in Task /\ assigned_tasks[w][i].query <= queries_
         /\ InProgress(assigned_tasks[w][i])
<1>1. assigned_tasks[w] \in Seq(Task) /\ queries_ \in Nat
  BY DEF TypeInv, IntegralTypeOK
<1>2. assigned_tasks[w][i] \in Task /\ i \in Nat
  BY <1>1
<1> DEFINE t == assigned_tasks[w][i]
<1>3. InProgress(t)
  BY <1>2 DEF ListsInv, Has
<1> HIDE DEF t
<1>4. t.query \in Query /\ t.query \in Nat /\ tasks_in_progress[t.query] # {}
  BY <1>2, <1>3, Numbers DEF t, Task, InProgress
<1>5. ~ (t.query > queries_)
  BY <1>4 DEF FutureInv
<1>6. QED
  BY <1>1, <1>2, <1>3, <1>4, <1>5 DEF t

\* The first task of the worker is sent, and results may have been read.
LEMMA SendBooks ==
  ASSUME TypeInv, BooksInv, NEW w \in Known, NEW c \in Connection, ConnectionTo(w) = c,
         UNCHANGED Books, UNCHANGED descriptor, SendFirst(assigned_tasks[w], c),
         \A d \in Connection : \A k \in DOMAIN results'[d] :
             \E l \in DOMAIN results[d] : results'[d][k] = results[d][l]
  PROVE  BooksInv'
<1>1. /\ w \in Worker /\ assigned_tasks[w] \in Seq(Task) /\ tasks \in [Connection -> Seq(Task)]
      /\ Known' = Known
  BY SameBooks DEF Known, TypeInv, IntegralTypeOK, WorkersTypeOK
<1>2. \A d \in Connection : \A k \in DOMAIN tasks'[d] :
          \/ k \in DOMAIN tasks[d] /\ tasks'[d][k] = tasks[d][k]
          \/ d = c /\ assigned_tasks[w] # << >> /\ tasks'[d][k] = Head(assigned_tasks[w])
  BY <1>1, SendFirstFacts
<1>3. assigned_tasks[w] # << >> =>
          Head(assigned_tasks[w]) \in Task /\ Head(assigned_tasks[w]).query <= queries_
  <2>1. assigned_tasks[w] # << >> =>
            1 \in DOMAIN assigned_tasks[w] /\ Head(assigned_tasks[w]) = assigned_tasks[w][1]
    BY <1>1
  <2>2. QED
    BY <1>1, <2>1, HeadTaken DEF BooksInv
<1>4. MessagesInv'
  BY <1>2, <1>3 DEF BooksInv, MessagesInv, Books
<1>5. FirstInv'
  <2>1. ASSUME NEW v \in Known, NEW d \in Connection, NEW u \in Task,
               ConnectionTo(v) = d, OnTheWay(d, u)', InProgress(u)
        PROVE  assigned_tasks[v] # << >> /\ Head(assigned_tasks[v]) = u
    <3>1. CASE OnTheWay(d, u)
      BY <2>1, <3>1 DEF BooksInv, FirstInv
    <3>2. CASE d = c /\ assigned_tasks[w] # << >> /\ u = Head(assigned_tasks[w])
      <4>1. v = w
        BY <2>1, <3>2, OwnConnection, Numbers DEF BooksInv
      <4>2. QED
        BY <3>2, <4>1
    <3>3. QED
      BY <1>2, <2>1, <3>1, <3>2 DEF OnTheWay
  <2>2. QED
    BY <1>1, <2>1 DEF FirstInv, ConnectionTo, InProgress, Books
<1>6. NumbersInv'
  BY DEF BooksInv, NumbersInv, Books
<1>7. QED
  BY <1>4, <1>5, <1>6, SameBooks DEF BooksInv

\* The result of t is added, and t erased.
Added(w, t) ==
    /\ sum' = [sum EXCEPT ![t.query][t.slice] = IF @ = 2 THEN @ ELSE @ + 1]
    /\ tasks_in_progress' = [tasks_in_progress EXCEPT ![t.query] = @ \ {t.slice}]
    /\ assigned_tasks' = [assigned_tasks EXCEPT ![w] = Tail(@)]

LEMMA AddedLists ==
  ASSUME TypeInv, BooksInv, NEW w \in Known, NEW t \in Task, Added(w, t), InProgress(t),
         assigned_tasks[w] # << >>, Head(assigned_tasks[w]) = t, Known' = Known
  PROVE  /\ ListsInv'
         /\ \A u \in Task : InProgress(u)' <=> InProgress(u) /\ u # t
<1>1. /\ w \in Worker /\ assigned_tasks \in [Worker -> Seq(Task)]
      /\ tasks_in_progress \in [Query -> SUBSET Slice]
  BY DEF Known, TypeInv, IntegralTypeOK
<1>2. \A u \in Task : InProgress(u)' <=> InProgress(u) /\ u # t
  <2>1. ASSUME NEW u \in Task
        PROVE  InProgress(u)' <=> InProgress(u) /\ u # t
    <3>1. u = [query |-> u.query, slice |-> u.slice] /\ t = [query |-> t.query, slice |-> t.slice]
      BY DEF Task
    <3>2. u.query \in Query /\ t.query \in Query
      BY DEF Task
    <3>3. tasks_in_progress'[u.query] = IF u.query = t.query
                                        THEN tasks_in_progress[u.query] \ {t.slice}
                                        ELSE tasks_in_progress[u.query]
      BY <1>1, <3>2 DEF Added
    <3>4. u = t <=> u.query = t.query /\ u.slice = t.slice
      BY <3>1
    <3>5. QED
      BY <3>3, <3>4 DEF InProgress
  <2>2. QED
    BY <2>1
<1>3. /\ assigned_tasks[w] \in Seq(Task) /\ Tail(assigned_tasks[w]) \in Seq(Task)
      /\ assigned_tasks[w][1] = t /\ 1 \in DOMAIN assigned_tasks[w]
      /\ \A i \in Nat : i \in DOMAIN Tail(assigned_tasks[w]) <=> i # 0 /\ i + 1 \in DOMAIN assigned_tasks[w]
      /\ \A i \in DOMAIN Tail(assigned_tasks[w]) :
             Tail(assigned_tasks[w])[i] = assigned_tasks[w][i + 1]
  <2>1. assigned_tasks[w] \in Seq(Task)
    BY <1>1
  <2>2. /\ Tail(assigned_tasks[w]) \in Seq(Task)
        /\ Len(Tail(assigned_tasks[w])) = Len(assigned_tasks[w]) - 1
        /\ \A i \in 1 .. Len(Tail(assigned_tasks[w])) :
               Tail(assigned_tasks[w])[i] = assigned_tasks[w][i + 1]
    BY <2>1, HeadTailProperties
  <2>3. QED
    BY <2>1, <2>2
<1>4. /\ \A i \in Nat, u \in Task : Has(w, i, u)' <=> i # 0 /\ Has(w, i + 1, u)
      /\ \A v \in Worker, i \in Nat, u \in Task : v # w => (Has(v, i, u)' <=> Has(v, i, u))
  <2>1. assigned_tasks'[w] = Tail(assigned_tasks[w])
    BY <1>1 DEF Added
  <2>2. \A v \in Worker : v # w => assigned_tasks'[v] = assigned_tasks[v]
    BY <1>1 DEF Added
  <2>3. QED
    BY <1>3, <2>1, <2>2 DEF Has
<1>5. Has(w, 1, t)
  BY <1>3 DEF Has
<1>6. ASSUME NEW u \in Task, InProgress(u)'
      PROVE  \E v \in Known', i \in Nat : Has(v, i, u)'
  <2>1. PICK v \in Known, i \in Nat : Has(v, i, u)
    BY <1>2, <1>6 DEF BooksInv, ListsInv
  <2>2. CASE v = w
    <3>1. i # 0 /\ i # 1
      <4>1. i \in DOMAIN assigned_tasks[w] /\ u # t
        BY <1>2, <1>6, <2>1, <2>2 DEF Has
      <4>2. QED
        BY <1>3, <2>1, <2>2, <4>1 DEF Has
    <3>2. i - 1 \in Nat /\ i - 1 # 0 /\ (i - 1) + 1 = i
      BY <3>1
    <3>3. Has(w, i - 1, u)'
      BY <1>4, <2>1, <2>2, <3>2
    <3>4. QED
      BY <3>2, <3>3
  <2>3. CASE v # w
    BY <1>4, <2>1, <2>3 DEF Known
  <2>4. QED
    BY <2>2, <2>3
<1>7. ASSUME NEW u \in Task, NEW v \in Worker, NEW i \in Nat, Has(v, i, u)'
      PROVE  v \in Known' /\ InProgress(u)'
  <2>1. \E l \in Nat : Has(v, l, u) /\ ~ (v = w /\ l = 1)
    BY <1>4, <1>7
  <2>2. v \in Known /\ InProgress(u)
    BY <2>1 DEF BooksInv, ListsInv
  <2>3. u # t
    BY <1>1, <1>5, <2>1 DEF BooksInv, ListsInv
  <2>4. QED
    BY <1>2, <2>2, <2>3
<1>8. ASSUME NEW u \in Task, NEW v \in Worker, NEW x \in Worker, NEW i \in Nat, NEW j \in Nat,
             Has(v, i, u)', Has(x, j, u)'
      PROVE  v = x /\ i = j
  <2>1. CASE v = w /\ x = w
    <3>1. Has(w, i + 1, u) /\ Has(w, j + 1, u) /\ i + 1 \in Nat /\ j + 1 \in Nat
      BY <1>4, <1>8, <2>1
    <3>2. i + 1 = j + 1
      BY <1>1, <3>1 DEF BooksInv, ListsInv
    <3>3. QED
      BY <2>1, <3>2
  <2>2. CASE v = w /\ x # w
    <3>1. Has(w, i + 1, u) /\ Has(x, j, u) /\ i + 1 \in Nat
      BY <1>4, <1>8, <2>2
    <3>2. QED
      BY <1>1, <2>2, <3>1 DEF BooksInv, ListsInv
  <2>3. CASE v # w /\ x = w
    <3>1. Has(v, i, u) /\ Has(w, j + 1, u) /\ j + 1 \in Nat
      BY <1>4, <1>8, <2>3
    <3>2. QED
      BY <1>1, <2>3, <3>1 DEF BooksInv, ListsInv
  <2>4. CASE v # w /\ x # w
    <3>1. Has(v, i, u) /\ Has(x, j, u)
      BY <1>4, <1>8, <2>4
    <3>2. QED
      BY <3>1 DEF BooksInv, ListsInv
  <2>5. QED
    BY <2>1, <2>2, <2>3, <2>4
<1>9. QED
  BY <1>2, <1>6, <1>7, <1>8 DEF ListsInv

LEMMA AddedSums ==
  ASSUME TypeInv, BooksInv, NEW w \in Known, NEW t \in Task, Added(w, t), InProgress(t),
         UNCHANGED <<queries_, tasks_to_do>>
  PROVE  SumsInv'
<1> DEFINE q == t.query
           s == t.slice
<1>1. /\ sum \in [Query -> [Slice -> 0 .. 2]] /\ tasks_in_progress \in [Query -> SUBSET Slice]
      /\ q \in Query /\ s \in Slice /\ s \in tasks_in_progress[q] /\ tasks_to_do[q] = {}
  BY DEF TypeInv, IntegralTypeOK, Task, InProgress, BooksInv, WaitInv
<1>2. /\ sum' = [sum EXCEPT ![q][s] = IF @ = 2 THEN @ ELSE @ + 1]
      /\ tasks_in_progress' = [tasks_in_progress EXCEPT ![q] = @ \ {s}]
  BY DEF Added
<1>3. queries_ \in Nat /\ 1 .. queries_ \subseteq Query /\ tasks_to_do' = tasks_to_do /\ queries_' = queries_
  <2>1. Cardinality(Query) \in Nat /\ Query = 1 .. Cardinality(Query)
    BY Numbers, FS_CardinalityType, LeaderAssumption
  <2>2. queries_ \in 0 .. asked /\ asked \in 0 .. Cardinality(Query)
    BY DEF TypeInv, IntegralTypeOK
  <2>3. QED
    BY <2>1, <2>2
<1> HIDE DEF q, s
<1>4. ASSUME NEW p \in 1 .. queries_
      PROVE  sum'[p] = Bag(Slice \ (tasks_to_do[p] \cup tasks_in_progress'[p]))
  <2>0. p \in Query /\ sum[p] = Bag(Slice \ (tasks_to_do[p] \cup tasks_in_progress[p]))
    BY <1>3 DEF BooksInv, SumsInv
  <2>1. CASE p # q
    BY <1>1, <1>2, <2>0, <2>1
  <2>2. CASE p = q
    <3>1. sum'[q] = [sum[q] EXCEPT ![s] = IF @ = 2 THEN @ ELSE @ + 1]
      BY <1>1, <1>2
    <3>2. tasks_in_progress'[q] = tasks_in_progress[q] \ {s}
      BY <1>1, <1>2
    <3>3. sum[q] = [x \in Slice |-> IF x \in Slice \ tasks_in_progress[q] THEN 1 ELSE 0]
      BY <1>1, <2>0, <2>2 DEF Bag
    <3>4. sum'[q] = [x \in Slice |-> IF x = s THEN 1 ELSE sum[q][x]]
      BY <1>1, <3>1, <3>3
    <3>5. sum'[q] = [x \in Slice |-> IF x \in Slice \ tasks_in_progress'[q] THEN 1 ELSE 0]
      BY <1>1, <3>2, <3>3, <3>4
    <3>6. QED
      BY <1>1, <2>2, <3>5 DEF Bag
  <2>3. QED
    BY <2>1, <2>2
<1>5. QED
  BY <1>3, <1>4 DEF SumsInv

LEMMA AcceptBooks ==
  ASSUME TypeInv, BooksInv, NEW w \in Known, NEW c \in Connection, ConnectionTo(w) = c,
         NEW t \in Task, OnTheWay(c, t), InProgress(t), Added(w, t),
         UNCHANGED <<queries_, tasks_to_do, worker_fds_, position, descriptor>>,
         SendFirst(Tail(assigned_tasks[w]), c),
         \A d \in Connection : \A k \in DOMAIN results'[d] :
             \E l \in DOMAIN results[d] : results'[d][k] = results[d][l]
  PROVE  BooksInv'
<1>1. assigned_tasks[w] # << >> /\ Head(assigned_tasks[w]) = t
  BY DEF BooksInv, FirstInv
<1>2. /\ w \in Worker /\ assigned_tasks \in [Worker -> Seq(Task)]
      /\ tasks \in [Connection -> Seq(Task)] /\ Known' = Known /\ Known \subseteq Worker
      /\ tasks_in_progress \in [Query -> SUBSET Slice] /\ sum \in [Query -> [Slice -> 0 .. 2]]
      /\ t.query \in Query
  BY DEF Known, TypeInv, IntegralTypeOK, WorkersTypeOK, Task
<1>3. ListsInv' /\ \A u \in Task : InProgress(u)' <=> InProgress(u) /\ u # t
  BY <1>1, <1>2, AddedLists
<1>4. SumsInv'
  BY AddedSums
<1>5. assigned_tasks[w] \in Seq(Task) /\ Tail(assigned_tasks[w]) \in Seq(Task)
  BY <1>1, <1>2, ListTypes
<1>6. \A d \in Connection : \A k \in DOMAIN tasks'[d] :
          \/ k \in DOMAIN tasks[d] /\ tasks'[d][k] = tasks[d][k]
          \/ d = c /\ Tail(assigned_tasks[w]) # << >> /\ tasks'[d][k] = Head(Tail(assigned_tasks[w]))
  <2> DEFINE list == Tail(assigned_tasks[w])
  <2>1. list \in Seq(Task) /\ SendFirst(list, c)
    BY <1>5
  <2>2. tasks \in [Connection -> Seq(Task)]
    BY <1>2
  <2> HIDE DEF list
  <2>3. \A d \in Connection : \A k \in DOMAIN tasks'[d] :
            \/ k \in DOMAIN tasks[d] /\ tasks'[d][k] = tasks[d][k]
            \/ d = c /\ list # << >> /\ tasks'[d][k] = Head(list)
    BY <2>1, <2>2, SendFirstFacts
  <2>4. QED
    BY <2>3 DEF list
<1>7. Tail(assigned_tasks[w]) # << >> => Head(Tail(assigned_tasks[w])).query <= queries_
  <2>1. Tail(assigned_tasks[w]) # << >> => /\ 2 \in DOMAIN assigned_tasks[w]
                                           /\ Head(Tail(assigned_tasks[w])) = assigned_tasks[w][2]
    <3>1. /\ Len(Tail(assigned_tasks[w])) = Len(assigned_tasks[w]) - 1
          /\ \A i \in 1 .. Len(Tail(assigned_tasks[w])) :
                 Tail(assigned_tasks[w])[i] = assigned_tasks[w][i + 1]
      BY <1>1, <1>5, HeadTailProperties
    <3>2. QED
      BY <1>5, <3>1
  <2>2. QED
    BY <1>2, <2>1, HeadTaken DEF BooksInv
<1>8. MessagesInv'
  BY <1>6, <1>7 DEF BooksInv, MessagesInv
<1>9. FirstInv'
  <2>1. ASSUME NEW v \in Known, NEW d \in Connection, NEW u \in Task,
               ConnectionTo(v) = d, OnTheWay(d, u)', InProgress(u), u # t
        PROVE  assigned_tasks'[v] # << >> /\ Head(assigned_tasks'[v]) = u
    <3>0. v \in Worker
      BY <1>2
    <3>1. CASE OnTheWay(d, u)
      <4>1. assigned_tasks[v] # << >> /\ Head(assigned_tasks[v]) = u
        BY <2>1, <3>1 DEF BooksInv, FirstInv
      <4>2. v # w
        BY <1>1, <2>1, <4>1
      <4>3. QED
        BY <1>2, <3>0, <4>1, <4>2 DEF Added
    <3>2. CASE d = c /\ Tail(assigned_tasks[w]) # << >> /\ u = Head(Tail(assigned_tasks[w]))
      <4>1. v = w
        BY <2>1, <3>2, OwnConnection, Numbers DEF BooksInv
      <4>2. QED
        BY <1>2, <3>2, <4>1 DEF Added
    <3>3. QED
      BY <1>6, <2>1, <3>1, <3>2 DEF OnTheWay
  <2>2. QED
    BY <1>2, <1>3, <2>1 DEF FirstInv, ConnectionTo
<1>10. NumbersInv'
  BY DEF BooksInv, NumbersInv
<1>11. WaitInv'
  BY <1>2 DEF BooksInv, WaitInv, Added
<1>12. FutureInv'
  <2>1. ASSUME NEW q \in Query, q > queries_
        PROVE  q # t.query
    BY <1>2, <2>1 DEF BooksInv, FutureInv, InProgress
  <2>2. \A q \in Query : q # t.query =>
            sum'[q] = sum[q] /\ tasks_in_progress'[q] = tasks_in_progress[q]
    BY <1>2 DEF Added
  <2>3. QED
    BY <2>1, <2>2 DEF BooksInv, FutureInv
<1>13. QED
  BY <1>3, <1>4, <1>8, <1>9, <1>10, <1>11, <1>12 DEF BooksInv

LEMMA LookBooks ==
  ASSUME TypeInv, BooksInv, Look, ~ garbled'
  PROVE  BooksInv'
<1> DEFINE w == WorkerAt(at)
           c == ConnectionAt(at)
<1>1. /\ w \in Known /\ position[w] = at
      /\ c = ConnectionTo(w) /\ c \in Connection \cup {0}
  <2>1. at \in Slot /\ worker_fds_[at] # 0 /\ worker_fds_[at] \in Slot
    BY DEF Look, TypeInv, IntegralTypeOK, SlotInv
  <2>2. w \in Known /\ position[w] = at
    BY <2>1, WorkerAtFacts
  <2>3. QED
    BY <2>1, <2>2 DEF ConnectionAt, ConnectionTo, TypeInv, IntegralTypeOK
<1>2. /\ tasks \in [Connection -> Seq(Task)] /\ results \in [Connection -> Seq(Result)]
      /\ descriptor \in [Slot -> Connection \cup {0}]
      /\ w \in Worker /\ assigned_tasks[w] \in Seq(Task)
  BY <1>1 DEF Known, TypeInv, IntegralTypeOK, WorkersTypeOK
<1>3. UNCHANGED <<worker_fds_, position>>
  BY DEF Look
<1> HIDE DEF w, c
<1>4. CASE Detect(at)
  <2>1. UNCHANGED Books /\ UNCHANGED workerVars
    BY <1>3, <1>4 DEF Detect, Books, queryVars
  <2>2. \A f \in Slot : descriptor'[f] \in {0, descriptor[f]}
    BY <1>2, <1>4 DEF Detect
  <2>3. QED
    BY <2>1, <2>2, StillBooks
<1>5. CASE Skip(at)
  <2>1. UNCHANGED Books /\ UNCHANGED workerVars /\ UNCHANGED descriptor
    BY <1>3, <1>5 DEF Skip, Books, queryVars
  <2>2. QED
    BY <2>1, StillBooks
<1>6. CASE Send(at)
  <2>1. UNCHANGED Books /\ UNCHANGED descriptor /\ UNCHANGED results
    BY <1>3, <1>6 DEF Send, Books, queryVars
  <2>2. SendFirst(assigned_tasks[w], c) /\ c \in Connection
    BY <1>6 DEF Send, w, c, Held, TypeInv, IntegralTypeOK, WorkersTypeOK
  <2>3. QED
    BY <1>1, <2>1, <2>2, SendBooks
<1>7. CASE Receive(at)
  <2>1. c \in Connection
    BY <1>1, <1>7 DEF Receive, c
  <2>2. PICK n \in 1 .. Len(results[c]) : \E slice \in Parsed(results[c], n) :
            LET r == [Head(results[c]) EXCEPT !.slice = slice]
            IN  /\ results' = [results EXCEPT ![c] = Rest(@, n)]
                /\ garbled' = (garbled \/ n > 1)
                /\ IF Empty(w, r)
                   THEN /\ End
                        /\ UNCHANGED <<tasks, sum, tasks_in_progress, assigned_tasks>>
                   ELSE /\ Accept(w, r)
                        /\ SendFirst(IF Awaited(r) THEN Tail(assigned_tasks[w])
                                                   ELSE assigned_tasks[w], c)
                        /\ UNCHANGED <<alive, descriptor>>
    BY <1>7 DEF Receive, c, w
  <2>3. results[c] \in Seq(Result) /\ Len(results[c]) \in Nat /\ results[c] # << >>
    BY <1>2, <2>1, <2>2
  <2>4. n = 1
    <3>1. ~ (n > 1)
      BY <2>2
    <3>2. QED
      BY <2>3, <3>1
  <2> DEFINE r == Head(results[c])
             t == r.value
  <2>5. /\ r \in Result /\ t \in Task /\ r.slice = t.slice
        /\ OnTheWay(c, t) /\ [r EXCEPT !.slice = r.slice] = r
    <3>1. r = results[c][1] /\ 1 \in DOMAIN results[c] /\ r \in Result
      BY <2>3
    <3>2. QED
      BY <2>1, <3>1 DEF Result, BooksInv, MessagesInv, OnTheWay
  <2>6. /\ results' = [results EXCEPT ![c] = Rest(@, 1)]
        /\ IF Empty(w, r)
           THEN /\ End
                /\ UNCHANGED <<tasks, sum, tasks_in_progress, assigned_tasks>>
           ELSE /\ Accept(w, r)
                /\ SendFirst(IF Awaited(r) THEN Tail(assigned_tasks[w])
                                           ELSE assigned_tasks[w], c)
                /\ UNCHANGED <<alive, descriptor>>
    BY <2>2, <2>4, <2>5 DEF Parsed
  <2> HIDE DEF r, t
  <2>7. \A d \in Connection : \A k \in DOMAIN results'[d] :
            \E l \in DOMAIN results[d] : results'[d][k] = results[d][l]
    <3>1. \A k \in DOMAIN Rest(results[c], 1) :
              1 + k \in DOMAIN results[c] /\ Rest(results[c], 1)[k] = results[c][1 + k]
      BY <2>2, <2>3, <2>4, RestFacts
    <3>2. /\ results'[c] = Rest(results[c], 1)
          /\ \A d \in Connection : d # c => results'[d] = results[d]
      BY <1>2, <2>1, <2>6
    <3>3. QED
      BY <3>1, <3>2
  <2>8. Awaited(r) <=> InProgress(t)
    BY <2>5 DEF Awaited, InProgress, t
  <2>9. UNCHANGED <<queries_, tasks_to_do>>
    BY <1>7 DEF Receive
  <2>10. CASE InProgress(t)
    <3>1. assigned_tasks[w] # << >> /\ Head(assigned_tasks[w]) = t
      BY <1>1, <2>1, <2>5, <2>10 DEF BooksInv, FirstInv
    <3>2. Accept(w, r) /\ SendFirst(Tail(assigned_tasks[w]), c) /\ UNCHANGED descriptor
      BY <2>6, <2>8, <2>10, <3>1 DEF Empty
    <3>3. Added(w, t)
      BY <2>5, <2>8, <2>10, <3>2 DEF Accept, Added, t
    <3>4. QED
      BY <1>1, <1>3, <2>1, <2>5, <2>7, <2>9, <2>10, <3>2, <3>3, AcceptBooks
  <2>11. CASE ~ InProgress(t)
    <3>1. Accept(w, r) /\ SendFirst(assigned_tasks[w], c) /\ UNCHANGED descriptor
      BY <2>6, <2>8, <2>11 DEF Empty
    <3>2. UNCHANGED Books
      BY <1>3, <2>8, <2>9, <2>11, <3>1 DEF Accept, Books
    <3>3. QED
      BY <1>1, <2>1, <2>7, <3>1, <3>2, SendBooks
  <2>12. QED
    BY <2>10, <2>11
<1>8. QED
  BY <1>4, <1>5, <1>6, <1>7 DEF Look
-----------------------------------------------------------------------------
(***************************************************************************)
(* A round hands out what waits and what the workers that are gone had.    *)
(***************************************************************************)
\* t is handed out.
IsNew(t) == (\E v \in Gone, i \in Nat : Has(v, i, t)) \/ t.slice \in Taken(t.query)

\* new has each of the tasks to hand out once.
ListsOnce(new) ==
    /\ new \in Seq(Task)
    /\ \A k \in DOMAIN new : IsNew(new[k])
    /\ \A t \in Task : IsNew(t) => \E k \in DOMAIN new : new[k] = t
    /\ \A j, k \in DOMAIN new : new[j] = new[k] => j = k

\* What is taken now was not in progress.
LEMMA TakenFacts ==
  ASSUME TypeInv, BooksInv, NEW q \in Query, Taken(q) # {}
  PROVE  tasks_in_progress[q] = {} /\ q <= asked
<1>1. queries_ \in Nat /\ asked \in Nat /\ queries_ <= asked /\ q \in Nat
  <2>1. Cardinality(Query) \in Nat
    BY Numbers, FS_CardinalityType
  <2>2. QED
    BY <2>1, Numbers DEF TypeInv, IntegralTypeOK
<1>2. CASE q \in queries_ + 1 .. asked
  BY <1>1, <1>2 DEF BooksInv, FutureInv
<1>3. CASE q \notin queries_ + 1 .. asked
  <2>1. tasks_to_do[q] # {}
    BY <1>3 DEF Taken
  <2>2. tasks_in_progress[q] = {} /\ ~ (q > queries_)
    BY <2>1 DEF BooksInv, WaitInv, FutureInv
  <2>3. QED
    BY <1>1, <2>2
<1>4. QED
  BY <1>2, <1>3

LEMMA NewOnce ==
  ASSUME TypeInv, BooksInv
  PROVE  ListsOnce(Orphans(Gone) \o ToDo)
<1> DEFINE a == Orphans(Gone)
           b == ToDo
           new == a \o b
<1>1. Gone \subseteq Worker /\ IntegralTypeOK
  BY DEF Gone, Known, TypeInv
<1>2. /\ a \in Seq(Task)
      /\ \A k \in DOMAIN a : \E w \in Gone, i \in Nat : Has(w, i, a[k])
      /\ \A w \in Gone, i \in Nat, t \in Task : Has(w, i, t) => \E k \in DOMAIN a : a[k] = t
      /\ \A j, k \in DOMAIN a : j # k =>
             \E v, w \in Gone, i, l \in Nat : Has(v, i, a[j]) /\ Has(w, l, a[k]) /\ (v # w \/ i # l)
  BY <1>1, OrphansFacts
<1>3. /\ b \in Seq(Task)
      /\ \A t \in Task : (\E k \in DOMAIN b : b[k] = t) <=> t.slice \in Taken(t.query)
      /\ \A j, k \in DOMAIN b : b[j] = b[k] => j = k
  BY <1>1, ToDoFacts
<1> HIDE DEF a, b
<1>4. /\ new \in Seq(Task) /\ Len(a) \in Nat /\ Len(b) \in Nat
      /\ DOMAIN a = 1 .. Len(a) /\ DOMAIN b = 1 .. Len(b)
      /\ DOMAIN new = 1 .. Len(a) + Len(b)
      /\ \A k \in DOMAIN new : new[k] = IF k <= Len(a) THEN a[k] ELSE b[k - Len(a)]
  <2>1. /\ new \in Seq(Task) /\ Len(new) = Len(a) + Len(b)
        /\ \A k \in 1 .. Len(a) + Len(b) : new[k] = IF k <= Len(a) THEN a[k] ELSE b[k - Len(a)]
    BY <1>2, <1>3, ConcatProperties
  <2>2. QED
    BY <1>2, <1>3, <2>1
<1> HIDE DEF new
\* Both parts of new are in it, and nothing else.
<1>5. /\ \A k \in DOMAIN a : k \in DOMAIN new /\ new[k] = a[k]
      /\ \A k \in DOMAIN b : Len(a) + k \in DOMAIN new /\ new[Len(a) + k] = b[k]
      /\ \A k \in DOMAIN new : \/ k \in DOMAIN a /\ new[k] = a[k]
                               \/ k - Len(a) \in DOMAIN b /\ new[k] = b[k - Len(a)]
  BY <1>4
<1>6. /\ \A k \in DOMAIN a : a[k] \in Task /\ \E w \in Gone, i \in Nat : Has(w, i, a[k])
      /\ \A k \in DOMAIN b : b[k] \in Task /\ b[k].slice \in Taken(b[k].query)
  BY <1>2, <1>3
<1>7. \A k \in DOMAIN new : IsNew(new[k])
  BY <1>5, <1>6 DEF IsNew
<1>8. ASSUME NEW t \in Task, IsNew(t)
      PROVE  \E k \in DOMAIN new : new[k] = t
  <2>1. CASE \E v \in Gone, i \in Nat : Has(v, i, t)
    BY <1>2, <1>5, <2>1
  <2>2. CASE t.slice \in Taken(t.query)
    BY <1>3, <1>5, <2>2
  <2>3. QED
    BY <1>8, <2>1, <2>2 DEF IsNew
<1>9. ASSUME NEW j \in DOMAIN a, NEW k \in DOMAIN a, a[j] = a[k], j # k
      PROVE  FALSE
  <2>1. PICK v \in Gone, w \in Gone, i \in Nat, l \in Nat :
            Has(v, i, a[j]) /\ Has(w, l, a[k]) /\ (v # w \/ i # l)
    BY <1>2, <1>9
  <2>2. a[j] \in Task /\ Has(v, i, a[j]) /\ Has(w, l, a[j]) /\ v \in Worker /\ w \in Worker
    BY <1>1, <1>6, <1>9, <2>1
  <2>3. QED
    BY <2>1, <2>2 DEF BooksInv, ListsInv
<1>10. ASSUME NEW j \in DOMAIN a, NEW k \in DOMAIN b
       PROVE  a[j] # b[k]
  <2>1. InProgress(a[j])
    BY <1>1, <1>6 DEF BooksInv, ListsInv
  <2>2. tasks_in_progress[b[k].query] = {}
    <3>1. b[k].query \in Query
      BY <1>6 DEF Task
    <3>2. QED
      BY <1>6, <3>1, TakenFacts
  <2>3. QED
    BY <2>1, <2>2 DEF InProgress
<1>11. ASSUME NEW j \in DOMAIN new, NEW k \in DOMAIN new, new[j] = new[k]
       PROVE  j = k
  <2>1. j \in Nat /\ k \in Nat
    BY <1>4
  <2>2. CASE j \in DOMAIN a /\ new[j] = a[j] /\ k \in DOMAIN a /\ new[k] = a[k]
    BY <1>9, <1>11, <2>2
  <2>3. CASE /\ j - Len(a) \in DOMAIN b /\ new[j] = b[j - Len(a)]
             /\ k - Len(a) \in DOMAIN b /\ new[k] = b[k - Len(a)]
    <3>1. j - Len(a) = k - Len(a)
      BY <1>3, <1>11, <2>3
    <3>2. QED
      BY <1>4, <2>1, <3>1
  <2>4. QED
    BY <1>5, <1>10, <1>11, <2>2, <2>3
<1>12. QED
  BY <1>4, <1>7, <1>8, <1>11 DEF ListsOnce, new, a, b

\* The lists after the tasks of new have been handed out.
Handed(new, to) == assigned_tasks' = [w \in Worker |->
    IF w \in Stay THEN assigned_tasks[w] \o Share(new, to, w) ELSE << >>]

LEMMA HandedLists ==
  ASSUME TypeInv, BooksInv, NEW new, ListsOnce(new), NEW to \in [DOMAIN new -> Stay],
         Handed(new, to), Stay \subseteq Worker, Joiners \cap Known = {}, Known' = Stay,
         \A t \in Task : InProgress(t)' <=> InProgress(t) \/ t.slice \in Taken(t.query)
  PROVE  ListsInv'
<1>1. \A w \in Worker : assigned_tasks[w] \in Seq(Task) /\ Len(assigned_tasks[w]) \in Nat
  BY DEF TypeInv, IntegralTypeOK
<1> DEFINE len(w) == Len(assigned_tasks[w])
           share(w) == Share(new, to, w)
<1>2. \A w \in Worker :
          /\ share(w) \in Seq(Task)
          /\ \A i \in DOMAIN share(w) : \E k \in DOMAIN new : to[k] = w /\ share(w)[i] = new[k]
          /\ \A k \in DOMAIN new : to[k] = w => \E i \in DOMAIN share(w) : share(w)[i] = new[k]
          /\ \A i, j \in DOMAIN share(w) : share(w)[i] = share(w)[j] => i = j
  BY ShareFacts DEF ListsOnce
<1>3. \A w \in Worker, i \in Nat, t \in Task : Has(w, i, t) => i \in 1 .. len(w)
  BY <1>1 DEF Has
<1>4. ASSUME NEW w \in Stay
      PROVE  /\ \A i \in Nat, t \in Task : Has(w, i, t) => Has(w, i, t)'
             /\ \A i \in DOMAIN share(w), t \in Task : share(w)[i] = t =>
                    \E j \in Nat : Has(w, j, t)'
             /\ \A i \in Nat, t \in Task : Has(w, i, t)' =>
                    \/ Has(w, i, t)
                    \/ i - len(w) \in DOMAIN share(w) /\ share(w)[i - len(w)] = t
  <2>1. w \in Worker /\ assigned_tasks'[w] = assigned_tasks[w] \o share(w)
    BY DEF Handed
  <2>2. assigned_tasks[w] \in Seq(Task) /\ share(w) \in Seq(Task)
    BY <1>1, <1>2, <2>1
  <2> HIDE DEF share
  <2>3. /\ assigned_tasks'[w] \in Seq(Task) /\ Len(assigned_tasks'[w]) = len(w) + Len(share(w))
        /\ \A i \in 1 .. len(w) + Len(share(w)) :
               assigned_tasks'[w][i] = IF i <= len(w) THEN assigned_tasks[w][i] ELSE share(w)[i - len(w)]
    BY <2>1, <2>2, ConcatProperties
  <2>4. /\ DOMAIN assigned_tasks'[w] = 1 .. len(w) + Len(share(w))
        /\ DOMAIN assigned_tasks[w] = 1 .. len(w) /\ DOMAIN share(w) = 1 .. Len(share(w))
        /\ len(w) \in Nat /\ Len(share(w)) \in Nat
    BY <2>2, <2>3
  <2> HIDE DEF len
  <2>5. \A i \in Nat, t \in Task : Has(w, i, t) => Has(w, i, t)'
    BY <2>3, <2>4 DEF Has
  <2>6. ASSUME NEW i \in DOMAIN share(w), NEW t \in Task, share(w)[i] = t
        PROVE  \E j \in Nat : Has(w, j, t)'
    <3>1. i \in 1 .. Len(share(w))
      BY <2>4
    <3>2. PICK j \in Nat : j = len(w) + i
      BY <2>4, <3>1
    <3>3. j \in 1 .. len(w) + Len(share(w)) /\ ~ (j <= len(w)) /\ j - len(w) = i
      BY <2>4, <3>1, <3>2
    <3>4. j \in DOMAIN assigned_tasks'[w] /\ assigned_tasks'[w][j] = t
      BY <2>3, <2>4, <2>6, <3>3
    <3>5. QED
      BY <3>4 DEF Has
  <2>7. \A i \in Nat, t \in Task : Has(w, i, t)' =>
            \/ Has(w, i, t)
            \/ i - len(w) \in DOMAIN share(w) /\ share(w)[i - len(w)] = t
    BY <2>3, <2>4 DEF Has
  <2>8. QED
    BY <2>5, <2>6, <2>7
<1>5. \A w \in Worker, i \in Nat, t \in Task : Has(w, i, t)' => w \in Stay
  BY DEF Has, Handed
<1> HIDE DEF len, share
<1>6. ASSUME NEW t \in Task, IsNew(t)
      PROVE  \E w \in Stay, i \in Nat : Has(w, i, t)'
  <2>1. PICK k \in DOMAIN new : new[k] = t
    BY <1>6 DEF ListsOnce
  <2>2. to[k] \in Stay
    OBVIOUS
  <2>3. PICK i \in DOMAIN share(to[k]) : share(to[k])[i] = t
    BY <1>2, <2>1, <2>2
  <2>4. QED
    BY <1>4, <2>2, <2>3
<1>7. ASSUME NEW t \in Task, InProgress(t)'
      PROVE  \E w \in Known', i \in Nat : Has(w, i, t)'
  <2>1. CASE InProgress(t) /\ ~ IsNew(t)
    <3>1. PICK w \in Known, i \in Nat : Has(w, i, t)
      BY <2>1 DEF BooksInv, ListsInv
    <3>2. w \in Stay
      BY <2>1, <3>1 DEF IsNew, Stay
    <3>3. QED
      BY <1>4, <3>1, <3>2
  <2>2. CASE IsNew(t)
    BY <1>6, <2>2
  <2>3. QED
    BY <1>7, <2>1, <2>2 DEF IsNew
\* A task that is new is in no list of a worker that stays.
<1>8. ASSUME NEW t \in Task, IsNew(t), NEW w \in Stay, NEW i \in Nat, Has(w, i, t)
      PROVE  FALSE
  <2>1. w \notin Gone /\ InProgress(t)
    BY <1>8 DEF Stay, BooksInv, ListsInv
  <2>2. CASE \E v \in Gone, j \in Nat : Has(v, j, t)
    BY <1>8, <2>1, <2>2 DEF BooksInv, ListsInv, Gone, Known
  <2>3. CASE t.slice \in Taken(t.query)
    <3>1. t.query \in Query
      BY DEF Task
    <3>2. QED
      BY <2>1, <2>3, <3>1, TakenFacts DEF InProgress
  <2>4. QED
    BY <1>8, <2>2, <2>3 DEF IsNew
<1>9. ASSUME NEW w \in Stay, NEW i \in DOMAIN share(w)
      PROVE  \E k \in DOMAIN new : to[k] = w /\ share(w)[i] = new[k] /\ IsNew(new[k])
  BY <1>2 DEF ListsOnce
<1>10. ASSUME NEW t \in Task, NEW w \in Worker, NEW i \in Nat, Has(w, i, t)'
       PROVE  w \in Known' /\ InProgress(t)'
  <2>1. w \in Stay
    BY <1>5, <1>10
  <2>2. CASE Has(w, i, t)
    BY <2>1, <2>2 DEF BooksInv, ListsInv
  <2>3. CASE i - len(w) \in DOMAIN share(w) /\ share(w)[i - len(w)] = t
    <3>1. IsNew(t)
      BY <1>9, <2>1, <2>3
    <3>2. InProgress(t) \/ t.slice \in Taken(t.query)
      BY <3>1 DEF IsNew, BooksInv, ListsInv, Gone, Known
    <3>3. QED
      BY <2>1, <3>2
  <2>4. QED
    BY <1>4, <1>10, <2>1, <2>2, <2>3
<1>11. ASSUME NEW t \in Task, NEW v \in Worker, NEW w \in Worker, NEW i \in Nat, NEW j \in Nat,
              Has(v, i, t)', Has(w, j, t)'
       PROVE  v = w /\ i = j
  <2>1. v \in Stay /\ w \in Stay
    BY <1>5, <1>11
  <2>2. CASE Has(v, i, t) /\ Has(w, j, t)
    BY <2>2 DEF BooksInv, ListsInv
  <2>3. CASE /\ i - len(v) \in DOMAIN share(v) /\ share(v)[i - len(v)] = t
             /\ j - len(w) \in DOMAIN share(w) /\ share(w)[j - len(w)] = t
    <3>1. v = w
      BY <1>9, <2>1, <2>3 DEF ListsOnce
    <3>2. i - len(v) = j - len(v)
      BY <1>2, <2>3, <3>1
    <3>3. len(v) \in Nat
      BY <1>1 DEF len
    <3>4. QED
      BY <3>1, <3>2, <3>3
  <2>4. CASE IsNew(t) /\ (Has(v, i, t) \/ Has(w, j, t))
    BY <1>8, <2>1, <2>4
  <2>5. QED
    BY <1>4, <1>9, <1>11, <2>1, <2>2, <2>3, <2>4
<1>12. QED
  BY <1>7, <1>10, <1>11 DEF ListsInv

\* What waits or is in progress after a round: what did before, and the new queries.
LEMMA HandedSets ==
  ASSUME TypeInv, BooksInv, HandedOut, NEW q \in Query
  PROVE  IF Stay = {}
         THEN tasks_in_progress'[q] = {} /\ tasks_to_do'[q] = Taken(q) \cup tasks_in_progress[q]
         ELSE tasks_in_progress'[q] = Taken(q) \cup tasks_in_progress[q] /\ tasks_to_do'[q] = {}
<1> DEFINE orphans == Orphans(Gone)
           back(p) == {s \in Slice : \E i \in DOMAIN orphans : orphans[i] = [query |-> p, slice |-> s]}
<1>1. Gone \subseteq Worker /\ tasks_in_progress \in [Query -> SUBSET Slice]
  BY DEF Gone, Known, TypeInv, IntegralTypeOK
<1>2. CASE Stay = {}
  <2>1. /\ tasks_in_progress' = [p \in Query |-> tasks_in_progress[p] \ back(p)]
        /\ tasks_to_do' = [p \in Query |-> Taken(p) \cup back(p)]
    BY <1>2 DEF HandedOut, HandOut
  <2>2. /\ \A k \in DOMAIN orphans : \E w \in Gone, i \in Nat : Has(w, i, orphans[k])
        /\ \A w \in Gone, i \in Nat, t \in Task : Has(w, i, t) =>
               \E k \in DOMAIN orphans : orphans[k] = t
    BY <1>1, OrphansFacts DEF TypeInv
  <2> HIDE DEF orphans
  <2>3. ASSUME NEW s \in Slice
        PROVE  s \in back(q) <=> s \in tasks_in_progress[q]
    <3> DEFINE t == [query |-> q, slice |-> s]
    <3>1. t \in Task /\ (InProgress(t) <=> s \in tasks_in_progress[q])
      BY DEF Task, InProgress
    <3>2. s \in back(q) <=> \E k \in DOMAIN orphans : orphans[k] = t
      OBVIOUS
    <3> HIDE DEF t
    <3>3. ASSUME InProgress(t)
          PROVE  \E k \in DOMAIN orphans : orphans[k] = t
      <4>1. PICK w \in Known, i \in Nat : Has(w, i, t)
        BY <3>1, <3>3 DEF BooksInv, ListsInv
      <4>2. w \in Gone
        BY <1>2 DEF Stay
      <4>3. QED
        BY <2>2, <3>1, <4>1, <4>2
    <3>4. ASSUME NEW k \in DOMAIN orphans, orphans[k] = t
          PROVE  InProgress(t)
      BY <1>1, <2>2, <3>1, <3>4 DEF BooksInv, ListsInv
    <3>5. QED
      BY <3>1, <3>2, <3>3, <3>4
  <2>4. back(q) = tasks_in_progress[q]
    <3>1. tasks_in_progress[q] \subseteq Slice /\ back(q) \subseteq Slice
      BY <1>1
    <3> HIDE DEF back
    <3>2. QED
      BY <2>3, <3>1
  <2> HIDE DEF back
  <2>5. QED
    BY <1>2, <2>1, <2>4
<1>3. CASE Stay # {}
  <2>1. /\ tasks_in_progress' =
               [p \in Query |-> IF Taken(p) # {} THEN Taken(p) ELSE tasks_in_progress[p]]
        /\ tasks_to_do' = [p \in Query |-> IF Taken(p) # {} THEN tasks_in_progress[p] ELSE {}]
    BY <1>3 DEF HandedOut, HandOut
  <2>2. Taken(q) # {} => tasks_in_progress[q] = {}
    BY TakenFacts
  <2>3. QED
    BY <1>3, <2>1, <2>2
<1>4. QED
  BY <1>2, <1>3

LEMMA HandedSums ==
  ASSUME TypeInv, BooksInv, HandedOut, Known' = Stay, queries_' = asked, UNCHANGED sum
  PROVE  WaitInv' /\ FutureInv' /\ SumsInv'
<1>1. /\ queries_ \in Nat /\ asked \in Nat /\ queries_ <= asked
      /\ Query \subseteq Nat \ {0} /\ 1 .. asked \subseteq Query
  <2>1. Cardinality(Query) \in Nat /\ Query = 1 .. Cardinality(Query)
    BY Numbers, FS_CardinalityType, LeaderAssumption
  <2>2. queries_ \in 0 .. asked /\ asked \in 0 .. Cardinality(Query)
    BY DEF TypeInv, IntegralTypeOK
  <2>3. QED
    BY <2>1, <2>2
<1>2. \A q \in Query : tasks_to_do'[q] \cup tasks_in_progress'[q] = Taken(q) \cup tasks_in_progress[q]
  BY HandedSets
<1>3. WaitInv'
  BY HandedSets DEF WaitInv
<1>4. ASSUME NEW q \in Query, q > asked
      PROVE  tasks_to_do'[q] = {} /\ tasks_in_progress'[q] = {} /\ sum[q] = Bag({})
  <2>1. q > queries_ /\ q \notin queries_ + 1 .. asked
    BY <1>1, <1>4
  <2>2. Taken(q) = {} /\ tasks_in_progress[q] = {} /\ sum[q] = Bag({})
    BY <2>1 DEF Taken, BooksInv, FutureInv
  <2>3. QED
    BY <1>2, <2>2
<1>5. ASSUME NEW q \in 1 .. asked
      PROVE  sum[q] = Bag(Slice \ (tasks_to_do'[q] \cup tasks_in_progress'[q]))
  <2>0. q \in Query
    BY <1>1
  <2>1. CASE q > queries_
    <3>1. q \in queries_ + 1 .. asked
      BY <1>1, <2>1
    <3>2. Taken(q) = Slice /\ sum[q] = Bag({})
      BY <2>0, <2>1, <3>1 DEF Taken, BooksInv, FutureInv
    <3>3. Slice \ (tasks_to_do'[q] \cup tasks_in_progress'[q]) = {}
      BY <1>2, <2>0, <3>2
    <3>4. QED
      BY <3>2, <3>3
  <2>2. CASE ~ (q > queries_)
    <3>1. q \in 1 .. queries_ /\ q \notin queries_ + 1 .. asked
      BY <1>1, <2>2
    <3>2. Taken(q) = tasks_to_do[q]
      BY <3>1 DEF Taken
    <3>3. QED
      BY <1>2, <2>0, <3>1, <3>2 DEF BooksInv, SumsInv
  <2>3. QED
    BY <2>1, <2>2
<1>6. QED
  BY <1>3, <1>4, <1>5 DEF FutureInv, SumsInv

LEMMA RoundLists ==
  ASSUME TypeInv, BooksInv, HandedOut, Joiners \subseteq Worker, Joiners \cap Known = {},
         Known' = Stay
  PROVE  /\ ListsInv'
         /\ \A w \in Known \ Gone : assigned_tasks[w] # << >> =>
                assigned_tasks'[w] # << >> /\ Head(assigned_tasks'[w]) = Head(assigned_tasks[w])
<1>1. Stay \subseteq Worker /\ Known \subseteq Worker
  BY DEF Stay, Known
<1>2. CASE Stay = {}
  <2>1. assigned_tasks' = [w \in Worker |-> << >>]
    BY <1>2 DEF HandedOut, HandOut
  <2>2. \A t \in Task : ~ InProgress(t)'
    BY <1>2, HandedSets DEF InProgress, Task
  <2>3. \A w \in Worker, i \in Nat, t \in Task : ~ Has(w, i, t)'
    BY <2>1 DEF Has
  <2>4. ListsInv'
    BY <2>2, <2>3 DEF ListsInv
  <2>5. Known \ Gone = {}
    BY <1>2 DEF Stay
  <2>6. QED
    BY <2>4, <2>5
<1>3. CASE Stay # {}
  <2> DEFINE new == Orphans(Gone) \o ToDo
  <2>1. PICK to \in Placements(new, Stay) : Handed(new, to)
    BY <1>3 DEF HandedOut, HandOut, Handed
  <2>2. ListsOnce(new)
    BY NewOnce
  <2>3. to \in [DOMAIN new -> Stay]
    BY DEF Placements
  <2> HIDE DEF new
  <2>4. \A t \in Task : InProgress(t)' <=> InProgress(t) \/ t.slice \in Taken(t.query)
    BY <1>3, HandedSets DEF InProgress, Task
  <2>5. ListsInv'
    BY <1>1, <2>1, <2>2, <2>3, <2>4, HandedLists
  <2>6. ASSUME NEW w \in Known \ Gone, assigned_tasks[w] # << >>
        PROVE  assigned_tasks'[w] # << >> /\ Head(assigned_tasks'[w]) = Head(assigned_tasks[w])
    <3>1. assigned_tasks'[w] = assigned_tasks[w] \o Share(new, to, w)
      BY <1>1, <2>1 DEF Handed, Stay
    <3>2. assigned_tasks[w] \in Seq(Task) /\ Share(new, to, w) \in Seq(Task)
      BY <1>1, <2>2, ShareFacts DEF TypeInv, IntegralTypeOK, ListsOnce
    <3> DEFINE a == assigned_tasks[w]
               b == Share(new, to, w)
    <3>3. a \o b \in Seq(Task) /\ Len(a \o b) = Len(a) + Len(b) /\ (a \o b)[1] = a[1]
          /\ Len(a) \in Nat \ {0} /\ Len(b) \in Nat
      <4>1. a \in Seq(Task) /\ b \in Seq(Task) /\ a # << >>
        BY <2>6, <3>2
      <4> HIDE DEF a, b
      <4>2. /\ a \o b \in Seq(Task) /\ Len(a \o b) = Len(a) + Len(b)
            /\ \A i \in 1 .. Len(a) + Len(b) : (a \o b)[i] = IF i <= Len(a) THEN a[i] ELSE b[i - Len(a)]
        BY <4>1, ConcatProperties
      <4>3. QED
        BY <4>1, <4>2
    <3>4. QED
      BY <2>6, <3>1, <3>2, <3>3
  <2>7. QED
    BY <2>5, <2>6
<1>4. QED
  BY <1>2, <1>3

\* No connection that is made gets a number that a slot holds.
LEMMA FreshNumbers ==
  ASSUME Round, ~ reused'
  PROVE  \A m \in Connections, i \in Slot : worker_fds_[i] # m.number
<1>1. reused' = (reused \/ \E m \in Connections : \E i \in Slot : worker_fds_[i] = m.number)
  BY DEF Round
<1>2. QED
  BY <1>1

LEMMA RoundNumbers ==
  ASSUME TypeInv, NumbersInv, Round, ~ reused'
  PROVE  NumbersInv'
<1>1. /\ EachItsOwn(Connections) /\ SlotInv /\ NumbersMoved /\ SlotsMoved
      /\ \A w \in Known : position[w] \in Slot
      /\ \A m \in Connections, i \in Slot : worker_fds_[i] # m.number
  BY SlotsMove, ConnectionsFacts, FreshNumbers
  DEF Round, Known, TypeInv, IntegralTypeOK
<1>2. ASSUME NEW i \in Slot, worker_fds_'[i] # 0
      PROVE  \/ worker_fds_'[i] = worker_fds_[i]
             \/ \E m \in Connections : m.slot = i /\ worker_fds_'[i] = m.number
  BY <1>1, <1>2 DEF SlotsMoved
<1>3. ASSUME NEW i \in Slot, NEW j \in Slot, worker_fds_'[i] # 0, worker_fds_'[i] = worker_fds_'[j]
      PROVE  i = j
  <2>1. CASE worker_fds_'[i] = worker_fds_[i] /\ worker_fds_'[j] = worker_fds_[j]
    BY <1>3, <2>1 DEF NumbersInv
  <2>2. CASE worker_fds_'[i] = worker_fds_[i] \/ worker_fds_'[j] = worker_fds_[j]
    BY <1>1, <1>2, <1>3, <2>1, <2>2
  <2>3. QED
    BY <1>1, <1>2, <1>3, <2>2 DEF EachItsOwn
<1>4. ASSUME NEW f \in Slot, descriptor'[f] # 0
      PROVE  \/ descriptor'[f] = descriptor[f] /\ descriptor[f] \in Open
             \/ \E m \in Connections :
                    m.number = f /\ descriptor'[f] = m.connection /\ m.connection \notin Open
  <2>1. CASE descriptor'[f] = descriptor[f]
    BY <1>4, <2>1 DEF Open
  <2>2. CASE \E w \in Gone : worker_fds_[position[w]] = f
    BY <1>1, <1>4, <2>2 DEF NumbersMoved
  <2>3. CASE \E m \in Connections : m.number = f
    BY <1>1, <1>4, <2>2, <2>3 DEF NumbersMoved, EachItsOwn, FreeConnections
  <2>4. QED
    BY <1>1, <2>1, <2>2, <2>3 DEF NumbersMoved
<1>5. ASSUME NEW f \in Slot, NEW g \in Slot, descriptor'[f] # 0, descriptor'[f] = descriptor'[g]
      PROVE  f = g
  <2>1. CASE descriptor'[f] = descriptor[f] /\ descriptor'[g] = descriptor[g]
    BY <1>5, <2>1 DEF NumbersInv
  <2>2. CASE \/ \E m \in Connections :
                    m.number = f /\ descriptor'[f] = m.connection /\ m.connection \notin Open
             \/ \E m \in Connections :
                    m.number = g /\ descriptor'[g] = m.connection /\ m.connection \notin Open
    BY <1>1, <1>4, <1>5, <2>2 DEF EachItsOwn
  <2>3. QED
    BY <1>4, <1>5, <2>1, <2>2
<1>6. QED
  BY <1>3, <1>5 DEF NumbersInv

\* The connections of the workers that stay are as they were, the others are new.
LEMMA RoundConnections ==
  ASSUME TypeInv, NumbersInv, Round, ~ reused', NEW w \in Known', NEW c \in Connection,
         ConnectionTo(w)' = c
  PROVE  \/ w \in Known \ Gone /\ ConnectionTo(w) = c
         \/ \E m \in Connections : m.connection = c
<1>1. /\ EachItsOwn(Connections) /\ SlotInv /\ NumbersMoved
      /\ \A v \in Known : position[v] \in Slot
      /\ \A m \in Connections, i \in Slot : worker_fds_[i] # m.number
      /\ Known' = Stay /\ c # 0
  BY SlotsMove, ConnectionsFacts, FreshNumbers, KnownAfter, Numbers
  DEF Round, Known, TypeInv, IntegralTypeOK
<1>2. c = descriptor'[worker_fds_'[position'[w]]]
  BY DEF ConnectionTo
<1>3. CASE w \in Known \ Gone
  <2>1. c = descriptor'[worker_fds_[position[w]]]
    BY <1>2, <1>3, SlotsAfter
  <2>2. worker_fds_[position[w]] \in Slot /\ position[w] \in Slot
    BY <1>1, <1>3 DEF TypeInv, IntegralTypeOK, SlotInv
  <2>3. descriptor'[worker_fds_[position[w]]] = descriptor[worker_fds_[position[w]]]
    BY <1>1, <2>1, <2>2 DEF NumbersMoved
  <2>4. QED
    BY <1>3, <2>1, <2>3 DEF ConnectionTo
<1>4. CASE w \in Joiners
  <2>1. PICK m \in Connections : position'[w] = m.slot /\ worker_fds_'[m.slot] = m.number
    BY <1>4, SlotsAfter
  <2>2. c = descriptor'[m.number]
    BY <1>2, <2>1
  <2>3. c = m.connection
    BY <1>1, <2>2 DEF NumbersMoved
  <2>4. QED
    BY <2>3
<1>5. QED
  BY <1>1, <1>3, <1>4 DEF Stay

LEMMA RoundBooks ==
  ASSUME TypeInv, BooksInv, Round, ~ reused'
  PROVE  BooksInv'
<1>1. /\ HandedOut /\ Known' = Stay /\ queries_' = asked /\ UNCHANGED sum
      /\ Joiners \subseteq Worker /\ Joiners \cap Known = {}
  BY KnownAfter, JoinersFit DEF Round, HandedOut, Gone, Stay
<1>2. WaitInv' /\ FutureInv' /\ SumsInv'
  BY <1>1, HandedSums
<1>3. /\ ListsInv'
      /\ \A w \in Known \ Gone : assigned_tasks[w] # << >> =>
             assigned_tasks'[w] # << >> /\ Head(assigned_tasks'[w]) = Head(assigned_tasks[w])
  BY <1>1, RoundLists
<1>4. NumbersInv'
  BY RoundNumbers DEF BooksInv
<1>5. \A c \in Connection :
          /\ tasks'[c] \in {<< >>, tasks[c]} /\ results'[c] \in {<< >>, results[c]}
          /\ (\E m \in Connections : m.connection = c) => tasks'[c] = << >> /\ results'[c] = << >>
  BY DEF Round
<1>6. /\ \A c \in Connection :
             /\ \A k \in DOMAIN tasks'[c] : k \in DOMAIN tasks[c] /\ tasks'[c][k] = tasks[c][k]
             /\ \A k \in DOMAIN results'[c] : k \in DOMAIN results[c] /\ results'[c][k] = results[c][k]
  BY <1>5
<1>7. /\ queries_ \in Nat /\ asked \in Nat /\ queries_ <= asked
      /\ \A c \in Connection : /\ \A k \in DOMAIN tasks[c] : tasks[c][k].query \in Nat
                               /\ \A k \in DOMAIN results[c] : results[c][k].value.query \in Nat
  <2>1. queries_ \in 0 .. asked /\ asked \in 0 .. Cardinality(Query) /\ Cardinality(Query) \in Nat
    BY Numbers, FS_CardinalityType DEF TypeInv, IntegralTypeOK
  <2>2. tasks \in [Connection -> Seq(Task)] /\ results \in [Connection -> Seq(Result)]
    BY DEF TypeInv, IntegralTypeOK, WorkersTypeOK
  <2>3. \A c \in Connection : /\ \A k \in DOMAIN tasks[c] : tasks[c][k] \in Task
                              /\ \A k \in DOMAIN results[c] : results[c][k] \in Result
    BY <2>2
  <2>4. /\ \A t \in Task : t.query \in Nat
        /\ \A r \in Result : r.value \in Task
    BY Numbers DEF Task, Result
  <2>5. QED
    BY <2>1, <2>3, <2>4
<1>8. MessagesInv'
  BY <1>1, <1>6, <1>7 DEF BooksInv, MessagesInv
<1>9. FirstInv'
  <2>1. ASSUME NEW w \in Known', NEW c \in Connection, NEW t \in Task,
               ConnectionTo(w)' = c, OnTheWay(c, t)', InProgress(t)'
        PROVE  assigned_tasks'[w] # << >> /\ Head(assigned_tasks'[w]) = t
    <3>1. ~ \E m \in Connections : m.connection = c
      BY <1>5, <2>1 DEF OnTheWay
    <3>2. w \in Known \ Gone /\ ConnectionTo(w) = c
      BY <2>1, <3>1, RoundConnections DEF BooksInv
    <3>3. OnTheWay(c, t)
      BY <1>6, <2>1 DEF OnTheWay
    <3>4. InProgress(t)
      <4>1. t.query \in Query /\ t.query \in Nat
        BY Numbers DEF Task
      <4>2. t.query <= queries_
        BY <3>3 DEF OnTheWay, BooksInv, MessagesInv
      <4>3. Taken(t.query) = tasks_to_do[t.query]
        BY <1>7, <4>1, <4>2 DEF Taken
      <4>4. tasks_to_do[t.query] = {}
        BY <3>2, <4>1 DEF BooksInv, WaitInv
      <4>5. tasks_in_progress'[t.query] \subseteq tasks_in_progress[t.query]
        BY <1>1, <4>1, <4>3, <4>4, HandedSets
      <4>6. QED
        BY <2>1, <4>5 DEF InProgress
    <3>5. assigned_tasks[w] # << >> /\ Head(assigned_tasks[w]) = t
      BY <3>2, <3>3, <3>4 DEF BooksInv, FirstInv
    <3>6. QED
      BY <1>3, <3>2, <3>5
  <2>2. QED
    BY <2>1 DEF FirstInv
<1>10. QED
  BY <1>2, <1>3, <1>4, <1>8, <1>9 DEF BooksInv
-----------------------------------------------------------------------------
(***************************************************************************)
(* The books hold.                                                         *)
(***************************************************************************)
LEMMA BooksInit ==
  LeaderInit => BooksInv
<1> SUFFICES ASSUME LeaderInit PROVE BooksInv
  OBVIOUS
<1>1. \A w \in Worker, i \in Nat, t \in Task : ~ Has(w, i, t)
  BY DEF LeaderInit, Has
<1>2. \A t \in Task : ~ InProgress(t)
  BY DEF LeaderInit, InProgress, Task
<1>3. ListsInv /\ FirstInv
  BY <1>1, <1>2 DEF ListsInv, FirstInv
<1>4. NumbersInv /\ WaitInv /\ FutureInv
  BY DEF LeaderInit, NumbersInv, WaitInv, FutureInv
<1>5. MessagesInv
  BY DEF LeaderInit, WorkersInit, MessagesInv
<1>6. SumsInv
  BY DEF LeaderInit, SumsInv
<1>7. QED
  BY <1>3, <1>4, <1>5, <1>6 DEF BooksInv

\* What is garbled or reused stays so.
LEMMA DisturbedStays ==
  ASSUME TypeInv, [LeaderNext]_vars, Undisturbed'
  PROVE  Undisturbed
<1>1. garbled \in BOOLEAN /\ reused \in BOOLEAN
  BY DEF TypeInv, IntegralTypeOK, WorkersTypeOK
<1>2. CASE GetResult
  BY <1>2 DEF GetResult, Undisturbed, workerVars
<1>3. CASE Round
  BY <1>3 DEF Round, Undisturbed
<1>4. CASE Refused
  BY <1>4 DEF Refused, Undisturbed, workerVars
<1>5. CASE Look
  <2>1. UNCHANGED reused
    BY <1>5 DEF Look
  <2>2. garbled => garbled'
    BY <1>5 DEF Look, Detect, Receive, Send, Skip, workerVars
  <2>3. QED
    BY <2>1, <2>2 DEF Undisturbed
<1>6. ASSUME NEW w \in Worker, Discover(w)
      PROVE  Undisturbed
  BY <1>6 DEF Discover, Undisturbed, workerVars
<1>7. ASSUME NEW w \in Worker,
             OfWorker(w) \/ ((Boot(w) \/ Crash(w)) /\ UNCHANGED leaderVars)
      PROVE  Undisturbed
  <2>1. UNCHANGED reused
    BY <1>7 DEF OfWorker, leaderVars
  <2>2. garbled => garbled'
    BY <1>7 DEF OfWorker, Work, HangUp, Die, Boot, Crash
  <2>3. QED
    BY <2>1, <2>2 DEF Undisturbed
<1>8. CASE UNCHANGED vars
  BY <1>8 DEF vars, workerVars, leaderVars, Undisturbed
<1>9. QED
  BY <1>2, <1>3, <1>4, <1>5, <1>6, <1>7, <1>8 DEF LeaderNext

LEMMA BooksNext ==
  ASSUME TypeInv, BooksInv, [LeaderNext]_vars, Undisturbed'
  PROVE  BooksInv'
<1>1. ~ garbled' /\ ~ reused'
  BY DEF Undisturbed
<1>2. CASE GetResult
  <2>1. UNCHANGED Books /\ UNCHANGED workerVars /\ UNCHANGED descriptor
    BY <1>2 DEF GetResult, Books, slotVars
  <2>2. QED
    BY <2>1, StillBooks
<1>3. CASE Round
  BY <1>1, <1>3, RoundBooks
<1>4. CASE Refused
  <2>1. UNCHANGED Books /\ UNCHANGED workerVars /\ \A f \in Slot : descriptor'[f] = 0
    BY <1>4 DEF Refused, End, Books, queryVars
  <2>2. QED
    BY <2>1, StillBooks
<1>5. CASE Look
  BY <1>1, <1>5, LookBooks
<1>6. ASSUME NEW w \in Worker, Discover(w)
      PROVE  BooksInv'
  <2>1. UNCHANGED Books /\ UNCHANGED workerVars /\ UNCHANGED descriptor
    BY <1>6 DEF Discover, Books, queryVars, slotVars
  <2>2. QED
    BY <2>1, StillBooks
<1>7. ASSUME NEW w \in Worker,
             OfWorker(w) \/ ((Boot(w) \/ Crash(w)) /\ UNCHANGED leaderVars)
      PROVE  BooksInv'
  BY <1>1, <1>7, WorkerBooks
<1>8. CASE UNCHANGED vars
  <2>1. UNCHANGED Books /\ UNCHANGED workerVars /\ UNCHANGED descriptor
    BY <1>8 DEF vars, leaderVars, Books, queryVars, slotVars
  <2>2. QED
    BY <2>1, StillBooks
<1>9. QED
  BY <1>2, <1>3, <1>4, <1>5, <1>6, <1>7, <1>8 DEF LeaderNext

LEMMA IntegralInv == LeaderSpec => []IInv
<1>1. LeaderInit => IInv
  BY TypeInit, BooksInit DEF IInv
<1>2. IInv /\ [LeaderNext]_vars => IInv'
  <2> SUFFICES ASSUME IInv, [LeaderNext]_vars PROVE IInv'
    OBVIOUS
  <2>1. TypeInv /\ TypeInv'
    BY TypeNext DEF IInv
  <2>2. Undisturbed' => BooksInv'
    BY <2>1, DisturbedStays, BooksNext DEF IInv
  <2>3. QED
    BY <2>1, <2>2 DEF IInv
<1>3. QED
  BY <1>1, <1>2, PTL DEF LeaderSpec

\* Each slice is counted when it is done, and once, though it may be sent, computed and
\* answered several times.
THEOREM CountedOnceHolds == LeaderSpec => []CountedOnce
<1>1. IInv => CountedOnce
  BY DEF IInv, BooksInv, SumsInv, CountedOnce
<1>2. QED
  BY <1>1, IntegralInv, PTL

LEMMA TasksFinite == IsFiniteSet(Task)
<1> DEFINE task == [p \in Query \X Slice |-> [query |-> p[1], slice |-> p[2]]]
<1>1. IsFiniteSet(Query \X Slice)
  BY Numbers, FS_Product
<1>2. task \in Surjection(Query \X Slice, Task)
  <2>1. task \in [Query \X Slice -> Task]
    BY DEF Task
  <2>2. \A t \in Task : \E p \in Query \X Slice : task[p] = t
    <3>1. ASSUME NEW t \in Task
          PROVE  <<t.query, t.slice>> \in Query \X Slice /\ task[<<t.query, t.slice>>] = t
      BY DEF Task
    <3>2. QED
      BY <3>1
  <2> HIDE DEF task
  <2>3. QED
    BY <2>1, <2>2 DEF Surjection
<1> HIDE DEF task
<1>3. QED
  BY <1>1, <1>2, FS_Surjection

\* A list has no task twice, so it is not longer than there are tasks.
LEMMA ListLengths ==
  ASSUME TypeInv, ListsInv, NEW w \in Worker
  PROVE  DOMAIN assigned_tasks[w] \subseteq 1 .. Cardinality(Task)
<1> DEFINE a == assigned_tasks[w]
<1>1. a \in Seq(Task) /\ Len(a) \in Nat /\ DOMAIN a = 1 .. Len(a)
  BY DEF TypeInv, IntegralTypeOK
<1>2. \A i, j \in DOMAIN a : a[i] = a[j] => i = j
  <2>1. ASSUME NEW i \in DOMAIN a, NEW j \in DOMAIN a, a[i] = a[j]
        PROVE  i = j
    <3>1. a[i] \in Task /\ i \in Nat /\ j \in Nat /\ Has(w, i, a[i]) /\ Has(w, j, a[i])
      BY <1>1, <2>1 DEF Has
    <3>2. QED
      BY <3>1 DEF ListsInv
  <2>2. QED
    BY <2>1
<1> HIDE DEF a
<1>3. a \in Injection(1 .. Len(a), Task)
  BY <1>1, <1>2 DEF Injection, IsInjective
<1>4. IsFiniteSet(1 .. Len(a)) /\ Cardinality(1 .. Len(a)) = Len(a)
  BY <1>1, FS_Interval
<1>5. Len(a) <= Cardinality(Task) /\ Cardinality(Task) \in Nat
  BY <1>3, <1>4, TasksFinite, FS_Injection, FS_CardinalityType
<1>6. QED
  BY <1>1, <1>5 DEF a

\* No slice is forgotten or given to two workers.
THEOREM SlicesAccountedHolds == LeaderSpec => []SlicesAccounted
<1>1. ASSUME TypeInv, BooksInv, NEW t \in Task
      PROVE  /\ Assigned(t) = IF t.slice \in tasks_in_progress[t.query] THEN 1 ELSE 0
             /\ tasks_to_do[t.query] # {} => Known = {} /\ tasks_in_progress[t.query] = {}
  <2> DEFINE P == {p \in Worker \X (1 .. Cardinality(Task)) :
                       p[2] \in DOMAIN assigned_tasks[p[1]] /\ assigned_tasks[p[1]][p[2]] = t}
  <2>1. tasks_to_do[t.query] # {} => Known = {} /\ tasks_in_progress[t.query] = {}
    BY <1>1 DEF BooksInv, WaitInv, Task
  <2>2. ASSUME NEW w \in Worker, NEW i \in Nat
        PROVE  <<w, i>> \in P <=> Has(w, i, t)
    BY <1>1, ListLengths DEF Has, BooksInv
  <2>3. \A p \in P : p = <<p[1], p[2]>> /\ p[1] \in Worker /\ p[2] \in Nat
    OBVIOUS
  <2> HIDE DEF P
  <2>4. CASE InProgress(t)
    <3>1. PICK w \in Worker, i \in Nat : Has(w, i, t)
      BY <1>1, <2>4 DEF BooksInv, ListsInv, Known
    <3>2. \A p \in P : p = <<w, i>>
      BY <1>1, <2>2, <2>3, <3>1 DEF BooksInv, ListsInv
    <3>3. P = {<<w, i>>}
      BY <2>2, <3>1, <3>2
    <3>4. Cardinality(P) = 1
      BY <3>3, FS_Singleton
    <3>5. QED
      BY <2>1, <2>4, <3>4 DEF Assigned, InProgress, P
  <2>5. CASE ~ InProgress(t)
    <3>1. P = {}
      BY <1>1, <2>2, <2>3, <2>5 DEF BooksInv, ListsInv
    <3>2. Cardinality(P) = 0
      BY <3>1, FS_EmptySet
    <3>3. QED
      BY <2>1, <2>5, <3>2 DEF Assigned, InProgress, P
  <2>6. QED
    BY <2>4, <2>5
<1>2. IInv => SlicesAccounted
  BY <1>1 DEF IInv, SlicesAccounted
<1>3. QED
  BY <1>2, IntegralInv, PTL
=============================================================================
