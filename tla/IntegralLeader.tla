----------------------------- MODULE IntegralLeader -----------------------------
(***************************************************************************)
(* The leader of hw1/src/leader/leader.cpp.  RunOverWorkers is a loop:     *)
(* it connects to the workers that have answered a discovery message,      *)
(* removes those whose connections it has seen closed, hands out slices,   *)
(* and then looks at one slot of worker_fds_ after another.                *)
(*                                                                         *)
(* A slot holds the number of a descriptor and keeps it until its worker   *)
(* is removed, in the round after the descriptor is closed.  A socket made *)
(* in between gets the lowest number that is free: it may be that one.     *)
(***************************************************************************)
EXTENDS IntegralWorker

CONSTANT Slot    \* 1 .. max_workers

ASSUME LeaderAssumption ==
    /\ IsFiniteSet(Slot) /\ Slot = 1 .. Cardinality(Slot)
    /\ Query = 1 .. Cardinality(Query)

VARIABLES
    alive,              \* whether the leader's process runs
    hb_updates_,        \* the workers that have answered
    asked,              \* how many queries have been asked
    queries_,           \* how many of them the leader has taken
    tasks_to_do,        \* query -> slices
    tasks_in_progress,  \* query -> slices
    sum,                \* query -> slice -> how often its value is in the result
    descriptor,         \* number -> connection, 0 if it is closed
    worker_fds_,        \* slot -> number of a descriptor, 0 for -1
    position,           \* known worker -> its slot, 0 if it is not known
    assigned_tasks,     \* worker -> the tasks it is to do
    wid_to_delete_,     \* the workers whose connections have been seen closed
    at,                 \* the slot to look at next, 0 between rounds
    reused              \* history: a socket has got the number a slot still holds

queryVars == <<asked, queries_, tasks_to_do, tasks_in_progress, sum>>
slotVars == <<descriptor, worker_fds_, position>>
leaderVars == <<alive, hb_updates_, queryVars, slotVars, assigned_tasks, wid_to_delete_, at, reused>>
vars == <<workerVars, leaderVars>>

\* A set of numbers in order.
Ascending(S) == [k \in 1 .. Cardinality(S) |-> CHOOSE x \in S : Cardinality({y \in S : y <= x}) = k]

\* A set of pairs of numbers in order: by the first, then by the second.
Listed(P) == [k \in 1 .. Cardinality(P) |-> CHOOSE p \in P :
    Cardinality({r \in P : r[1] < p[1] \/ (r[1] = p[1] /\ r[2] <= p[2])}) = k]

\* The workers the leader knows, and the connections it holds its end of.
Known == {w \in Worker : position[w] # 0}
Open == {descriptor[f] : f \in Slot} \ {0}

\* The first slot from i on that is in use, or 0.
SlotFrom(fds, i) == LET inUse == {j \in Slot : j >= i /\ fds[j] # 0} IN
    IF inUse = {} THEN 0 ELSE CHOOSE j \in inUse : \A k \in inUse : j <= k

\* How often each slice is counted when those of S are counted once.
Bag(S) == [s \in Slice |-> IF s \in S THEN 1 ELSE 0]
-----------------------------------------------------------------------------
LeaderInit ==
    /\ WorkersInit
    /\ alive = TRUE
    /\ hb_updates_ = {}
    /\ asked = 0 /\ queries_ = 0
    /\ tasks_to_do = [q \in Query |-> {}] /\ tasks_in_progress = [q \in Query |-> {}]
    /\ sum = [q \in Query |-> Bag({})]
    /\ descriptor = [f \in Slot |-> 0] /\ worker_fds_ = [i \in Slot |-> 0]
    /\ position = [w \in Worker |-> 0]
    /\ assigned_tasks = [w \in Worker |-> << >>]
    /\ wid_to_delete_ = {}
    /\ at = 0
    /\ reused = FALSE

\* GetResult
GetResult ==
    /\ asked < Cardinality(Query)
    /\ asked' = asked + 1
    /\ UNCHANGED <<workerVars, alive, hb_updates_, queries_, tasks_to_do, tasks_in_progress, sum,
                   slotVars, assigned_tasks, wid_to_delete_, at, reused>>

\* A worker hears a discovery message and the leader its answer; the answer of a
\* known worker only renews its last_heartbeat, which nothing reads.
Discover(w) ==
    /\ alive /\ up[w] /\ position[w] = 0
    /\ hb_updates_' = hb_updates_ \cup {w}
    /\ UNCHANGED <<workerVars, alive, queryVars, slotVars, assigned_tasks, wid_to_delete_, at,
                   reused>>
-----------------------------------------------------------------------------
(***************************************************************************)
(* A round.                                                                *)
(***************************************************************************)
\* The new workers: the first by port, as many as there are free slots.
Joiners ==
    LET new == hb_updates_ \ Known
        free == Cardinality({i \in Slot : worker_fds_[i] = 0})
    IN  {w \in new : Cardinality({v \in new : v <= w}) <= free}

\* The connections made to them: the k-th gets the k-th free slot and, as its
\* descriptor, the k-th number that is closed.
Connections ==
    LET Kth(S, w) == Ascending(S)[Cardinality({v \in Joiners : v <= w})]
    IN  {[worker |-> w,
          slot |-> Kth({i \in Slot : worker_fds_[i] = 0}, w),
          number |-> Kth({f \in Slot : descriptor[f] = 0}, w),
          connection |-> Kth(Connection \ (Open \cup Held), w)] : w \in Joiners}

\* f with the component y of each record in S as the value of the component x.
Override(f, S, x, y) == [a \in DOMAIN f |-> IF \E m \in S : m[x] = a
                                           THEN (CHOOSE m \in S : m[x] = a)[y] ELSE f[a]]

\* Mutant of Orphans: the tasks of the workers that are gone are forgotten.
NoOrphans(gone) == << >>

\* The tasks of the workers that are gone, of one worker after the other.
Orphans(gone) ==
    LET places == Listed(UNION {{<<w, i>> : i \in DOMAIN assigned_tasks[w]} : w \in gone})
    IN  [k \in DOMAIN places |-> assigned_tasks[places[k][1]][places[k][2]]]

\* Who gets the tasks, one after the other: a worker that has the least by then,
\* the lowest of them.
Placements(new, workers) == {to \in [DOMAIN new -> workers] : \A k \in DOMAIN new, v \in workers :
    LET load(u) == Len(assigned_tasks[u]) + Cardinality({j \in 1 .. k - 1 : to[j] = u})
    IN  load(to[k]) < load(v) \/ (load(to[k]) = load(v) /\ to[k] <= v)}

\* The tasks that w gets.
Share(new, to, w) == LET places == Ascending({k \in DOMAIN new : to[k] = w})
                     IN  [i \in DOMAIN places |-> new[places[i]]]

\* Mutant of Taken: the loop over the slices of a query goes one too far.
TakenOneMore(q) == IF q \in queries_ + 1 .. asked
                   THEN Slice \cup {Cardinality(Slice) + 1} ELSE tasks_to_do[q]

\* The slices of q that wait once the leader has taken the queries asked.
Taken(q) == IF q \in queries_ + 1 .. asked THEN Slice ELSE tasks_to_do[q]

\* The slices that wait, of one query after the other.
ToDo ==
    LET places == Listed(UNION {{<<q, s>> : s \in Taken(q)} : q \in Query})
    IN  [k \in DOMAIN places |-> [query |-> places[k][1], slice |-> places[k][2]]]

\* Without workers the orphans wait; with some, all that waits is handed out, and
\* the two sets of a query are swapped.
HandOut(orphans, workers) ==
    IF workers = {}
    THEN LET back(q) == {s \in Slice : \E i \in DOMAIN orphans : orphans[i] = [query |-> q, slice |-> s]}
         IN  /\ tasks_in_progress' = [q \in Query |-> tasks_in_progress[q] \ back(q)]
             /\ tasks_to_do' = [q \in Query |-> Taken(q) \cup back(q)]
             /\ assigned_tasks' = [w \in Worker |-> << >>]
    ELSE LET swap(q) == Taken(q) # {}
         IN  /\ tasks_in_progress' =
                    [q \in Query |-> IF swap(q) THEN Taken(q) ELSE tasks_in_progress[q]]
             /\ tasks_to_do' = [q \in Query |-> IF swap(q) THEN tasks_in_progress[q] ELSE {}]
             /\ \E new \in {orphans \o ToDo} : \E to \in Placements(new, workers) :
                    assigned_tasks' = [w \in Worker |->
                        IF w \in workers THEN assigned_tasks[w] \o Share(new, to, w) ELSE << >>]

\* Bounds: there are identities for the connections, and no list of tasks is longer
\* than all tasks together.  After a disturbance the lists may grow in every round.
Bounded ==
    /\ Cardinality(Connection \ (Open \cup Held)) >= Cardinality(Joiners)
    /\ \A w \in Worker : Len(assigned_tasks[w]) <= Cardinality(Query) * Cardinality(Slice)

\* close gets the number that the slot of a worker to remove holds, whatever that
\* number stands for by now.
Round ==
    /\ alive /\ at = 0
    /\ Joiners \subseteq {w \in Worker : up[w]}
    /\ Bounded
    /\ \E made \in {Connections} :
       LET fds == Override(worker_fds_, made, "slot", "number")
           open == Override(descriptor, made, "number", "connection")
           new == {m.connection : m \in made}
           gone == wid_to_delete_ \cap Known
           slots == {position[w] : w \in gone}
           numbers == {fds[i] : i \in slots}
           to(w) == {m.connection : m \in {m \in made : m.worker = w}}
       IN  /\ queue' = [w \in Worker |-> queue[w] \o Ascending(to(w))]
           /\ tasks' = [c \in Connection |-> IF c \in new THEN << >> ELSE tasks[c]]
           /\ results' = [c \in Connection |-> IF c \in new THEN << >> ELSE results[c]]
           /\ worker_fds_' = [i \in Slot |-> IF i \in slots THEN 0 ELSE fds[i]]
           /\ descriptor' = [f \in Slot |-> IF f \in numbers THEN 0 ELSE open[f]]
           /\ position' = [w \in Worker |-> IF w \in gone THEN 0
                                           ELSE Override(position, made, "worker", "slot")[w]]
           /\ reused' = (reused \/ \E m \in made : \E i \in Slot : worker_fds_[i] = m.number)
           /\ \E orphans \in {Orphans(gone)}, workers \in {(Known \cup Joiners) \ gone} :
                  HandOut(orphans, workers)
    /\ at' = SlotFrom(worker_fds_', 1)
    /\ hb_updates_' = {} /\ wid_to_delete_' = {}
    /\ queries_' = asked
    /\ UNCHANGED <<up, garbled, crashes, alive, asked, sum>>

\* The leader's process ends, and with it its ends of all connections.
End == alive' = FALSE /\ descriptor' = [f \in Slot |-> 0]

\* connect is refused, as the worker has died since it answered: HANDLE_C_ERROR
\* throws in the leader's thread.
Refused ==
    /\ alive /\ at = 0
    /\ \E w \in Joiners : ~up[w]
    /\ End
    /\ UNCHANGED <<workerVars, hb_updates_, queryVars, worker_fds_, position, assigned_tasks,
                   wid_to_delete_, at, reused>>
-----------------------------------------------------------------------------
(***************************************************************************)
(* What a round does at slot i, where it has the connection c to worker w. *)
(***************************************************************************)
\* The connection whose descriptor the slot names, if it is open.
ConnectionAt(i) == descriptor[worker_fds_[i]]

WorkerAt(i) == CHOOSE w \in Worker : position[w] = i

\* poll or recv shows the connection closed; results that it still holds may be
\* lost with it.
Detect(i) == LET c == ConnectionAt(i) IN
    /\ c # 0 /\ c \notin Held
    /\ descriptor' = [descriptor EXCEPT ![worker_fds_[i]] = 0]
    /\ wid_to_delete_' = wid_to_delete_ \cup {WorkerAt(i)}
    /\ UNCHANGED <<workerVars, alive, queryVars, assigned_tasks>>

\* Mutant of Awaited: any result is added.
AwaitedAnyhow(r) == TRUE

\* A result counts if its slice is in progress.
Awaited(r) == r.slice \in tasks_in_progress[r.value.query]

\* A result has arrived: the value is added, and the first task assigned to the
\* worker is erased.
Accept(w, r) == LET q == r.value.query IN
    IF Awaited(r)
    THEN /\ sum' = [sum EXCEPT ![q][r.value.slice] = IF @ = 2 THEN @ ELSE @ + 1]
         /\ tasks_in_progress' = [tasks_in_progress EXCEPT ![q] = @ \ {r.slice}]
         /\ assigned_tasks' = [assigned_tasks EXCEPT ![w] = Tail(@)]
    ELSE UNCHANGED <<sum, tasks_in_progress, assigned_tasks>>

\* A vector that is empty has no first task: erasing it is undefined, and the
\* task read from what is left is not there.
Empty(w, r) == Awaited(r) /\ assigned_tasks[w] = << >>

\* The first of a worker's tasks is sent, again in every round until it is answered,
\* if the worker is there and the socket has room.
SendFirst(list, c) ==
    tasks' = IF c \in Held /\ list # << >> /\ Len(tasks[c]) < Capacity
             THEN [tasks EXCEPT ![c] = Append(@, Head(list))] ELSE tasks

\* recv gives one result, or several that are read as one.
Receive(i) == LET c == ConnectionAt(i)
                  w == WorkerAt(i) IN
    /\ c # 0
    /\ \E n \in 1 .. Len(results[c]) : \E slice \in Parsed(results[c], n) :
           LET r == [Head(results[c]) EXCEPT !.slice = slice]
           IN  /\ results' = [results EXCEPT ![c] = Rest(@, n)]
               /\ garbled' = (garbled \/ n > 1)
               /\ IF Empty(w, r)
                  THEN /\ End
                       /\ UNCHANGED <<tasks, sum, tasks_in_progress, assigned_tasks>>
                  ELSE /\ Accept(w, r)
                       /\ SendFirst(IF Awaited(r) THEN Tail(assigned_tasks[w])
                                                  ELSE assigned_tasks[w], c)
                       /\ UNCHANGED <<alive, descriptor>>
    /\ UNCHANGED <<up, queue, crashes, asked, queries_, tasks_to_do, wid_to_delete_>>

\* There is nothing to read.
Send(i) == LET c == ConnectionAt(i) IN
    /\ c \in Held /\ results[c] = << >>
    /\ SendFirst(assigned_tasks[WorkerAt(i)], c)
    /\ UNCHANGED <<up, queue, results, garbled, crashes, alive, queryVars, descriptor, assigned_tasks,
                   wid_to_delete_>>

\* The slot names a descriptor that is closed: poll shows nothing but POLLNVAL.
Skip(i) ==
    /\ ConnectionAt(i) = 0
    /\ UNCHANGED <<workerVars, alive, queryVars, descriptor, assigned_tasks, wid_to_delete_>>

Look ==
    /\ alive /\ at # 0
    /\ Detect(at) \/ Receive(at) \/ Send(at) \/ Skip(at)
    /\ at' = SlotFrom(worker_fds_, at + 1)
    /\ UNCHANGED <<hb_updates_, worker_fds_, position, reused>>

OfWorker(w) == (Work(w) \/ HangUp(w, Open)) /\ UNCHANGED leaderVars

LeaderNext ==
    \/ GetResult \/ Round \/ Refused \/ Look
    \/ \E w \in Worker : \/ Discover(w) \/ OfWorker(w)
                         \/ (Boot(w) \/ Crash(w)) /\ UNCHANGED leaderVars

(***************************************************************************)
(* Fairness: the leader's thread and those of a worker run, and a worker   *)
(* that is up is discovered at some time.                                  *)
(***************************************************************************)
LeaderSpec ==
    /\ LeaderInit /\ [][LeaderNext]_vars
    /\ WF_vars(Round \/ Refused \/ Look)
    /\ \A w \in Worker : WF_vars(Discover(w)) /\ WF_vars(OfWorker(w))
-----------------------------------------------------------------------------
(***************************************************************************)
(* Properties.  They hold until a socket gets a number that is still in a  *)
(* slot, or several messages are read as one.                              *)
(***************************************************************************)
IntegralTypeOK ==
    /\ WorkersTypeOK
    /\ alive \in BOOLEAN /\ reused \in BOOLEAN
    /\ hb_updates_ \subseteq Worker /\ wid_to_delete_ \subseteq Worker
    /\ asked \in 0 .. Cardinality(Query) /\ queries_ \in 0 .. asked
    /\ tasks_to_do \in [Query -> SUBSET Slice] /\ tasks_in_progress \in [Query -> SUBSET Slice]
    /\ sum \in [Query -> [Slice -> 0 .. 2]]
    /\ descriptor \in [Slot -> Connection \cup {0}] /\ worker_fds_ \in [Slot -> Slot \cup {0}]
    /\ position \in [Worker -> Slot \cup {0}] /\ at \in Slot \cup {0}
    /\ assigned_tasks \in [Worker -> Seq(Task)]

Undisturbed == ~garbled /\ ~reused

\* How often a task is in the list of some worker.
Assigned(t) == Cardinality({p \in Worker \X (1 .. Cardinality(Task)) :
    p[2] \in DOMAIN assigned_tasks[p[1]] /\ assigned_tasks[p[1]][p[2]] = t})

\* No slice is forgotten or given to two workers, whichever workers die in
\* whichever order: what is in progress is in the list of exactly one worker that
\* the leader knows, nothing else is in one, and slices wait only while it knows none.
SlicesAccounted == Undisturbed => \A t \in Task :
    /\ Assigned(t) = IF t.slice \in tasks_in_progress[t.query] THEN 1 ELSE 0
    /\ tasks_to_do[t.query] # {} => Known = {} /\ tasks_in_progress[t.query] = {}

\* The result of a query is the sum of the values of its slices: each is added when
\* its slice is no longer waiting or in progress, and once, though it is sent,
\* computed and answered several times.
CountedOnce == Undisturbed => \A q \in 1 .. queries_ :
    sum[q] = Bag(Slice \ (tasks_to_do[q] \cup tasks_in_progress[q]))

Solved(q) == q <= queries_ /\ tasks_to_do[q] = {} /\ tasks_in_progress[q] = {}

\* A query that is asked is solved if some worker stays up, whatever becomes of the
\* others, unless the leader has tried to connect to one that was gone.
QueryEnds ==
    (\E w \in Worker : <>[]up[w]) /\ []Undisturbed
        => \A q \in Query : asked >= q ~> (Solved(q) \/ ~alive)
=============================================================================
