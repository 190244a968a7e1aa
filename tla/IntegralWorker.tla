----------------------------- MODULE IntegralWorker -----------------------------
(***************************************************************************)
(* The workers of hw1/src/worker/worker.cpp and the TCP connections to     *)
(* them.  A worker serves one connection at a time, in the order in which  *)
(* they were made, and on it one task after another.  A message is a line  *)
(* of numbers without an end: when one recv returns several messages, the  *)
(* first number of the second is read as digits of the task id that the    *)
(* first ends with.                                                        *)
(***************************************************************************)
EXTENDS Naturals, Sequences, FiniteSets

CONSTANTS
    Worker,      \* the ports of the workers
    Query,       \* 1 .. the number of queries
    Slice,       \* 1 .. the slices of a query
    Connection,  \* bound: identities of connections
    Capacity,    \* bound: messages in flight on a connection, each way
    MaxCrashes   \* bound: how often workers die by themselves

ASSUME WorkerAssumption ==
    /\ \A S \in {Worker, Query, Slice, Connection} : IsFiniteSet(S) /\ S \subseteq Nat \ {0}
    /\ Capacity \in Nat \ {0} /\ MaxCrashes \in Nat

VARIABLES
    up,        \* worker -> whether its process runs
    queue,     \* worker -> the connections it serves: the one it has accepted first
    tasks,     \* connection -> tasks on their way to the worker
    results,   \* connection -> results on their way to the leader
    garbled,   \* history: a recv has returned several messages
    crashes    \* how often workers have died by themselves

workerVars == <<up, queue, tasks, results, garbled, crashes>>

Task == [query : Query, slice : Slice]

\* The value of a task, with the id it is sent under; 0 is nobody's id.
Result == [value : Task, slice : Slice \cup {0}]
-----------------------------------------------------------------------------
WorkersInit ==
    /\ up = [w \in Worker |-> FALSE]
    /\ queue = [w \in Worker |-> << >>]
    /\ tasks = [c \in Connection |-> << >>] /\ results = [c \in Connection |-> << >>]
    /\ garbled = FALSE
    /\ crashes = 0

\* The task ids that the first n messages of a stream may be read as.
Parsed(messages, n) == IF n = 1 THEN {Head(messages).slice} ELSE Slice \cup {0}

\* What is left of a stream after n messages.
Rest(messages, n) == SubSeq(messages, n + 1, Len(messages))

\* The connections whose other end some worker holds.
Held == UNION {{queue[w][i] : i \in DOMAIN queue[w]} : w \in Worker}

\* A worker's process starts.
Boot(w) ==
    /\ ~up[w]
    /\ up' = [up EXCEPT ![w] = TRUE]
    /\ UNCHANGED <<queue, tasks, results, garbled, crashes>>

\* It ends: what it has not read is gone.
Die(w) ==
    /\ up' = [up EXCEPT ![w] = FALSE]
    /\ queue' = [queue EXCEPT ![w] = << >>]
    /\ tasks' = [c \in Connection |-> IF \E i \in DOMAIN queue[w] : queue[w][i] = c
                                      THEN << >> ELSE tasks[c]]
    /\ UNCHANGED <<results, garbled>>

Crash(w) ==
    /\ up[w] /\ crashes < MaxCrashes
    /\ crashes' = crashes + 1
    /\ Die(w)

\* recv, the integral, and send of the result, for which the socket must have room.
Work(w) == queue[w] # << >> /\ LET c == Head(queue[w]) IN
    /\ Len(results[c]) < Capacity
    /\ \E n \in 1 .. Len(tasks[c]) : \E slice \in Parsed(tasks[c], n) :
           /\ results' = [results EXCEPT ![c] = Append(@, [value |-> Head(tasks[c]), slice |-> slice])]
           /\ tasks' = [tasks EXCEPT ![c] = Rest(@, n)]
           /\ garbled' = (garbled \/ n > 1)
    /\ UNCHANGED <<up, queue, crashes>>

\* The leader has closed the connection: recv returns 0 and the next connection is
\* accepted, or recv or send fails and the process ends.
HangUp(w, open) ==
    /\ queue[w] # << >> /\ Head(queue[w]) \notin open
    /\ \/ /\ queue' = [queue EXCEPT ![w] = Tail(@)]
          /\ tasks' = [tasks EXCEPT ![Head(queue[w])] = << >>]
          /\ UNCHANGED <<up, results, garbled, crashes>>
       \/ Die(w) /\ UNCHANGED crashes

WorkersTypeOK ==
    /\ up \in [Worker -> BOOLEAN]
    /\ queue \in [Worker -> Seq(Connection)]
    /\ tasks \in [Connection -> Seq(Task)] /\ results \in [Connection -> Seq(Result)]
    /\ garbled \in BOOLEAN /\ crashes \in Nat
=============================================================================
