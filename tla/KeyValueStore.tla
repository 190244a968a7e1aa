---------------------------- MODULE KeyValueStore ----------------------------
(***************************************************************************)
(* The key-value service of hw2/src/worker/worker.cpp (KeyValueStoreImpl,  *)
(* main) over the replicated log that its node is a part of.  Each gRPC    *)
(* call is a thread in a handler; one std::mutex per process guards        *)
(* storage_ and last_persisted_id_, and is held while a thread waits for   *)
(* the next tick.  A dump (DumpState) takes the steps of a Read.           *)
(*                                                                         *)
(* A call is a Reader of the log, as every handler starts with             *)
(* ActualizeState; a Write call is a Command too, which stands for the     *)
(* string of its key and its value.                                        *)
(***************************************************************************)
EXTENDS ReplicatedLog

CONSTANTS
    Word,        \* strings without white space
    Request,     \* call -> its key and value: words with single spaces between them
    Contact,     \* call -> the workers it may be made at
    Stopping,    \* the workers that may be told to stop
    MaxRestarts  \* bound: how many times processes die

ASSUME CallAssumption ==
    /\ Command \subseteq Reader
    /\ Request \in [Reader -> [key : Seq(Word), value : Seq(Word)]]
    /\ Contact \in [Reader -> SUBSET Replica]
    /\ Stopping \subseteq Replica /\ Restarting \subseteq Replica
    /\ MaxRestarts \in Nat
    /\ Replica \cap {"new", "waiting", "persisted", "broken"} = {}
    /\ None \notin Replica /\ None \notin Reader /\ None \notin Seq(Command)

VARIABLES
    storage,            \* worker -> a map from keys to values
    last_persisted_id,  \* worker -> how many commands it has applied
    lock,               \* worker -> the call that holds its mutex
    pc,                 \* call -> where its handler is
    at,                 \* call -> the worker it is made at
    handled,            \* call -> the iterations of ActualizeState's loop done
    result,             \* call -> the value a Read returns
    stage,              \* worker -> how far `stop' has come
    restarts,           \* how many times processes have died
    seen,               \* history: worker -> commands its callers know to be in effect
    floor               \* history: call -> commands its worker knew of when it was made

storeVars == <<storage, last_persisted_id, lock>>
callVars == <<pc, at, handled, result, floor>>
mainVars == <<stage, restarts>>
vars == <<logVars, storeVars, callVars, mainVars, seen>>
-----------------------------------------------------------------------------
(***************************************************************************)
(* Commands and the map they make.                                         *)
(***************************************************************************)
\* The words of the string "key value" of a Write.
Words(c) == Request[c].key \o Request[c].value

\* The next word a stringstream gives after i of them, or the empty string.  A
\* string of at most one word is the sequence of its words.
NextWord(words, i) == IF i < Len(words) THEN <<words[i + 1]>> ELSE << >>

\* What `c >> key >> value' in ActualizeState makes of a command.
Decoded == [c \in Command |-> [key |-> NextWord(Words(c), 0), value |-> NextWord(Words(c), 1)]]

\* Mutant of Get: a missing key has no value.
GetOptional(s, k) == IF k \in DOMAIN s THEN s[k] ELSE None

\* Storage::Set, and Storage::Get with Read's empty string for a missing key.
Set(s, k, v) == [x \in DOMAIN s \cup {k} |-> IF x = k THEN v ELSE s[x]]
Get(s, k) == IF k \in DOMAIN s THEN s[k] ELSE << >>

-----------------------------------------------------------------------------
(***************************************************************************)
(* The handlers.                                                           *)
(***************************************************************************)
StoreInit ==
    /\ Init
    /\ storage = [n \in Replica |-> << >>]
    /\ last_persisted_id = [n \in Replica |-> 0]
    /\ lock = [n \in Replica |-> None]
    /\ pc = [x \in Reader |-> "new"]
    /\ at = [x \in Reader |-> None]
    /\ handled = [x \in Reader |-> 0]
    /\ result = [x \in Reader |-> << >>]
    /\ stage = [n \in Replica |-> "up"]
    /\ restarts = 0
    /\ seen = [n \in Replica |-> 0]
    /\ floor = [x \in Reader |-> 0]

InProgress == {x \in Reader : pc[x] \notin {"new", "done", "lost"}}

\* The call that x goes on to at pc l.
Goto(x, l) == pc' = [pc EXCEPT ![x] = l]

\* Mutant of Start: Read looks the key up without ActualizeState.
StartUnactualized(x) == IF x \in Command THEN "actualize" ELSE "lookup"

\* Every handler begins with ActualizeState.
Start(x) == "actualize"

\* A client calls worker n, which takes calls until kv_server is shut down.
Begin(x, n) ==
    /\ pc[x] = "new" /\ n \in Contact[x]
    /\ stage[n] \in {"up", "isolated"}
    /\ Goto(x, Start(x))
    /\ at' = [at EXCEPT ![x] = n]
    /\ floor' = [floor EXCEPT ![x] = commit[n]]
    /\ UNCHANGED <<logVars, storeVars, handled, result, mainVars, seen>>

\* Mutant of Free: nobody takes the lock.
FreeAnyhow(n) == TRUE

\* The mutex of n is free.
Free(n) == lock[n] = None

\* "All", in ActualizeState.
BatchSize == 100000000

\* ActualizeState takes the lock and asks for what has not been applied yet.
Ask(x) == LET n == at[x] IN
    /\ pc[x] = "actualize" /\ Free(n)
    /\ lock' = [lock EXCEPT ![n] = x]
    /\ GetPersistentCommands(n, x, [from |-> last_persisted_id[n] + 1, count |-> BatchSize])
    /\ Goto(x, "ask")
    /\ UNCHANGED <<storage, last_persisted_id, at, handled, result, floor, mainVars, seen>>

\* An iteration of the loop of ActualizeState, once the future is ready.
Apply(x) == LET n == at[x] IN
    /\ pc[x] = "ask" /\ reply[x] # None /\ handled[x] < Len(reply[x])
    /\ LET w == Decoded[reply[x][handled[x] + 1]]
       IN  storage' = [storage EXCEPT ![n] = Set(@, w.key, w.value)]
    /\ last_persisted_id' = [last_persisted_id EXCEPT ![n] = @ + 1]
    /\ handled' = [handled EXCEPT ![x] = @ + 1]
    /\ UNCHANGED <<logVars, lock, pc, at, result, floor, mainVars, seen>>

\* The end of ActualizeState, which lets go of the lock.
Unlock(x) ==
    /\ pc[x] = "ask" /\ reply[x] # None /\ handled[x] = Len(reply[x])
    /\ lock' = [lock EXCEPT ![at[x]] = None]
    /\ Goto(x, IF x \in Command THEN "add" ELSE "lookup")
    /\ UNCHANGED <<logVars, storage, last_persisted_id, at, handled, result, floor, mainVars, seen>>

Max2(a, b) == IF a < b THEN b ELSE a

\* Read looks its key up under the lock, which it takes again.
Lookup(x) == LET n == at[x] IN
    /\ pc[x] = "lookup" /\ Free(n)
    /\ result' = [result EXCEPT ![x] = Get(storage[n], Request[x].key)]
    /\ seen' = [seen EXCEPT ![n] = Max2(@, last_persisted_id[n])]
    /\ Goto(x, "done")
    /\ UNCHANGED <<logVars, storeVars, at, handled, floor, mainVars>>

\* Write hands its command to the node.
Add(x) ==
    /\ pc[x] = "add"
    /\ AddCommand(x)
    /\ Goto(x, "wait")
    /\ UNCHANGED <<storeVars, at, handled, result, floor, mainVars, seen>>

\* Write returns when the future is ready: the value is persisted, or the
\* response names the replica to try (or the future throws).
Return(x) == LET n == at[x] IN
    /\ pc[x] = "wait" /\ answer[x] # "waiting"
    /\ Goto(x, "done")
    /\ seen' = IF answer[x] # "persisted" THEN seen
               ELSE [seen EXCEPT ![n] = Max2(@, CHOOSE i \in DOMAIN order : order[i] = x)]
    /\ UNCHANGED <<logVars, storeVars, at, handled, result, floor, mainVars>>
-----------------------------------------------------------------------------
(***************************************************************************)
(* The other threads of the process, and its end.                          *)
(***************************************************************************)
CallsAt(n) == {c \in Command : at[c] = n}

\* Mutant of Ticking: the consensus thread is stopped before the service.
TickingUntilDrained(n) == stage[n] \in {"up", "isolated"}

\* The consensus thread of n is stopped last.
Ticking(n) == stage[n] # "stopped"

\* A tick of n, and what it hears from a leader; it answers the calls made at n.
\* A worker that is cut off from the others may still have messages of theirs.
TickOf(n) ==
    /\ Ticking(n)
    /\ \E k \in 0 .. Len(order), S \in SUBSET CallsAt(n) : Tick(n, k, S)
    /\ UNCHANGED <<storeVars, callVars, mainVars, seen>>

HearFrom(n, leader) ==
    /\ Ticking(n)
    /\ \E k \in 0 .. Len(order), S \in SUBSET CallsAt(n) : Hear(n, k, S, leader)
    /\ UNCHANGED <<storeVars, callVars, mainVars, seen>>

\* A leader takes a command that waits.
TakeIn(c) ==
    /\ Order(<<c>>)
    /\ UNCHANGED <<storeVars, callVars, mainVars, seen>>

\* The command `stop': the main thread shuts communication_server down, then
\* kv_server, which waits for the calls in progress and takes no others, and
\* then stops the consensus thread.
Stop(n) ==
    /\ n \in Stopping
    /\ \/ /\ stage[n] = "up"
          /\ stage' = [stage EXCEPT ![n] = "isolated"]
       \/ /\ stage[n] = "isolated"
          /\ stage' = [stage EXCEPT ![n] = "draining"]
       \/ /\ stage[n] = "draining" /\ \A x \in InProgress : at[x] # n
          /\ stage' = [stage EXCEPT ![n] = "stopped"]
    /\ UNCHANGED <<logVars, storeVars, callVars, restarts, seen>>

\* The process of n dies, or has stopped, and main starts it again with an empty
\* storage; the calls in progress at n break off.
Crash(n) ==
    /\ restarts < MaxRestarts
    /\ restarts' = restarts + 1
    /\ Restart(n, Waiting \cap CallsAt(n))
    /\ storage' = [storage EXCEPT ![n] = << >>]
    /\ last_persisted_id' = [last_persisted_id EXCEPT ![n] = 0]
    /\ lock' = [lock EXCEPT ![n] = None]
    /\ pc' = [x \in Reader |-> IF x \in InProgress /\ at[x] = n THEN "lost" ELSE pc[x]]
    /\ stage' = [stage EXCEPT ![n] = "up"]
    /\ UNCHANGED <<at, handled, result, floor, seen>>

\* The next step of the thread that handles x.
Step(x) == Ask(x) \/ Apply(x) \/ Unlock(x) \/ Lookup(x) \/ Add(x) \/ Return(x)

StoreNext ==
    \/ \E x \in Reader : Step(x) \/ \E n \in Replica : Begin(x, n)
    \/ \E c \in Command : TakeIn(c)
    \/ \E n \in Replica : TickOf(n) \/ Stop(n) \/ Crash(n) \/ \E l \in Replica : HearFrom(n, l)

StoreSpec == StoreInit /\ [][StoreNext]_vars

(***************************************************************************)
(* Fairness: threads run; the main thread goes on with a stop once it has  *)
(* begun; the consensus thread ticks as long as somebody waits for it.     *)
(***************************************************************************)
Served(n) == (\E x \in Reader : Asking(x) /\ query[x].node = n) /\ TickOf(n)

StoreFairness ==
    /\ \A x \in Reader : WF_vars(Step(x))
    /\ \A n \in Replica : WF_vars(Served(n)) /\ WF_vars(stage[n] # "up" /\ Stop(n))

FairStoreSpec == StoreSpec /\ StoreFairness
-----------------------------------------------------------------------------
(***************************************************************************)
(* Properties.                                                             *)
(***************************************************************************)
\* The type invariant of the service.
StoreTypeOK ==
    /\ LogTypeOK
    /\ DOMAIN storage = Replica
    /\ \A n \in Replica : \A k \in DOMAIN storage[n] : {k, storage[n][k]} \subseteq Seq(Word)
    /\ last_persisted_id \in [Replica -> Nat]
    /\ lock \in [Replica -> Reader \cup {None}]
    /\ pc \in [Reader -> {"new", "actualize", "ask", "lookup", "add", "wait", "done", "lost"}]
    /\ at \in [Reader -> Replica \cup {None}]
    /\ handled \in [Reader -> Nat]
    /\ result \in [Reader -> Seq(Word)]
    /\ stage \in [Replica -> {"up", "isolated", "draining", "stopped"}]
    /\ restarts \in Nat
    /\ seen \in [Replica -> Nat] /\ floor \in [Reader -> Nat]

\* Among the first n commands, a command c being a write of write[c].value to
\* write[c].key, the i-th is the last to write k.
LastWrite(i, n, write, k) ==
    /\ write[order[i]].key = k
    /\ \A j \in i + 1 .. n : write[order[j]].key # k

\* After the first n commands, k has the value v; it is empty if none wrote k.
Holds(n, write, k, v) ==
    \/ \E i \in 1 .. n : LastWrite(i, n, write, k) /\ write[order[i]].value = v
    \/ v = << >> /\ \A i \in 1 .. n : write[order[i]].key # k

\* However the threads of a worker interleave, its storage is what the first
\* last_persisted_id_ commands of the order make of an empty map: none is left
\* out, applied twice or out of order, and all of them are persistent.
StorageIsApplied == \A n \in Replica : LET applied == last_persisted_id[n] IN
    /\ applied <= commit[n]
    /\ commit[n] <= Len(order)
    /\ DOMAIN storage[n] = {Decoded[order[i]].key : i \in 1 .. applied}
    /\ \A k \in DOMAIN storage[n] : Holds(applied, Decoded, k, storage[n][k])

\* A name that is one word.
OneWord(name) == Len(name) = 1

\* What a worker has confirmed or shown to clients it knows to be persistent; after
\* a restart it does not, until it has learned as much anew.
SeenKnown == \A n \in Replica : seen[n] > commit[n] => n \in Restarting /\ restarts > 0

\* What a Read returns is the value its key had at some point of the order at which
\* all was in effect that its worker knew to be persistent when it was called.  So a
\* caller reads what it wrote and never goes back, unless its worker has restarted
\* and not learned that anew yet: then it may read less than was confirmed to it.
\* The value is right as long as the keys and values written are single words and
\* one request returns them all.
SessionReads ==
    /\ SeenKnown
    /\ /\ \A i \in DOMAIN order : OneWord(Request[order[i]].key) /\ OneWord(Request[order[i]].value)
       /\ Len(order) <= BatchSize
       => \A x \in Reader \ Command : pc[x] = "done" =>
              \E i \in floor[x] .. Len(order) : Holds(i, Request, Request[x].key, result[x])

\* Every handler gets through ActualizeState and a Read to its end, though it
\* waits under the lock for a tick and others wait for the lock; a stop does not
\* get in its way.
ActualizeEnds == \A x \in Reader :
    pc[x] = "actualize" ~> pc[x] \in {"wait", "done", "lost"}

\* A stop comes to its end unless a Write waits for an answer: nobody answers it
\* any more once the worker is cut off.
StopEnds == \A n \in Replica :
    stage[n] = "isolated" ~>
        \/ stage[n] \in {"stopped", "up"}
        \/ \E x \in Command : at[x] = n /\ pc[x] = "wait"
=============================================================================
