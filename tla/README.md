# A verification of ToFTDS

TLA+ modules, TLC configurations and TLAPS proofs about the programs of this
repository: the Raft-like replicated log of `hw2`, the key-value service on top of it, and the
leader and workers of `hw1`. All three are modelled and model-checked, and every safety property a passing run checks is also proved.

## The system

The repository holds two programs.

### hw2: a replicated key-value store

| component | source (under `src/hw2/src`) | state | operations | modelled |
|---|---|---|---|---|
| consensus node | `consensus/node.{h,cpp}`, `state.h`, `message.h`, `common.h`, `node_sender.h` | `PersistentState` (term, vote, log), `VolatileState` (commit index), optional `CandidateState` (votes) and `LeaderState` (next and match index per node), four queues of incoming messages, the queue of incoming commands, `items_to_response_` (promises by log index), waiting reads | `Tick`, the four message handlers, `AddCommand`, `GetPersistentCommands` | yes |
| election timer | `common/timeout.h` | deadline drawn from an interval, 0 at first | `IsExpired`, `Reset` | as a choice |
| transport | `worker/worker.cpp`, `communication.proto` | per peer a gRPC stub and the futures of the calls made | conversion to and from protobuf; one `std::async` call per message | yes: delay, loss, reordering, repetition, conversion |
| key-value service | `worker/worker.cpp`, `kv_store.proto`, `common/storage.h`, `common/query.h` | the storage and the index of the last command applied to it | `Read`, `Write`, `DumpState`, over the node | yes |
| worker process | `worker/worker.cpp` (`main`) | two servers, the tick thread | start, `dump`, `stop` | yes: threads, the orderly stop, death and restart |
| client | `client/cli.cpp` | none | sends reads and writes to a worker it chooses | yes: as the caller of a worker |
| log macro, tests | `common/log.h`, `consensus/ut/node_test.cpp` | none | | read, not modelled |

The process calls `Tick` of its node once a second from one thread (`worker.cpp:333-338`).
gRPC threads put messages and client calls into the node's queues at any moment; a tick
swaps the queues out and works through them. Each handler of the key-value service runs in a thread of
its own: it takes the service's lock, asks the node for the persistent commands it has not applied and waits,
the lock in its hands, for the tick that answers; a `Write` then hands its command to the node and waits for
the future. Nodes talk through `IMessageSender`: a
node's channel to itself is its own queue, a channel to another is a gRPC call whose
failure is logged and forgotten. Callers of the node hold futures; the node holds the promises.

What is hard here: messages that arrive late, repeated, out of order or not at all; ticks of several
nodes and calls of clients interleaving; handlers that wait under a lock for a tick, and for each other at shutdown; state
kept by log index while the log changes (promises,
match and next indices, commit index); a vote that has to survive every change of role; indices
that are `uint64_t` and decremented; terms, votes and logs that are called persistent and are never
written anywhere.

What makes it correct: one leader per term; logs that agree wherever they share an
item's term; what is committed stays and is the same on every node; a command reported persisted
is held by a majority, one reported redirected is in no log; every accepted call is answered; a
leader brings every node up to date. The storage of a worker is what the commands it has applied
make of it, a client that has written or read a value at a worker reads nothing older there unless the
worker was restarted since, and handlers and a stop come to their end.

### hw1: an integral over workers that come and go

| component | source (under `src/hw1/src`) | state | operations | modelled |
|---|---|---|---|---|
| integral leader | `leader/leader.{h,cpp}`, `leader_launch.cpp` | queries with tasks to do and in progress, known workers with their assigned tasks, sockets, heartbeats received | accept a query; discover; one round of `RunOverWorkers`: add workers, remove the lost, reassign, poll each socket | yes, but `Stop` |
| integral worker | `worker/worker.{h,cpp}`, `worker_launch.cpp` | the current connection | answer discovery; accept a connection and answer the tasks on it | yes, but `Stop` |
| evaluation | `common/integral.{h,cpp}` | none | a sum of doubles | no: floating point |
| sockets, types | `socket/`, `common/{ensure,message,task,types}.h` | none | system calls | no: I/O and declarations |

Leader and worker share a UDP discovery port and a TCP connection per worker. Everything that matters happens in
one thread of the leader and one per worker. The hard part is the
leader's bookkeeping: every slice of every query is to be counted exactly once although workers
disappear, slices are sent repeatedly, and a result removes the first assigned task whatever
task it is for; and what the operating system does underneath: descriptor numbers that are used again, and a
stream of bytes without message boundaries. A query is correct when its result holds each slice
once and it ends as long as some worker lives.

Hazards, each at its line, are in `PROJECT.json`, with the properties that watch over them.

## The modules

| module | what it is |
|---|---|
| `ConsensusLog` | operators on a replicated log: the consistency check, what `HandleAppendEntriesRequest` does to a log, the up-to-date comparison |
| `ConsensusNode` | all replicas, the channels between them and the clients: state, one action per handler and step, fairness, properties |
| `ConsensusWorker` | the same replicas as processes: what the gRPC service makes of a message, processes that die and start again |
| `ReplicatedLog` | the abstract log: what the replicas promise together through the interface of `Node` |
| `ConsensusRefinement` | `ConsensusNode` as an implementation of `ReplicatedLog` |
| `KeyValueStore` | the service, its threads, lock, stop and restart, on top of `ReplicatedLog` |
| `IntegralWorker` | the workers of hw1 and the connections to them |
| `IntegralLeader` | the leader of hw1, which extends them: queries, discovery, descriptors, rounds |
| `MCConsensusNode`, `MCConsensusWorker`, `MCKeyValueStore`, `MCIntegralLeader` | values of the constants for TLC |
| `MCStaleAnswer` | the same, and the part of `ConsensusNode` that `stale_answer.cfg` looks at |
| `ConsensusNodeProofs` | type correctness of the replicas; what each action does to each part of the state, cited by the next five |
| `ConsensusNodeElectionProofs` | votes, leaders, and how a term comes by two of them |
| `ConsensusNodeLogProofs` | the inductive invariant about logs and requests; log matching, append-only leaders, no conflicting requests; which logs votes are for |
| `ConsensusNodeCommandProofs` | where promises are, and what redirected clients may rely on |
| `ConsensusRefinementProofs` | one replica leads: one log, commits, answers, reads, and the implementation of `ReplicatedLog` |
| `ConsensusWorkerProofs` | what of all that is left when processes die and `leader_commit` is lost |
| `KeyValueStoreProofs` | type correctness of the service; the storage is what the applied commands make of it; what a read returns |
| `IntegralLeaderProofs` | type correctness of hw1; the books of the leader: every slice is somewhere, and counted once |

They build on one another like this: `ConsensusLog` < `ConsensusNode` < `ConsensusRefinement` <
`ConsensusWorker`, `ReplicatedLog` < `KeyValueStore`, and `IntegralWorker` < `IntegralLeader`; `ReplicatedLog` is
what joins the first two chains. The replicas are shown to implement it, and the service is checked over it, so that
neither run has to carry the other's state.

Operators whose comment says "Mutant of" are faulty variants of the operator that follows them. No
specification uses them; they record which fault each property notices.

### ConsensusNode and the code

The state of `Node` is the record `node[n]`. `votes` exists in the code only while `candidate_state_`
does, `nextIndex` and `matchIndex` only while `leader_state_` does; outside they are at a fixed value.
The log is kept without the sentinel that `node.cpp:87` puts at index 0, so that indices are the code's.

| code | action |
|---|---|
| `AddCommand`, `GetPersistentCommands` | the same, enabled at any moment, in the middle of a tick too |
| `Tick` up to the queue swap: `HandleGetPersistentCommandRequests`, and `CommitIfPossible` for a leader | `BeginTick` |
| `HandleAppendEntriesRequest`, `HandleRequestVoteRequest`, `HandleAppendEntriesResponse`, `HandleRequestVoteResponse` and the reply the caller sends | the same |
| the end of `TickLeader`: `SendAppendEntriesToAll`, `AddNewCommandsToLog` | `EndLeaderTick` |
| the end of `TickFollower` and `TickCandidate`, timer running or expired (`BecomeCandidate`, `SendRequestVoteToAll`) | `EndQuietTick`, `EndExpiredTick` |

Decisions worth knowing:

- **Ticks follow one another.** Between the swap of its queues and its end a tick reads and writes its
  own replica only, and what it sends may be delayed by the channel anyway, so a tick of one replica
  may be moved past the steps of another. Client calls touch queues that a tick looks at
  in the middle, so they stay interleaved with its steps.
- **Queues.** `HandleIncomingMessages` empties its four queues one after another: `Takes` hands out any
  message of the first queue that is not empty. The order inside a queue is open, as the
  calls that fill it run in parallel.
- **Own messages.** A node sends to itself as well. That channel is a queue of the same process:
  it loses nothing and its content is there at the next tick.
- **Timer.** `Reset` draws at least 7 seconds, so a timer that was reset in this tick has not
  expired at its end; any other may have. `Standing` bounds which replicas' timers may expire into which term.
- **`Huge`.** `--next_index` wraps around at zero. A wrapped value is `Huge`, which stays `Huge` when
  decremented and lies beyond every log.
- **`Garbage`, `TermsRead`.** Reads past the end of the `std::vector` (of a previous item's term, of
  a committed command that was cut off) return any term, or the value `Garbage`.
- **A request whose previous index is outside the log** carries no items in the model. In the code it
  carries none either (the loop at 226 starts behind the end), or the index has wrapped to
  2^64 - 1, when the loop starts at index 0 and copies everything. Such a request is
  rejected, as its previous index is beyond the receiver's log, so the items play no part.
- **Answers.** A client's future is `new`, `waiting`, `persisted`, a replica (redirected), or `broken`: its
  promise was destroyed unanswered.

### ConsensusWorker and the code

The module adds two actions to those of `ConsensusNode`, a counter that bounds the second, and the set `fresh` of the
processes that have not ended their first tick.

- `SendAnnotatedMessage` is `CommunicationImpl::SendAnnotatedMessage`. Every field that a handler looks at
  comes through the conversion to protobuf and back, a wrapped index included (it is `-1` as an `int32` and sign-extends),
  except `leader_commit`: it is sent (`worker.cpp:200`) but not copied on receipt (115-128), and the
  struct has no initialisers. The action replaces it by any value of `CommitRead`. Since an indeterminate
  value may be right by chance, a request that is delivered unconverted is one of the outcomes.
- `Restart` is the death of a process at any moment and its next start (`main`): a new `Node` with
  the same id, nothing of `PersistentState` kept. Its promises go with it, so the calls that wait for
  them break off; messages in its queues, and those it has not sent yet, may be lost.
- `ReplicaStep` is a step of `ConsensusNode`, less what a process cannot do: the timer of a new one is expired from the start
  (`expires_at_(0)`, `timeout.h:20`), so a process whose first tick resets it by no message stands at the end of that tick.
  `FirstTermAssumption` lets every replica stand for the first term; its absence would cut the restarted candidates away.

### ReplicatedLog and the refinement

`ReplicatedLog` has one `order` of commands that only grows, for each replica how much of it the replica knows to
be persistent, and what clients see: the answer to each command, and the reply to each read. A command is ordered
once, or its caller is sent elsewhere and it is in nobody's log; who is told `persisted` finds the command in the
replica's prefix; a read returns the part of the prefix it asked for; the prefix never shrinks, unless the process dies.

The mapping of `ConsensusRefinement` takes the longest log for the order and commit indices for the prefixes. It is right
as long as nobody but one replica is elected (`stable`, where nobody else stands): every step of the protocol then is a
step of the log or a stutter. `ConsensusWorker` has the same mapping onto a log that is weaker in two respects (`restarts`): a
replica that dies loses its prefix, and one that hears from the leader may mistake how much is persistent (`Mishear`, in
`UnsureNext`), since a `leader_commit` that is garbage may take its commit index too far or back. The order, the answers and what
replies say of the order stay what they are. With several leaders the code does not implement any such log: `lost_commit` and
`false_ack` show commands that were persistent and are not any more.

### KeyValueStore and the code

| code | action |
|---|---|
| a client's call (`cli.cpp`) reaches `kv_server` | `Begin` |
| `ActualizeState`: lock, `GetPersistentCommands(last_persisted_id_ + 1, All)` | `Ask` |
| one iteration of its loop: parse, `Set`, count | `Apply` |
| its end, which unlocks | `Unlock` |
| `Read`: lock, `Get`, unlock | `Lookup` |
| `Write`: `AddCommand`, then the wait for the future | `Add`, `Return` |
| the tick thread of a worker | `TickOf`, `HearFrom`, `TakeIn` |
| the command `stop`: `communication_server->Shutdown()`, `kv_server->Shutdown()`, join | the three stages of `Stop` |
| the death of a process and its next start | `Crash` |

- **Threads.** Each handler is a process with a program counter. `Apply` is one action per command, though the
  lock is held, since the proof of `StorageIsApplied` should not depend on that.
- **Strings.** `Write` sends `key + " " + value`, `ActualizeState` reads two words back. A string
  is the sequence of its words, and `Decoded` is what the parser makes of that: the first word, the second word, and an empty
  string where there is none. A key of two words therefore comes back as another key.
- **`seen` and `floor`** are history: how much of the order a worker has confirmed or shown to clients, over its restarts, and how
  much its node knew to be persistent when a call began. The first is not above what the node knows now except after a restart
  (`SeenKnown`): the storage and the node are then empty (`Crash`), and a read may go behind what was confirmed before.
- **A worker that is cut off** (`isolated` and later) may still hear from a leader: messages may be in its queue.
- **`DumpState`** takes the lock, actualizes and prints; it is a call that reads.

### IntegralWorker, IntegralLeader and the code

| code | action |
|---|---|
| `GetResult` (the query is queued) | `GetResult` |
| discovery, its answer, `hb_updates_` | `Discover` |
| `RunOverWorkers` up to the loop over sockets: connect (87-128), remove the lost (167-179), take queries (55-85), distribute (181-215) | `Round`; `Refused` if `connect` fails |
| the loop over `worker_fds_` (217-303), one slot at a time | `Look`: `Detect`, `Receive`, `Send`, `Skip` |
| a worker's `recv`, `EvaluateIntegral`, `send` | `Work` |
| a connection ends under a worker | `HangUp` |
| a worker's process starts or dies | `Boot`, `Crash` |

- **Descriptors.** `worker_fds_` holds numbers. A number is closed as soon as its connection is seen closed (239, 247,
  294), but its slot is cleared in the next round, after that round's connects (104, 172). A new socket
  gets the lowest free number, which may be that one: the code then closes the new worker's connection. The model keeps
  numbers and connections apart, and the history variable `reused` tells when this has happened.
- **Messages.** A task or result is a line without an end mark. `recv` returns one message or several at once;
  the id that ends the first is then followed by the digits that begin the second, so the
  slice it counts for may be any, or none. `garbled` tells when this has happened.
- **Values.** `sum[q][s]` counts how often the value of slice `s` is in the result of `q` (2 stands for more).
- **The loop over workers** distributes tasks to the one with the least tasks. Ties go by the lowest port; in
  the code they go by the order of a `std::set`, which is that of the ports too.
- **Undefined behaviour.** A result that is accepted while the worker's list is empty erases the first element of an empty
  vector (257): `End`, the leader is gone.

## The runs

Bounds of the replicas: `MaxTerm` (no replica stands for a later term), `Capacity` (messages of others in flight to one
replica), `MaxCopies` (identical messages in flight), `MaxBatch` (messages of others handled in one
tick); each command is submitted once and each reader calls once. `Prompt = TRUE` delivers all that
is in flight at each tick, as the channels of `node_test.cpp` do, and messages are then lost only
when `Capacity` is full or the two replicas are not `Linked`; `Prompt = FALSE` lets a tick take any
few of them, the others arriving later, in any order, with regard to what is sent meanwhile. `MaxRestarts` bounds
the deaths of processes. Bounds of hw1: `Connection` (connections at a time), `Capacity` (messages in a
socket, each way), `MaxCrashes`. Deadlock is checked in every run but `integral`, where the leader
may have ended, and where behaviours stop as they leave the part that is looked at: `restarts`, `early_commit`, `garbage.cfg`
(`OneLeaderSpec`: nobody but n1 is elected) and `stale_answer.cfg`.

| run | setting | checked |
|---|---|---|
| `elections` | 3 replicas, every timer may expire at any time, 2 terms, delay and loss, no commands | `TypeOK`, `VotesBacked`, `LeaderBacked`, `RivalLeaders`, `VoteKept` |
| `network` | 3 replicas, two of them stand in turn, 2 terms, n1 deaf to n2, a command at each, delay, reordering, loss | `LogMatching`, `VotersNotAhead`, `NoConflictWithinTerm`, `LeaderAppendOnly`, `OnePromise`, `RedirectedNotLogged` |
| `stable` | only n1 ever stands; 2 commands, 2 reads on any replicas | `StateMachineSafety`, `CommittedStays`, `CommitNotAhead`, `PersistedOnQuorum`, `MatchIndexTrue`, `ReadsAgree`, `ImplementsLog` |
| `stable_live` | the same with fairness, 1 command | `EveryCallAnswered`, `LaggardsCatchUp` |
| `restarts` | `ConsensusWorker`, everybody may stand and new processes do; either follower may die, once; behaviours end before another than n1 is elected; `leader_commit` right, zero or beyond every log; 2 commands | `StateMachineSafety`, `OnePromise`, `ImplementsRestartingLog` |
| `service` | `KeyValueStore`: 2 workers, a write at each to the same key, a read at the one that may restart once and be told to stop; fairness | `StoreTypeOK`, `StorageIsApplied`, `SessionReads`, `ActualizeEnds`, `StopEnds` |
| `integral` | `IntegralLeader`: 2 workers that may die by themselves twice in all, a query of 2 slices, 3 connections, 2 messages in a socket; fairness | `IntegralTypeOK`, `SlicesAccounted`, `CountedOnce`, `QueryEnds` |
| `two_leaders` | every timer may expire, 1 term | `NoConflictWithinTerm`: violated |
| `lost_commit` | leaders in turn, n1 does not hear n2, 4 terms | `CommittedStays`: violated |
| `false_ack` | leaders in turn, n1 and n3 cut off from each other, 3 terms, a command at each leader | `PersistedOnQuorum`: violated |
| `laggard` | 3 replicas, one of them down, fairness, repeated messages | `LaggardsCatchUp`: violated |
| `early_commit` | `ConsensusWorker`, the same, no restarts, `leader_commit` right or garbage, 1 command | `CommitNotAhead`: violated |

Three configurations are kept beside these runs, to be started by hand:

| configuration | setting | shows |
|---|---|---|
| `garbage.cfg` | `ConsensusWorker`, nobody but n1 elected, no deaths; `leader_commit` right or beyond every log; 1 command, 2 reads on any replicas | `StateMachineSafety`, `ReadsAgree` hold |
| `stale_answer.cfg` | `MCStaleAnswer`: leaders in turn, 6 terms, 4 commands, along the way to one reordering | `LeaderCompleteness`: violated |
| `lost_memory.cfg` | `ConsensusWorker`, everybody may stand, 1 term, n1 and n3 cut off from each other; n2 may die once | `StateMachineSafety`: violated; it holds with `MaxRestarts = 0` |

Why the bounds are enough: three replicas are the least with a majority that is not everybody, and the
least where a minority can be left behind. Two terms let a late vote, a late request and a deposed leader
meet a newer term; three let a leader be deposed and lead again with its old promises; four are needed
for an item of an old term to be committed by counting and lost; six for a leader to be deposed with its request in
flight, to lead again with another log when the answer comes, and to be followed by a leader that shows the loss. (That is
too far for a search of all behaviours, so `stale_answer.cfg` keeps to those in which the logs go through given stages. Each is a
behaviour of `ConsensusNode`, which is all that a violation needs.) Two commands put
different items at one index, and two items in one request. One message in flight
per receiver in `elections` and `network` still lets a message be handled terms after it was sent,
since it may wait while own messages go on. In `service`, three calls at two workers are the least in which
two handlers of one worker meet at its lock with different things to apply, and a third party
changes the order between them; one restart lets the storage be rebuilt while the calls of others go on. In
`integral`, two workers with two slices are the least in which a lost worker's task goes to another
that is busy, or to nobody; two deaths let both be gone at once and come back; a capacity of 2 lets a task be in flight
twice and two results be read as one. (`max_workers` is not what limits the joining workers
in this instance; three workers with one death were tried as well and behave alike.)

Symmetry is used where no constant of a run tells its values apart and no property is about liveness: all replicas in
`elections`, the two followers, the two commands and the two readers in `stable`, the followers and readers in `garbage.cfg`,
the followers in `restarts`.

The regimes are not a convenience. The code keeps its promises only in some of them, and the
runs show where the limits are:

- **Every timer may expire** (`Anyone`): votes are given and counted properly, but the reset of the vote in `BecomeLeader` makes
  room for two leaders of a term (`RivalLeaders` says that it is the only thing that does, `two_leaders` that it does),
  so nothing about logs holds.
- **No two replicas stand for the same term** (`InTurn`; `Staggered` in the proofs): elections of a term are
  not contested; matching logs, append-only leaders, and voters whose logs are not ahead of their candidate's. But what is committed may be lost,
  by counting items of older terms (`lost_commit`) or answers to older requests (`stale_answer.cfg`), and a lost command may be
  reported persisted (`false_ack`).
- **One replica leads** (`OnlyN1` in the runs; in the proofs nobody else is elected, whoever stands: `OnlyLeads(s)`):
  everything about commits, answers and reads holds, and the replicas implement
  `ReplicatedLog`. What `service` shows of the key-value store is shown for this regime.
- **Undisturbed** (hw1): the leader's books are right until a descriptor number is used again too early or two
  messages are read as one. After that slices may be lost or counted twice: `integral` goes on
  past that point, and its properties say nothing about it.

### Fairness

`FairSpec` of `ConsensusNode` is used by `stable_live` and `laggard`.

- `SF(BeginTick(n))`: each process calls `Tick` in a loop of its own, whatever the others do. Since the model
  lets one tick follow the other, `BeginTick(n)` is disabled now and then, and strong fairness
  stands for that thread going on.
- `WF(Receive(n))`, `WF(EndTick(n))`: a tick that has begun comes to its end; nothing in it waits.
- `SF(EndExpiredTick(n))`: a timer that is not reset expires after at most 15 seconds, so a tick
  at whose end it has expired comes if ticks without a reset come again and again.

Nothing is assumed about delivery except by `Prompt`: what is in flight reaches the next tick of its receiver.

`FairStoreSpec` of `KeyValueStore` (run `service`):

- `WF(Step(x))`: the thread of a handler that can go on does. Weak fairness is enough although the lock is taken and released:
  the holder lets go after finitely many steps, and each call takes it twice.
- `WF(Served(n))`: the tick thread ticks while somebody waits for an answer of `GetPersistentCommands`.
- `WF(stage[n] # "up" /\ Stop(n))`: the main thread goes on with a stop that has begun. Nobody has to type `stop`.

That a `Write` is answered is not assumed and not claimed here: it hangs on a leader, which a worker that is cut off does
not have (`StopEnds` names that exception; `Shutdown` then waits for the handler and the handler for ever).

`LeaderSpec` of `IntegralLeader` (run `integral`):

- `WF(Round \/ Refused \/ Look)`: `Run` calls `RunOverWorkers` in a loop, and `poll` has a timeout of 0.
- `WF(OfWorker(w))`: the worker's thread goes on when there is something to read or a connection has ended.
- `WF(Discover(w))`: the leader sends a discovery message again and again; a worker that stays up
  answers one of them that arrives.

Nothing is assumed about `Boot` and `Crash`: `QueryEnds` takes a worker that stays up as its premise.

### What the violations say

- `two_leaders`: `BecomeLeader` resets `voted_for` (`node.cpp:508`), and a vote request of the same term is
  then granted by the leader. A second leader of that term appends its own items, and its requests
  conflict with items of the same term, the case `node.cpp:153-156` calls unexpected.
- `lost_commit`: `CommitIfPossible` (394-403) commits by counting whatever the item's term. A
  leader of a term in between, which never saw the item, cuts it off again. `node_test.cpp:371` expects
  a persisted command to survive changes of leaders.
- `false_ack`: `BecomeFollower` keeps `items_to_response_`. A leader that is deposed, loses an item, and leads
  again answers the promise of the lost command when another item is committed at its index.
- `laggard`: each rejection decrements `next_index` (256), also those that answer requests
  sent before the last one; from zero it wraps around and the receiver rejects everything for as long as that leader leads.
- `early_commit`: with `leader_commit` left uninitialised on receipt, a follower commits all it has been sent, ahead
  of its leader, against the comment at `node.cpp:167-168`. Line 171 may then also take the commit index back, to the end of a short request.
- `stale_answer.cfg`: an answer to `AppendEntries` is matched neither with its request nor with its term (260). n1 sends two items to
  n3 in term 3; when n3's answer comes, n1 leads term 5 and has other items there, n2's of term 4 and one of its own. The
  answer raises `match_index`, the item of term 5, which only n1 has, is committed and answered as persisted, and n2, elected to
  term 6 by n3, never had it. `lost_commit` needs an item of an older term; this is the case that Raft's restriction to items of
  the own term would not cure.

- `lost_memory.cfg`: n1 is elected to term 1 with n2's vote. n2's process dies, starts again without its vote, and votes in term 1
  once more, for n3, which stood for that term at its own first tick. Both lead. n2 takes n1's command and n1 commits it, counting
  n2; n2 learns of that, then takes n3's command of the same term in its place, below its commit index. n1 has neither died nor
  been deposed: a restart is enough for a working leader to be contradicted.

What `restarts` and `garbage.cfg` check is what is left when nothing is stored and `leader_commit` is lost: as long as nobody is
elected but a replica that stays up, logs are copies of its log, so commits agree even if they come early or have to be made
again. The premise is about what happens, not about timers: a restarted follower stands at its first tick unless a request is there before,
and may collect a vote. (It may also depose the leader by standing again; `restarts` has one term only, the theorems have any
number.) It is the code that does not see to the premise
(`lost_memory.cfg`). A command reported
persisted need not be held by a majority any more (`PersistedOnQuorum`, `MatchIndexTrue` do not hold there, and
the runs do not list them; `ReplicatedLog` promises that the order keeps it, not that a majority does).

## The proofs

All proofs hold for every number of replicas, workers, calls and commands and every value of the bounds. The proofs
about `ConsensusNode` use its named assumptions only: `BoundsAssumption`, `ReplicaAssumption` (finitely many
replicas, at least one), `CommandAssumption` (finitely many commands, `Garbage` not one),
`AnswerAssumption` (the name of a replica is not one of the words an answer may be, so that being redirected can be told
from the rest), `HugeAssumption` (`Huge` exceeds every log), `QueryAssumption`; those about `KeyValueStore` use its
`CallAssumption`; those about `IntegralLeader` use `WorkerAssumption` and `LeaderAssumption` (workers, queries, slices, connections and
slots are finitely many numbers, none of them 0; queries and slots are numbered from 1). TLC evaluates them in every run.

The theorems come in the regimes of the runs. That elections are not contested is a hypothesis about the constant `Standing`; that
nobody but `s` is elected is one about the behaviour (`[]OnlyLeads(s)`), which leaves it open who stands and how often. It holds of
the runs that let only n1 stand (`SoleStanderLeads`), and `OneLeaderSpec` states it for the others.

| theorem | states | regime |
|---|---|---|
| `TypeCorrect` | `TypeOK` | any timer may expire |
| `VotesBackedHolds`, `LeaderBackedHolds`, `VoteKeptHolds`, `RivalLeadersHolds` | `VotesBacked`, `LeaderBacked`, `VoteKept`, `RivalLeaders` | any timer may expire |
| `OnePromiseHolds`, `RedirectedNotLoggedHolds` | `OnePromise`, `RedirectedNotLogged` | any timer may expire |
| `LogMatchingHolds`, `LeaderAppendOnlyHolds`, `NoConflictWithinTermHolds`, `VotersNotAheadHolds` | `LogMatching`, `LeaderAppendOnly`, `NoConflictWithinTerm`, `VotersNotAhead` | `Staggered`: no two replicas stand for one term |
| `StateMachineSafetyHolds`, `CommittedStaysHolds`, `CommitNotAheadHolds`, `MatchIndexTrueHolds`, `PersistedOnQuorumHolds`, `ReadsAgreeHolds` | the properties of `stable` | `[]OnlyLeads(s)`: nobody but s is elected |
| `ImplementsLogHolds` | `ImplementsLog`, the refinement | the same |
| `SoleStanderLeads` | `[]OnlyLeads(s)` | only s may stand |
| `WorkerTypeCorrect`, `OnePromiseAcrossRestarts`, `RedirectedNotLoggedAcrossRestarts` | `TypeOK`, `OnePromise`, `RedirectedNotLogged` | processes: any timer may expire, any process may die, `leader_commit` may be anything |
| `SafetyAcrossRestarts`, `ReadsAgreeAcrossRestarts` | `StateMachineSafety`, `ReadsAgree` | processes: `[]OnlyLeads(s)`, any process but that of s may die, `leader_commit` may be anything |
| `ImplementsRestartingLogHolds` | `ImplementsRestartingLog`, the refinement | the same |
| `StoreTypeCorrect`, `StorageApplied`, `SessionReadsHold` | the invariants of `service` | the replicated log, any restarts |
| `IntegralTypeHolds` | `IntegralTypeOK` | any deaths, numbers closed twice, messages run together |
| `SlicesAccountedHolds`, `CountedOnceHolds` | `SlicesAccounted`, `CountedOnce`, which say *until disturbed* themselves | any deaths and restarts |

The hypotheses cannot be dropped: `two_leaders` violates `NoConflictWithinTerm` without `Staggered`, `lost_commit` and
`false_ack` violate `CommittedStays` and `PersistedOnQuorum` with `Staggered` alone, `early_commit` violates `CommitNotAhead`
when `leader_commit` may be anything, and `lost_memory.cfg` violates `StateMachineSafety` when a restarted voter elects another replica.

**Any timer may expire.** `TypeOK` is inductive; one lemma per action. It says more than
it looks: the bags of messages stay bags, no term exceeds `MaxTerm`, the wrapped indices stay numbers.

`VotesBacked` and `LeaderBacked` are inductive together with `InboxInv`, which says that what a tick has taken is addressed to its
replica. A voter answers once in a term since its vote is taken or its term has passed; the vote that a leader forgets is
why "or leads" is in `VotesBacked`. A candidate's majority of votes is then a majority that has reached its term (`LeaderBacked`), and
terms do not fall.

`RivalLeaders` needs a memory of votes that are long counted: `Ballots(W)` says of a set `W` of votes ever given that each leader has a
majority in it for its term, that nobody but a leader gave two votes in a term, and that whoever has no vote in its term gave none.
It is carried in the invariant as *there is* such a `W`. Two leaders of a term have majorities that share a voter
(`QuorumsMeet`). It voted twice, so it is a leader that had voted for itself (`OwnVote`), and its other vote is the one the property names.

`OnePromise` is restated without counting: `Holds(n, i, c)` says that `n` has the promise of `c` in its queue (`i = 0`) or
under the index `i`. Its invariant `PromiseInv` is that a promise is held exactly while its caller waits, in one place, and once in a
queue. The delicate step is the end of a leader's tick, which moves the queue under new indices and overwrites, and so
breaks, promises that a former term left at those indices: those are `Owed`, and answered `broken` in the same
step. `RedirectedNotLogged` needs `LoggedInv`: a command in any log or request in flight is in no queue and was not
redirected. Only `EndLeaderTick` brings a command into a log, and it takes it from the queue.

**No two replicas stand for one term.**

Log matching is not inductive: a request in flight may carry items its sender no longer has, or never had
together with what the receiver has now. The inductive invariant `IInv` (`ConsensusNodeLogProofs`)
adds a history without a history variable: *there is* a set `S` of logs that
contains every replica's log and, for every request in flight that has items, the log they were cut from
(`MessageInv`), such that any two logs of `S` match and each item of each log in `S` has
an owner, the one replica that stands for its term, which has reached that term and, while it is in it, leads
it with a log that begins with that log up to the item (`OwnerInv`). A step keeps `S`, except that a leader that appends
commands adds its new log. The two facts on which it turns are
`SpliceGivesSource` (a receiver that has the request's previous item ends up with its own log or with the
request's source, both in `S`) and `AppendStep` (a leader's new items are of its own term, which
no other log has beyond what it has itself). The leader's own requests come back to it:
`ContainsSource` says they change nothing.

`LeaderAppendOnly` is an action property:
the one step that could cut a leader's log is the handling of its own request (`ContainsSource`).
`NoConflictWithinTerm`: the log a request was cut from and the receiver's log are both in `S`, so where they share a term
they agree.

`VotersNotAhead` takes an invariant of its own, `VoterInv`, on top of `IInv`. A vote was for a log at least as up to date as the
voter's, and must stay one while voter and candidate go on in that term. Neither log then changes: a replica accepts requests of
its own term only, and a request of a term comes from the one replica that stands for it, which leads while it is in it
(`SourceInv`), so it is no candidate any more. What the voter compares with is the end of the candidate's log (`RequestsName`), and
a candidate that stands anew has no vote for the new term yet (`VotesReached`). `KeepsLogs` and `NewVoting` say what a step
has to do for that, `VoterStep` that it is enough, and there is one lemma per action.

**One replica leads.** The hypothesis is that nobody but `s` is ever elected: `[]OnlyLeads(s)` beside `Spec`. Others may stand, collect votes
and depose `s`, which may be elected again; invariants are carried over a step with `OnlyLeads(s)'` in hand. Then there is one
log of which every other is a beginning, whatever is lost, late or repeated:

- `OneLogInv`: nobody else leads; each log is where the log of `s` begins (`PrefixInv`); the items of each
  request in flight are in the log of `s` at their places (`RequestInv`, `Fits`); no command is in that log twice (`Distinct`).
  So a request never cuts anything off: `FittingItems` says that a log that accepts it grows towards the log of `s`. `Distinct`
  bounds the log by the number of commands, which is what keeps a wrapped index, `Huge`, beyond it.
- `BaseInv`: that, the types, the queues and promises (`CommandInv`), and, of commits, no more than that what a replica has
  committed is in its own log (`OwnCommits`). It is stated apart because it outlives restarts and a lost `leader_commit`.
- `CommitInv`: `leader_commit` in a request is not ahead of the leader or of what the receiver will have accepted; `matchIndex` and the match
  in a response are not more than the log of the replica it is about; commit indices lie within logs; and a majority holds
  all that `s` has committed. Responses are not matched with requests: it is because logs only grow that an old one is still true.
- `AnswerInv`: only `s` answers for items, each under the index where its log has that command; a command reported persisted
  is below its commit index.
- `ReadInv`: what a read returned is a piece of the log of `s`, from where it asked. An index past the vector (`Garbage`) is
  never read, as commit indices lie within logs.

`BaseNext` shows `BaseInv` inductive and at the same time what a step does to logs and commit indices (`Kept`, with `Grows`), on which
the others rest; `CommitInv` is carried along for as long as it holds. The theorems follow one by one. For `ImplementsLog`,
`LongestLog` is first shown to be the log of `s`
(`Longest`), which frees the proof of the `CHOOSE` in its definition; then there is one lemma per action. A tick that commits
answers exactly commands of the order that still wait; an append orders commands that wait and are in no log
(`LoggedInv`), each once (`QueueInv`), no more than wait (`Log!Next` bounds the piece by their number); a
follower that hands clients on to its leader hands on commands in nobody's log; every other step changes nothing the log shows.
A step's lemma gives the step of the log where commit indices grow, and `Mishear` where a request took one elsewhere, so that the
same lemmas serve for processes.

`SoleStanderLeads` takes the hypothesis back to the constants: if only `s` may stand, whoever leads stood for its term
(`StanderInv`, from the regime before), so nobody else is elected.

**Processes that die.** `ConsensusWorkerProofs` asks of each invariant above whether it survives the two actions that `ConsensusWorker`
adds. The types and `CommandInv` do, in every regime: a restart forgets just the promises it breaks. As long as nobody is
elected but an `s` that does not die, so do `OneLogInv` and `ReadInv`, as an empty log begins every log, and a request keeps its items
when its `leader_commit` is replaced. `ReplicaStep` is among the steps of `ConsensusNode`, so what those do is known. `CommitInv` is lost: a majority
that held what is committed may be gone. What is left of it is `OwnCommits`, which is what `StateMachineSafety` and
reads need; it asks nothing of `leader_commit`, since the handler takes the minimum with what the request brings. Only the requests
that `s` sends to itself must be right (`SenderInv`), and they do not pass through the service: the commit index of `s` never falls.
Another's may, or be too high, but lies within its log, which is a beginning of that of `s`; so what the step does to the
abstract log is a `Mishear`, or a step of the log with restarts.

The service:

- **`StoreTypeCorrect`**: `StoreSpec => []StoreTypeOK`, from `TypeInv`, which adds what types alone do not give: commit indices lie
  within the order, and a command reported persisted has a place in it.
- **`StorageApplied`**: `StoreSpec => []StorageIsApplied`.

`StorageIsApplied` is not inductive: an iteration of the loop applies whatever the handler was given, and nothing in the
property says that this is the next command of the order. The inductive invariant `StoreInv` adds `Handlers`: a handler between `Ask` and
`Unlock` holds the lock of its worker, so it is the only one (`OneAsks`); it asked from `last_persisted_id_ + 1` less
what it has applied since; and what it was given is the order from there on, all of it persistent. An append to the
order disturbs none of that (`AppliedKept`), and `Apply` extends the map by just the next
command (`HoldsExtend`, `ApplyStores`). So the argument rests on the lock being held from the question to the last command
applied, whatever other threads, ticks and restarts do.

- **`SessionReadsHold`**: `StoreSpec => []SessionReads`.

It needs more than the storage: what a worker's node knew to be persistent when a Read was called must have been applied by the time
it looks its key up, and what clients have seen there must be among it. `SessionInv` follows both on the way: no command is ordered
twice (`Distinct`, so "the place of a command" means something); a `Write` is told `persisted` by a worker whose commit index
covers it (`PersistedKnown`); what a worker has shown is below its commit
index, unless it has restarted (`SeenKnown`); and for a handler, what was known to be persistent at its call is below the
commit index when it asks, within the answer when it is answered, and below `last_persisted_id_` when it looks the key up
(`FloorOK`). A
restart breaks the handlers of its worker, so it cannot come between.
`GetHolds` then turns the storage into the map of the commands as they were written, since a key and a value of one word each survive the
conversion to a string and back (`RoundTrip`).

hw1 (`IntegralLeaderProofs`):

- **`IntegralTypeHolds`**: `LeaderSpec => []IntegralTypeOK`, from `TypeInv`, which adds `SlotInv`: known workers have slots of
  their own, no other slot is in use, and each open descriptor's number is in a slot. That holds even when numbers are closed
  twice. It is what makes a round well defined: there are no fewer free numbers than free slots (`NumbersFit`), so
  each new worker gets a slot, a number and a connection of its own (`ConnectionsFacts`).
- **`SlicesAccountedHolds`**, **`CountedOnceHolds`**: from `IInv`, which adds `BooksInv` as long as nothing is reused or garbled.

The code erases the *first* of a worker's tasks when a result counts, whichever task the result is for. That this is the right
one is the heart of the proof: `FirstInv` says that on the open connection to a known worker no task or result is about a slice in
progress but the first of that worker's list. It holds although tasks are sent again and again, because a task
is sent only from the head of the list, and the head changes only when its slice is no longer in progress. `OwnConnection` says
that the connection is this worker's alone, from `NumbersInv` (no two slots have the same number), which is
just what a reused number breaks; that a result comes back as it was sent (`MessagesInv`) is what garbling breaks. `ListsInv`
restates `SlicesAccounted` without counting: what is in progress is in one place of one known worker's list, nothing else in any.
A round keeps it: what is handed out is the lists of the workers that are gone and what waits (`NewOnce`: each task once), and
each goes to one place (`HandedLists`) whoever has the least. `WaitInv` is needed for the swap of the two sets of a query: when something
waits, nothing is in progress, so the swap loses nothing. `SumsInv` is `CountedOnce`; a slice is added in the step that takes it
out of progress.

That lists are short enough for `Assigned` to count in (no longer than there are tasks) follows from the lists having no
task twice (`ListLengths`). The order in which tasks are handed out is defined by counting (`Listed`, `Ascending`,
`Placements`), not by recursion, so that it can be reasoned about.

Only model-checked: the liveness properties `EveryCallAnswered`, `LaggardsCatchUp`, `ActualizeEnds`, `StopEnds` and `QueryEnds`
(liveness and `ENABLED` are beyond the prover).

What a recursive definition computes for every input cannot be proved (induction over data is out of reach), and none of the
modules is recursive.

## Not modelled

- The evaluation of an integral: floating point, and the printing of slices with six digits.
- `Stop` of the leader and the workers of hw1: `leader_launch.cpp` never reaches the leader's, and a worker's waits for a thread
  that looks at nothing but its sockets. The times of heartbeats: nothing reads them. The console loops of the `*_launch` programs.
- Logging, command-line flags and system calls: no property depends on them.
- The length of real time: only the order of timer expiry and ticks is kept.
- `tasks_` of the message sender, which grows with each message: nothing depends on it.

## Plan

Done: the replicas, the processes they run in, the abstract log and its refinement, the service, hw1; the safety of each
proved in its regime. What could come next:

1. *Repairs.* Variants of `BecomeLeader`, `CommitIfPossible` and `HandleAppendEntriesResponse` (keep the vote, count items of
   the own term only, match an answer with its term), for which `LeaderCompleteness` should hold and could be proved from `VotersNotAhead`.
2. *The service over several leaders*, once there is such a log to run on.
