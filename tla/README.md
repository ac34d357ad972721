# MoonMesh in TLA+

MoonMesh is a block DAG node written in C++: every node keeps a chain of blocks
in RocksDB, several blocks may share a height, a block is built by one node,
signed by a few others, broadcast, and pulled by the nodes that missed it.
This directory models the parts of the node where threads, timers and peers
meet, checks them with TLC and proves the central facts with TLAPS.

The prebuilt libraries `libca_core.a` and `libtx_core.a` hold `handleBlock`,
the verification of blocks and transactions and `ca_algorithm::SaveBlock`; no
source of theirs is in the repository. Whatever a module needs of them is
taken from how the code under `src/` calls them and is marked external in
`PROJECT.json`.

## 1. Inventory

Each row: what the component keeps, what changes it, and what makes it right.

| Component | State | Operations | Correct when |
|---|---|---|---|
| Request/response rendezvous, `common/global_data.cpp` | `_globalData`: id -> object with expected peers, answers, condition variable | `CreateWait`, `AddResNode`, `waitDataToAdd` (network threads), `WaitData` | the waiter wakes at the quorum; each asked peer counts once; no entry stays |
| Block flow, `ca/block_stroage.cpp` | `_blockCnt`, `blockStatusMap` | `AddBlock`, `UpdateBlock`, `AddBlockStatus` (2), `_BlockCheck` and `checkExpiredDelete` (100 ms timer), `newBuildBlockByBlockStatus` (task pool) | a hash is broadcast once, rebuilt once per phase, on a real quorum, and not both broadcast and rebuilt without cause |
| Lookup of predecessors, `ca/block_stroage.cpp` | `preHashMap`: height -> future | `commitLookupTask`, `ForceCommitSeekJob`, `GetPrehash`, `seekPreHashThread` | a usable hash is delivered for the height asked; a failed one is not final |
| Block pool, `ca/block_helper.cpp` | eight queues, `_duplicateChecker`, `processing_` under `helperMutex` | `AddBroadcastBlock`, `AddSyncBlock`, ..., `Process` (timer), `SaveBlock`, `RollbackBlock` | each block that arrives is tried; a pending block is tried after its predecessor; the recursion ends |
| Contract blocks and missing-block search, `ca/block_helper.cpp` | `contractBlocks`, `_missingBlocks`, `contractPreHashStatus` | `add_contract_block`, `SeekBlockThread`, the request functions | a waiting block is released when its predecessor is saved; the search takes what a majority returns |
| Synchronisation, `ca/sync_block.cpp` | sync mode, from-zero cache, nodes chosen | fast, new and from-zero rounds, the answers' vote arithmetic | blocks of the honest majority are fetched, and only blocks a majority lacks are rolled back |
| Check of the stored chain, `ca/check_blocks.cpp` | temporary top, per-hundred hash sums | timer, comparison with peers | a difference confirmed by a Byzantine quorum triggers a synchronisation |
| Packing, `ca/transaction_cache.cpp` | `_transactionCache`, `_contractCache`, `contractInfoCache`, the executions under way | `AddCache`, `processTransactionCacheFunc`, `handleContractPackagerMessage`, `ContractTransaction`, `executeContracts`, `ProcessContract` | a transaction accepted is packed or dropped in the end; a contract block rests on its own transactions; the packager's mutex is freed |
| Contract dispatch, `ca/dispatchtx.cpp`, `ca/contract_transaction_cache.cpp` | `contract_dep_cache_`, `contract_msg_cache_`, `dependency_tx_hashes_`, `_cachedTransactions` | submission, the 1 s timer of held requests, the request handler, dependency broadcasts, `ProcessingFunc` (1 s), `ClearDependency` | a request is sent once, held until then, grouped with all it shares an address with, and in one flush |
| Packager's side of the dispatch, `ca/packager_dispatch.cpp` | groups of contract messages | grouping, sending | contracts that share state are executed by one packager |
| Other retry caches, `ca/failed_transaction_cache.cpp`, `ca/double_spend_cache.cpp` | transactions by height, by address | timers that resend or expire | every cached transaction is resent once its height is reached, or expires |
| Packagers and signers, `ca/vrf_consensus.cpp` | VRF records of a 10 s cycle | exchange and selection | nodes that saw the same records choose the same packagers |
| Resending, `ca/resend_reconnect_node.cpp` | messages per node | resend on reconnection | a message is resent only while its flow is open |
| Bonus address cache, `ca/bonus_addr_cache.cpp` | amount per address with a dirty flag | `getAmount`, `isDirty` | a clean entry equals the database |
| Sockets and queues, `net/socket_buf.cpp`, `net/work_thread.cpp`, `net/epoll_mode.cpp`, `net/msg_queue.h` | `_sendCache` and `_cache` per connection, the epoll set, bounded queues | `SendOneMessage`, `handle_net_write`, `EpollLoop`, `handle_net_read`, `add_data_to_read_buffer`, push and pop, `delete_by_fd` | packets leave and come out whole, once and in order; a full or an empty queue never blocks both ends |
| Peers, `net/peer_node.cpp`, `net/unregister_node.cpp`, `net/handle_event.cpp` | node map, stake and consensus lists | registration, heartbeat, list exchange | a node that answers stays; the list agreed on is a majority's |
| Storage, `db/` | RocksDB with merged values | transactions with read-modify-write | a block is stored whole or not at all |
| Validation, EVM, trie, configuration, menus, HTTP and RPC | - | sequential, or input and output | see section 8 |

How they interact. A packager builds a block from `_transactionCache`, asks the
predecessor lookup for `prevhash`, and hands the block to the block flow. The
final block is broadcast; at every node it enters the block pool, as do the
blocks the synchronisation and the missing-block search fetch. Saving a block
changes the top, which the lookup, the packers and the synchronisation read
without a lock of their own. Every exchange with peers (predecessors, missing
blocks, synchronisation, rollback) is a call of the rendezvous. The threads are
the network's protobuf pools (seven of them), the timers (`CTimer`, one thread
each) and the task pool.

What is hard: a timer and the network threads working on one map; a message
that arrives twice, late, or never; a lookup that was true when it was made;
a time-out that races the last answer; a recursion under a non-recursive mutex;
a batch that is cleared after it was only partly processed. `PROJECT.json`
lists each place.

## 2. Modules

| Module | Models | Uses | Theorems |
|---|---|---|---|
| `WaitData` | the rendezvous | - | `WaitDataProofs` |
| `BlockFlow` | the block flow at the builder | - | `BlockFlowProofs` |
| `BlockPool` | the block pool and its conflict check | - | `BlockPoolProofs` |
| `ContractDispatch` | held requests, dispatchers, dependency lists | - | `ContractDispatchProofs` |
| `Packing` | the packing thread and the look-ups of predecessors | - | `PackingProofs` |
| `ContractPacking` | contract batches at the packager: grouping, parallel execution, the block | - | `ContractPackingProofs` |
| `Transport` | one descriptor: buffers, queues, epoll, read and write threads | `Channel` | `TransportProofs`, `ChannelProofs` |
| `Channel` | what a connection promises (abstract) | - | - |

`Transport` implements `Channel` in each direction, by the refinement mappings
`Out` and `In` at its end.

The `MC` modules give the constants of the small
instances. The definitions whose comment begins with "Variant" are the code
with one change a programmer could have made; each property is checked to fail
when one of them takes the place of the real definition.

### WaitData

An action is a critical section. A caller goes `idle`, `asking` (between
`CreateWait` and `WaitData`), `entered` (holds the object, about to test the
size), `blocked`, `copied`, `done`. `GlobalData` objects are named after the
call that made them; `globalData` is the map from ids to them. An id is the
hash of the microsecond clock, so it is the clock's value, and two calls may
read the same one: the second `insert` fails and both calls work on one object.
`acks` is the network: an answer in it may be delivered any
number of times, at any time, or never. `waitDataToAdd` looks the object up
under one mutex and adds the answer under another; `adding` is a thread between
the two, which may be overtaken by the time-out and the erasure. `wait_for` has
no predicate, so `WaitWake` may happen at any time once blocked: a notification,
a time-out and a spurious wake-up are one action.

### BlockFlow

`stage` is how far `handleBlock` is: it calls `AddBlock`, sends the block, and
only then calls `AddBlockStatus` for the verify nodes. `blockCnt` is
`_blockCnt` (the signers of the messages kept, in order, the builder's first);
`status` is `blockStatusMap`. `signed` and `statuses` are what peers have sent;
delivery may repeat (`Duplicated`; `CountStatus` of one message may be taken
again), be delayed or not happen. `age` cuts time at the three limits the code
compares with: 5 s (`CheckData`), 10 s (`_BlockCheck`) and 15 s
(`checkExpiredDelete`). `_BlockCheck` is cut in two (`Compose`,
`AddLevel1Status`) because it takes `_statusMutex`, and so lets statuses in,
only between the broadcast and the switch of the entry; `composing` is its hold
of `_blockMutex`, which the actions that need that mutex wait for. `operator[]`
on a missing key makes an entry (`NewEntry`), with an empty block of time 0 when
the rebuild task makes it (`ghost`). `broadcasts`, `commits` and `rebuilt`
record what has happened, for the properties.

### BlockPool

`phase` is the loop of `Process` in progress (`"failed"` after the first read of a
round failed, which leaves `processing_` set), `work` what the loop has yet to
try, `frames` the stack of `PostSaveProcess` calls under the current
`SaveBlock`. An action of `Process` is one call of `SaveBlock`, which returns
after its whole effect on queues and database; nothing else can enter meanwhile
since `helperMutex` is held, so the split only names the calls. Arrivals need
`mutex = "free"`. `rollback_block_` locks the mutex its own thread holds: the
model then sets `mutex = "stuck"` and nothing more happens, which is what
`std::mutex` of this build does (formally it is undefined). The queues ordered
by `blockTimeAscending` refuse a block with the height and the time of one they
hold (`Insert`). Verification (external) may fail for any block; it succeeds
only with the predecessor and the outputs in the database. The blocks' ages
(15 s, 3 s, 30 s and 60 s limits) are nondeterministic subsets.

### ContractDispatch

A request is a transaction, whatever its hash: a request sent from the cache
gets a new time and so a new hash, and no hash in the cache is ever listed.
`stage` and `at` say how far it is and where. Three kinds of thread meet:

* At the origin, RPC and menu threads submit (`SubmitAtOnce`, `SubmitHeld`) and
  the timer runs `_CheckCachedTransactions`, cut where the clock is read, where
  the shared lock is taken and released, and at each send. `held` is the cache;
  `overdue` holds the requests whose `currentTime - timestamp` will reach
  `FORCE_SEND_TIMEOUT` in this round: the old ones, and those with a timestamp
  later than the clock reading, for which the unsigned difference wraps.
* At a dispatcher, the handler of a request (one network thread each) notes it,
  lists and broadcasts its hash, and stores its message, in three critical
  sections (`Receive`, `Announce`, `Store`). The handler itself is in the
  prebuilt library; its order of calls is read off the binary.
* The dispatcher's timer takes the keys one by one in any order
  (`contract_dep_cache_` is not ordered) under `dep_mutex_`, collects the
  messages with no lock, splits them into batches, seeks a packager for each, and
  wipes both caches. `groups` and `batches` are what this thread has in hand.

`listed` stands for `dependency_tx_hashes_`: a hash is put under all addresses
of its request in one critical section and removed from all in one, so a set of
requests says what the map holds. `mail` is the broadcast; a message may arrive
at any time, or never. `confirmed` and the publication of `TransactionConfirmed`
(external) follow a flush that sent the request. The time between flushes is
left open: `time_value_` is written by two threads without a common lock.

### Packing

Three kinds of thread share `preHashMap`: the packing thread, the end of a
contract batch, and whoever verifies a transaction, which the prebuilt library
does after a look-up for the node's top. `commitLookupTask` is cut between its
shared and its exclusive lock (`IsSeekTask`, `CommitLookupTask`): two threads may
both insert. A look-up is its `shared_future`: its duration and its result are
settled when it begins, so that a thread that has copied the future and the map
agree whatever happens to the entry. `Cuts` is the trimming at more than 100
entries, which reads `end()->first`: from some height on, or nothing, is kept.
Time is in seconds, for the three numbers of the code that meet: the interval
of 3 s, the patience of 6 s of a builder, and the 10 s of the look-up's own
`WaitData`. The packing thread holds `transactionCacheMutex` from its
notification to the end of the round (`MutexFree`), which `AddCache` waits for.
A contract batch takes the height its senders name, at most one ahead of the top
at which it was verified. `fate` and `reread` are history.

### ContractPacking

`stage` is how far the handler of a message is; `_threadMutex` is held from
`locked` to the end (`Holding`). A message has a batch for each block time.
`txTaskPool` is modelled with its threads and its first-in first-out queue,
since handlers and the executions they wait for run on the same one (`Handlers`,
`Executing`, `ThreadFree`); the pools whose tasks wait for nothing have threads
to spare. `Group` is one turn of `GetDependentData`, for any key the hash table
has not given yet (`unseen`); `BeginRuns` is the split by size and the start of
the executions. A run is one call of `executeContracts`, which records a
transaction in `contractInfoCache` at each turn; `Judge` drops the future of a
run whose group had a transaction refused and starts a second, while the first
goes on (`wanted`). In `info`, `rests` names what a transaction was executed on
top of and `late` says that an abandoned run wrote the record: both are for the
properties. `last` is the block until the handler goes on. `RestsOnBlock` and
`OneAfterAnother` name three cases in which they do not hold, each of which the
code can reach: the record of an abandoned run, written over that of the second
(one of the loads makes a transaction lose its predecessor that way); groups that
overlap, so that a transaction stays whose partner left with the other group;
and transactions left in the cache by a batch that ended at a failed read of the
top, which a later batch packs under records of its own.

### Transport and Channel

One descriptor, and the connections that use its number after each other: the
number goes into the queues, into the table of mutexes and into `close`, while
the buffers are found by address and port, the key. A cell is the least that a
`read` or `write` may take; a pack is a few cells, and the stream is cut between
cells only. `put` and `taken` are the socket, `registered` and
`ready` the epoll set with its edge-triggered ready list, `events` what
the epoll thread has in hand. `SendOneMessage` and `PushWrite` are the two steps of a
sender: between them a write thread may take the bytes, or the buffer may go.
`ParseGarbage` stands for what happens when the bytes where a length should be
are not one: the loop is left with whatever `CorrectCache` left. The push on
`queue_work` never blocks here and the list of telephones that a full write may
flush (`Phone_List`) is left out. The last connection of an instance is not closed from outside, so
that there is something to deliver to.

`Channel` says that what is handed over at one end comes out whole, once and in
order until the connection is cut. `Out` maps the packs added to the send buffer
and those whose end the peer has read (`received`); `In` those that have reached
the socket and those pushed on `queue_work` (`delivered`, kept for each buffer by
the connection the pack came in on, since a buffer may get another's bytes).
Both are history variables: no step depends on them.

## 3. Runs

| Run | Instance | Shows |
|---|---|---|
| `WaitData.cfg` | 2 calls over 3 peers, quorum 2 of 3 and 0 of 1, ids distinct or equal | no lost wake-up, distinct answers, a bound on the answers when an object is shared, every entry erased |
| `BlockFlow.cfg` | 2 verify nodes, 3 first-level nodes of which one is a verify node, 2 transactions, `kConsensus` 2 | a block is broadcast and rebuilt only when the first-level quorum or all verify nodes rejected it, once per phase; each dropped transaction rejected by a quorum; types |
| `BlockFlowLive.cfg` | both blocks pass `handleBlock`, a contract transaction, duplicated messages | one broadcast per hash; both maps are emptied |
| `BlockPool.cfg` | two blocks of a chain and a rival, several origins, failing reads, a rollback the peers may confirm | pending blocks tried and released, recursion climbs, blocks leave the broadcast queue tried, beaten or with the whole round; the queue is polled unless the pool has stopped |
| `BlockPoolRollback.cfg` | a rollback that is confirmed | finding 1 of section 7 |
| `ContractDispatch.cfg` | three requests on a path of two addresses, one origin, one dispatcher | held until sent, grouped with what shares an address, released in the end |
| `ContractDispatchFaults.cfg` | two origins that both dispatch, failing sends, missing packagers, one part | sent once, flushed once |
| `ContractDispatchStored.cfg` | two requests | finding 2 |
| `Packing.cfg` | two jobs, each a transaction or a contract batch, two heights, a map trimmed at the second look-up, one look-up that fails at once or after 10 s, a top that moves | a builder finds a look-up, a bad one is read once, a cached transaction is packed or dropped with its block in the end |
| `PackingSlow.cfg` | one transaction, look-ups that succeed after 10 s | finding 3 |
| `ContractPacking.cfg` | a pool of three threads and batches on a path of three; of two and a path of four; of two with two messages and the node's own of two block times | a block rests on its own transactions, those that share a contract follow each other, nothing is left out without a named cause, the mutex is freed unless its handlers keep all threads |
| `Transport.cfg` | 2 write and 2 read threads, queues of one entry, five loads of one or two connections | bytes in order and once, packs out once, `Channel` implemented in both directions, packs pass until the connection is lost |

`CHECK_DEADLOCK FALSE` is in each: a bounded instance comes to rest when its
calls are answered and its blocks have expired, and the pool's thread may block
itself.

## 4. Bounds

The code's counts are constants of the modules; the instances keep their
relations and lower the numbers. `BlockFlow` in the build has `kConsensus` 3,
five verify nodes and a verify quorum of five: the instances keep "the quorum is
all verify nodes" (2 of 2). In `BlockFlow.cfg` the final block has fewer
signatures than there are verify nodes, as in the build: `kConsensus` 2 asks for
one beside the builder's (`BlockFlowLive.cfg` asks for both, with `kConsensus` 3).
Its three first-level nodes give the truncated quorum 2 of 3, the least count for
which three quarters, rounded down, is neither none nor all; only one of them is
a verify node, so that a verify quorum has one first-level node against the block
and never makes the first-level quorum by itself. Two hashes allow one rebuild,
after which the rebuilt block runs through the flow itself in `BlockFlowLive`.
`MaxSigns` leaves room
for one message more than a final block needs, or for a duplicate. `BlockPool`
has `MaxLag` 1, `PendingLag` 0 and `PendingCap` 2 in place of 50, 20 and 1000.
Its chain reaches height 2: the scope exit drops a pending block there, but no
broadcast block is too old and the cap on pending heights is not met. Both of
these limits are left to the theorems, which hold for every value. Two calls and three peers are
the least with a shared and an unshared peer, a quorum above one, and the quota
0 that `4 * 1 / 5` gives for one peer. The history variables are bounded by what they
record. `ContractDispatch`: a path of three requests is the least in which the
grouping must join keys that share nothing directly, and in which a held request
can wait for two; one unit of age is the 15 s of the forced send, at which
`MaxAge` stops counting. `Parts` is 8 as in the code, and 1 in the run that has
more groups than parts.

`Packing`: `MapLimit` 0 lets the second look-up trim the map, as the 101st does;
`Threshold` 2 lets the second transaction start a round as the millionth would;
two heights are enough for a top that moves under a builder. Good look-ups take
1 s and bad ones 1 or 10 s, on both sides of the patience of 6 s;
`MaxFailures` 1 makes one fail. The seconds themselves are those of the code.
`ContractPacking`: three transactions that share contracts in a path are the
least for which an execution can be abandoned with something left in the group,
four the least that the grouping puts into two groups; two threads and two
messages fill the pool. `Transport`: two cells are the least pack that can be
cut, a socket of two cells is full after one pack, a `read` of two may end in the
middle of a pack and may be full; queues of one entry are full at once. Two
connections suffice for a stale entry, reader or writer to meet a new user of
the number. `Loads` splits the directions over five instances, since all of both
at once is out of TLC's reach.

## 5. Fairness

`WaitData`: a caller inside a call moves on (`wait_for` returns at its time-out
at the latest); nothing about the network. `BlockFlow`: the 100 ms timer fires
and time passes; nothing about peers, network threads or the task pool.
`BlockPool`: the pool's timer calls `Process` again and again and a thread that
is not blocked runs; nothing about arrivals. `ContractDispatch`: the timer of held
requests fires, its thread moves on, and time passes; nothing about dispatchers,
packagers, the network or confirmations. `Packing`: time passes, the packing
thread takes its steps and a builder whose look-up is due reads it; nothing
about verifications, batches or the chain. `ContractPacking` and `Transport`:
`WF(Working)`: something that can be done by a thread is done. Which one is
left open: no thread of an instance has something to do for ever, so that each
gets its turn. Messages, senders, peers that send, and closing are not in `Working`;
that a peer reads what was written to it is.

## 6. Theorems

TLAPS proves, for every value of the constants that satisfies the `ASSUME`s:

* `WaitDataProofs`: `TypeCorrect`; `AnswersAreDistinct` by `DistinctInv`: an id
  leads to an object with that id, a call that shares its id with none before a
  step that leaves it alone was alone before, and the object of such a call
  expects and has counted only peers this call asked, each once; `QuorumWakes`,
  which needs only that the size test and the block are one step, and that the
  last answer wakes whoever is blocked; `AnswersAreBounded` by `BoundedInv`: an
  answer and the expectation of it together are no more than the calls that
  asked the peer under the id, of which finitely many have begun.
* `BlockFlowProofs`: `TypeCorrect`; `BroadcastAtMostOnce` by `OnceInv`: the
  number of broadcasts, the entry of `_blockCnt` and `stage` move together, so an
  entry that is gone never comes back; `RebuiltOncePerPhase` by `CommitInv`:
  a phase's list only grows, a task is committed exactly when its length is the
  quorum, and an entry made anew after it expired takes no more status (its
  node sets are empty or the 5 s are over); `VotedOutByQuorum` by `ListInv`: the
  list of an entry holds one status per node, each of which was sent, and no
  node in it is awaited any more, so that counting list positions is
  counting nodes; `BroadcastThenRebuilt`, under `QuorumOfAll` (no more verify nodes than
  `KReSend_node_threshold`, as in the build), by `SignersInv` (who signed a
  broadcast has not rejected it in the verify phase), `PhaseListInv` (the list
  holds only nodes its phase asks, since the switch of phase empties it) and
  `TaskInv` (a task is committed only for a block that all verify nodes, or a
  quorum of the first-level nodes, have rejected).
* `BlockPoolProofs`: `TypeCorrect`, `WakeUpNotLost` and `RecursionBounded` from
  `IInv == TypeOK /\ PendingTried /\ RecursionClimbs`. None of the three is
  inductive alone: a pending block that is tried and fails must have been tried
  under a saved predecessor, which `RecursionClimbs` gives. The action property
  `BroadcastPolled` follows from `LoopCovers`: from the first block that `Process`
  tries on, what is in the broadcast queue has been tried or is in `work`.
* `ContractDispatchProofs`: `TypeCorrect`, `RequestSentOnce`,
  `RequestFlushedOnce`, `GroupedTogether`, and `RequestHeldUntilSent` under
  `~SendFails`. The invariant `IInv` joins `CheckInv` (what the timer's thread
  holds in each part of its round is still in the cache), `HeldInv` (what is held
  has not been sent, unless it is about to be removed), `NotedInv` (what a
  dispatcher has noted is with it and nobody else), `FlushInv` (what was
  sent to a packager is about to be wiped) and `GroupInv` (each visited key has a
  group with all its neighbours, which later joins only enlarge). `TriedInv`,
  that whatever the thread has tried is sent, is added for the last theorem.

* `TransportProofs`: `TypeCorrect`, for any number of threads, connections and
  sizes; `WrittenInOrder` by `WriteInv`: one write thread at a time is between the copy
  of a send buffer and its removal (`OneHolder`), what it holds is the beginning of
  the buffer still, if that is there (`HolderSound`), and what a connection has been
  given precedes what its holder, or the next one, will write (`WrittenBehind`).
  `OwnInOrder` alone says nothing of the bytes still in hand.
* `ChannelProofs`, on the same terms: `SendingIsChannel` and `ReceivingIsChannel`,
  that the first connection of a descriptor implements `Channel` in each
  direction: the initial states map to initial states, and each step to one of
  `Channel` or to a stutter. For sending, `FirstOut` adds to `WriteInv` that nobody
  else's bytes are in its socket, that the next to write goes on where the socket's
  bytes end, and that the peer has the end of just the packs it has received. For
  receiving, the order of the packs rests on one thread reading at a time, which
  no mutex gives: `Turns` says that the event in hand, the entry of `queueReader`
  and the thread that reads are one token, which `EpollWait` makes when it takes
  the descriptor out of the set and `Rearm` gives back. `FirstIn` then says that
  the packs delivered, the cache and the bytes about to be added follow each other
  in the stream, up to the first byte of a later connection, behind which none of
  the first stands. `NoneTwice`, that no pack comes out twice, holds for all
  connections, also where several threads read at once and bytes land in the wrong
  buffer. `Once` says why: a cell that has been read is in one place at most, and
  the head of a pack that was delivered is in none.
* `PackingProofs`: `TypeCorrect`, `LookupsFound`, `FailuresReplaced` and
  `NothingLost` from one invariant, for any times of the look-ups and any number
  of failures. `LookupInv` carries the look-up from its commit over the
  verification and the fetch; `WholeCache` says that the cache cannot grow while a
  round is under way, since the mutex is held; `ReadersInv` that a look-up whose
  bad result was read is about to be replaced by its reader.

* `ContractPackingProofs`: `TypeCorrect`, `BlockRestsOnItself`, `SharersInOrder` and
  `LossHasCause`, for any transactions, contracts, loads and order of the hash
  table. A block is judged by what the end of a call finds, which depends on all
  that went before; the invariant `IInv` says what that is. `GroupInv`: a visited
  transaction has a group with all that share a contract with it, those that failed
  verification apart. `RunningInv`: a group without a partner is one transaction, the
  others have no failed one left once judged. `WantedInv` with `IdInv`: the
  handler waits for exactly one execution of each group, of this call and of the
  last attempt, which has recorded or has left just that group. `OrderInv`: an
  execution has recorded the lesser part of its group, each transaction on top of
  all before it that share a contract. `RecordInv`: unless the groups overlap, the
  record of a transaction behind a wanted execution is that execution's, or late.
  `CallInv`: the cache holds what this call verified and what was left behind.
  An execution that stopped takes its group out, so that the rest
  of the block is made of whole groups.

Only model-checked: liveness (`EntriesErased`, `FlowReleased`, `StatusReleased`,
`PolledUnlessStopped`, `PendingReleased`, `HeldReleased`, `PackedInTheEnd`,
`LockFreed`, `OutDelivers` and `InDelivers`), which is out of the prover's reach.

## 7. Findings

1. `rollback_block_` (`block_helper.cpp:2079`) locks `helperMutex`, and
   `RollbackBlock` reaches it from `Process`, which holds that mutex: a rollback
   that the peers confirm blocks the pool (`BlockPoolRollback.cfg`).
2. `ClearCaches` wipes what arrived at the dispatcher while the flush ran, unsent
   (`ContractDispatchStored.cfg`).
3. A look-up waits 10 s for four fifths of the nodes it asks and then accepts
   half; `CreateBlock` waits 6 s for the look-up and then replaces it by a new
   one. As long as fewer than four fifths answer, each round meets a look-up too
   young and the packing thread never builds (`PackingSlow.cfg`), while it holds
   the mutex that `AddCache` needs for most of the time.

Of note, without a run:

* Block pool. When `getBlockTop` fails, `Process` returns before the scope exit that
  clears `processing_` exists, and never polls again (`Stopped`). When
  `RollbackBlocks` fails the scope exit clears queues nobody has polled.
  `AddBroadcastBlock` erases the rival before the read that decides about the
  newcomer: when that fails both are lost.
* Block flow. `RebuiltAfterBroadcast` holds only because the verify
  quorum of this build is all the verify nodes. With a smaller quorum a block
  could be broadcast and rebuilt at once. A `BlockStatus` names no phase: what a
  verify node that is a first-level node too sent in the verify phase counts for
  the first level when it arrives after the switch (`CheckData`, 434-446), and the
  property counts it there. A hash repeated within one `BlockStatus` counts
  twice in `newBuildBlockByBlockStatus`; the model's set counts it once.
* Held requests. `_CheckCachedTransactions` removes every request it tried to send,
  those whose send failed among them (`HeldUntilSent` fails with `SendFails`). It
  reads the clock before it takes the lock: a request added in between in a later
  second has the greater time, the unsigned difference wraps and the request is
  forced at once. `FORCE_SEND_TIMEOUT` is 15 where its comment says 30 seconds.
  Two held requests that share an address pass the test in one round, since the
  first is listed only after its dispatcher received it.
* Dispatch. The greedy grouping may leave a request in two groups (where a shares
  an address with c, c with d and d with b, the order a, b, c, d gives
  {a, b, c, d} and {b, d}), and so send it to two packagers in one flush. A dependency
  broadcast that arrives after its transaction was confirmed is never removed.
* Packager. When handlers occupy all 50 threads of the pool, the one with the mutex
  waits for executions queued behind the others: nothing moves again (the second
  part of `LockFreed`). The abandoned execution of a group may record over the second.
  The grouping, the same greedy one, may execute a transaction in two groups, and
  when only one of them fails the block keeps transactions executed on top of ones it
  lost. A
  failed read of the top keeps the caches for the next batch, an empty batch
  keeps the records. Two block times of one message may claim the same
  predecessor. `handleContractPackagerMessage` runs off its end without a
  `return`. `dirtyContractMap` is read without its lock and
  `removeContractInfoCacheRequest` erases under a shared one.
* Packing. A contract batch whose senders are a height ahead of the node commits no
  look-up and is lost with -2; a late look-up loses it with -3, since only the
  packing thread tries again. `preHashMap.end()->first` is, with libstdc++, the
  size of the map, which as a height is rarely in it: the trimming then loses the whole map, and a
  packing thread that was about to fetch its look-up drops its transactions. A block that `handleBlock` refuses
  drops its transactions. A notification while the thread packs is lost, which
  costs an interval.
* Connections. Bytes of a former user of a descriptor may be written to
  the next one, by a thread that copied them before the close (`OwnInOrder` speaks
  of each connection's own bytes), and read into the wrong buffer, where the
  check sum stops them. `delete_by_fd` reads `nodeIt->second` before it tests for
  `end()` (`peer_node.cpp:139`) and holds only by luck when no node has the number;
  `handle_net_read` tests an `errno` that a successful `read` of 0 has not set
  (`work_thread.cpp:149`); `GetPeerPort` passes an uninitialised length
  (`ip_port.cpp:156`).

## 8. Not modelled, and why

Contents of blocks, signatures and hashes stay abstract: validity is a choice,
identity a model value. Contract execution, the trie and the configuration are
sequential computations over data. Menus, HTTP and RPC are input and output.
The data race on `blockStatusMap` (`block_stroage.cpp:93`) is undefined
behaviour of a container: the model gives the accesses their atomic outcomes.
Of the block pool, contract blocks, the missing-block search, `g_syncType` and
the unused `_stopBlocking` are left out; the search appears through the blocks it
delivers. Of the packing, the filter of transactions already built
(`clearBuiltTransactions`), `clearPreHashMap` (`block_stroage.cpp:252`), which
nothing calls, deployments, and spurious wake-ups of the packing thread
are left out. Of the connections, the dispatch of a whole pack to its handler,
compression, encryption and the exchange of keys. Of the contract dispatch, the counter `time_value_`, the overtaking of
`Stop`, and `BroadcastDependencies`, which nothing calls, are left out; the
unlocked read of `contract_msg_cache_` gets its atomic outcomes.

About 118 000 of the 188 000 lines under `src/` are generated protobuf code
(`src/proto/*.pb.*`) and more than 7 000 a vendored HTTP library, none of which
has a behaviour of its own; the share of lines that `map` names stays small for
that reason.

## 9. Plan

Done: the rendezvous, the block flow, the block pool, the contract dispatch, the
packing with its look-ups, the packager's side of the dispatch, and the
connections with their refinement of `Channel`. Every safety property of the passing
runs is a theorem.

Left, in order:

1. The missing-block search and the contract blocks of the block pool, with the
   vote arithmetic of the search checked against a reference count.
2. The synchronisation rounds, with the periodic check that triggers them.
3. The choice of packagers (`VRFConsensusNode`), the agreement on the peer list
   and the registration of peers.
4. The retry caches (`failed_transaction_cache.cpp`, `double_spend_cache.cpp`) and
   the read-modify-write of storage.
5. An abstract specification of "a block is delivered to the pool at most once
   per origin" refined by `BlockFlow` composed with `BlockPool`.
6. Theorems about the modules of 1 to 5.
