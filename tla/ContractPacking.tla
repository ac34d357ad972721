-------------------------- MODULE ContractPacking --------------------------
(***************************************************************************)
(* How a packager makes a block of the contract transactions that          *)
(* dispatchers send it: TransactionCache::handleContractPackagerMessage,   *)
(* ContractTransaction, executeContracts and ProcessContract               *)
(* (ca/transaction_cache.cpp) and packDispatch (ca/packager_dispatch.cpp). *)
(*                                                                         *)
(* A message is handled by a thread of txTaskPool, or by the dispatcher's  *)
(* own timer thread when the dispatcher packs, and one at a time under     *)
(* _threadMutex.  Its transactions are verified by one pool while others   *)
(* execute them, in groups that share contracts: a group on txTaskPool,    *)
(* the very pool of the handler, a transaction without partner on          *)
(* blockTaskPool.  An execution records, for each contract, the            *)
(* transaction it follows.  A group one of whose transactions fails        *)
(* verification is executed again, and its first execution is abandoned    *)
(* but not stopped.                                                        *)
(*                                                                         *)
(* Transactions are numbers, in the order of their hashes.  All of them    *)
(* are calls of EVM contracts (a deployment has no predecessor to check).  *)
(* An execution reads and records one transaction in one step; what it     *)
(* reads it alone writes, but for the stored transaction of a contract.    *)
(* Verification and blockTaskPool have threads to spare: nothing that runs *)
(* there waits for a task of a pool.                                       *)
(***************************************************************************)
EXTENDS Integers, Sequences, FiniteSets, Functions

CONSTANTS
  Txs,
  Contracts,
  Calls,       \* Calls[t]: the contracts in t's contractstoragelist
  Msgs,        \* ContractPackagerMsg, one each of
  Own,         \* the messages this node's own dispatcher hands over
  Loads,       \* TX_THREAD_COUNT (50), and the transactions of each message, in
               \* one set for each block time
  Moving       \* bound: the contracts whose stored transaction may change, once

ASSUME ContractPackingAssumption ==
  /\ Txs \subseteq Nat \ {0}
  /\ Calls \in [Txs -> SUBSET Contracts]
  /\ Own \subseteq Msgs
  /\ Loads \subseteq [threads : Nat \ {0}, todo : [Msgs -> Seq(SUBSET Txs)]]
  /\ Moving \subseteq Contracts

VARIABLES
  load,     \* the instance, which never changes
  stage,    \* how far the handler of each message is
  todo,     \* the batches it has yet to pack
  queue,    \* what txTaskPool has yet to start
  batch,    \* the call of ContractTransaction under way, with what it found
  verdict,  \* the verification of its transactions
  unseen,   \* keys of hash_dep the grouping has yet to visit
  groups,   \* its sets, then dependentContractTxMap_ and non_dependent_contract_tx_map
  runs,     \* the executions that are queued, running or waited for
  cache,    \* _contractCache
  info,     \* contractInfoCache
  latest,   \* the transaction stored last for each contract: 0, later -1
  last      \* what ProcessContract made of its transactions, until the handler goes on

vars == <<load, stage, todo, queue, batch, verdict, unseen, groups, runs, cache, info, latest, last>>
handlerVars == <<stage, todo, batch, unseen, groups>>
cacheVars == <<cache, info>>

NoBatch == [txs |-> {}, old |-> {}, latest |-> [c \in Contracts |-> 0], alone |-> {}, twice |-> FALSE]
NoBlock == [outcome |-> "none", txs |-> {}, info |-> <<>>, batch |-> NoBatch, owed |-> {}, moved |-> FALSE]

Init ==
  /\ stage = [m \in Msgs |-> "away"]
  /\ load \in Loads
  /\ todo = load.todo
  /\ queue = <<>>
  /\ batch = NoBatch
  /\ verdict = [t \in Txs |-> "none"]
  /\ unseen = {}
  /\ groups = <<>>
  /\ runs = <<>>
  /\ cache = {}
  /\ info = <<>>
  /\ latest = [c \in Contracts |-> 0]
  /\ last = NoBlock

\* A map with the entries of g inserted, and one with those of S erased.
With(f, g) == [x \in DOMAIN f \union DOMAIN g |-> IF x \in DOMAIN g THEN g[x] ELSE f[x]]
Without(f, S) == Restrict(f, DOMAIN f \ S)

(***************************************************************************)
(* The pool and the mutex.                                                 *)
(***************************************************************************)

\* Variant: the mutex guards a call of ContractTransaction, not the message.
HoldingCall == {m \in Msgs : stage[m] \in {"grouping", "verifying", "executing"}}

Holding == {m \in Msgs : stage[m] \in {"locked", "grouping", "verifying", "executing"}}
InPool(m) == m \notin Own /\ (stage[m] = "waiting" \/ m \in Holding)

\* Variant: an execution keeps its thread until its future is read.
ExecutingOrRead == {id \in DOMAIN runs : runs[id].state # "queued" /\ runs[id].pool = "tx"}

\* The threads of txTaskPool that a handler keeps, and those that execute.
Handlers == {m \in Msgs : InPool(m)}
Executing == {id \in DOMAIN runs : runs[id].state = "running" /\ runs[id].pool = "tx"}
ThreadFree == Cardinality(Handlers) + Cardinality(Executing) < load.threads

\* A message arrives (TxRegisterCallback), or the dispatcher calls the handler.
Arrive(m) ==
  /\ stage[m] = "away" /\ todo[m] # <<>>
  /\ IF m \in Own
     THEN stage' = [stage EXCEPT ![m] = "waiting"] /\ UNCHANGED queue
     ELSE /\ stage' = [stage EXCEPT ![m] = "queued"]
          /\ queue' = Append(queue, [kind |-> "msg", what |-> m])
  /\ UNCHANGED <<load, todo, batch, unseen, groups, verdict, runs, cacheVars, latest, last>>

StartHandler ==
  /\ queue # <<>> /\ Head(queue).kind = "msg" /\ ThreadFree
  /\ stage' = [stage EXCEPT ![Head(queue).what] = "waiting"]
  /\ queue' = Tail(queue)
  /\ UNCHANGED <<load, todo, batch, unseen, groups, verdict, runs, cacheVars, latest, last>>

StartRun ==
  /\ queue # <<>> /\ Head(queue).kind = "run" /\ ThreadFree
  /\ LET id == Head(queue).what IN
       runs' = [runs EXCEPT ![id].state = IF runs[id].left = {} THEN "ended" ELSE "running"]
  /\ queue' = Tail(queue)
  /\ UNCHANGED <<load, handlerVars, verdict, cacheVars, latest, last>>

\* _threadMutex is taken; a message whose signature or packager is wrong is
\* refused.
Lock(m) ==
  /\ stage[m] = "waiting" /\ Holding = {}
  /\ \E next \in {"locked", "done"} : stage' = [stage EXCEPT ![m] = next]
  /\ UNCHANGED <<load, todo, queue, batch, unseen, groups, verdict, runs, cacheVars, latest, last>>

(***************************************************************************)
(* packDispatch: the transactions that share a contract.                   *)
(***************************************************************************)

Share(t, u) == Calls[t] \cap Calls[u] # {}

\* commonKeys of one turn of the loop over hash_dep.
CommonKeys(B, t) == {t} \union {u \in B : u # t /\ Share(t, u)}

\* They join the first set they meet, or become a set of their own.
Join(res, keys) ==
  LET meets == {i \in DOMAIN res : res[i] \cap keys # {}}
  IN  IF meets = {}
      THEN Append(res, keys)
      ELSE LET first == CHOOSE i \in meets : \A j \in meets : i <= j
           IN  [res EXCEPT ![first] = @ \union keys]

\* The sets of one transaction, which become non_dependent_contract_tx_map.
Alone(gs) == {i \in DOMAIN gs : \E t \in gs[i] : gs[i] = {t}}
Twice(gs) == \E i, j \in DOMAIN gs : i # j /\ gs[i] \cap gs[j] # {}

(***************************************************************************)
(* ContractTransaction.                                                    *)
(***************************************************************************)

\* The transactions are added to packdis, a verification is begun for each.
Begin(m) ==
  /\ stage[m] = "locked" /\ todo[m] # <<>>
  /\ LET B == Head(todo[m]) IN
       /\ batch' = [NoBatch EXCEPT !.txs = B, !.old = cache, !.latest = latest]
       /\ verdict' = [t \in Txs |-> IF t \in B THEN "pending" ELSE "none"]
       /\ unseen' = B
  /\ stage' = [stage EXCEPT ![m] = "grouping"]
  /\ last' = NoBlock
  /\ UNCHANGED <<load, todo, queue, groups, runs, cacheVars, latest>>

\* One turn of GetDependentData, whose hash_dep is not ordered.
Group(m) ==
  /\ stage[m] = "grouping"
  /\ \E t \in unseen :
       /\ unseen' = unseen \ {t}
       /\ groups' = Join(groups, CommonKeys(batch.txs, t))
  /\ UNCHANGED <<load, stage, todo, queue, batch, verdict, runs, cacheVars, latest, last>>

\* An execution is known by the call that made it, its group and its attempt.
RunId(m, i, attempt) == <<m, Len(todo[m]), i, attempt>>
NewRun(txs, pool) ==
  [left |-> txs, rests |-> <<>>, pool |-> pool, wanted |-> TRUE,
   state |-> IF pool = "tx" THEN "queued" ELSE "running"]

\* The tasks of executions ids, in the order of their groups: one sequence.
Tasks(ids) ==
  {q \in [1 .. Cardinality(ids) -> [kind : {"run"}, what : ids]] :
     \A j, k \in DOMAIN q : j < k => q[j].what[3] < q[k].what[3]}

\* An execution is begun for each group.
BeginRuns(m) ==
  /\ stage[m] = "grouping" /\ unseen = {}
  /\ LET alone == Alone(groups)
         pool(i) == IF i \in alone THEN "block" ELSE "tx"
         new == [id \in {RunId(m, i, 1) : i \in DOMAIN groups} |-> NewRun(groups[id[3]], pool(id[3]))]
     IN  /\ batch' = [batch EXCEPT !.alone = alone, !.twice = Twice(groups)]
         /\ runs' = With(runs, new)
         /\ \E tasks \in Tasks({id \in DOMAIN new : new[id].pool = "tx"}) : queue' = queue \o tasks
  /\ stage' = [stage EXCEPT ![m] = "verifying"]
  /\ UNCHANGED <<load, todo, verdict, unseen, groups, cacheVars, latest, last>>

\* handleTransaction ends; AddCache refuses what conflicts with its cache.
Verify(t) ==
  /\ verdict[t] = "pending"
  /\ \/ /\ t \notin cache
        /\ verdict' = [verdict EXCEPT ![t] = "ok"]
        /\ cache' = cache \union {t}
     \/ /\ verdict' = [verdict EXCEPT ![t] = "failed"]
        /\ UNCHANGED cache
  /\ UNCHANGED <<load, handlerVars, queue, runs, info, latest, last>>

Least(S) == CHOOSE t \in S : \A u \in S : t <= u
Greatest(S) == CHOOSE t \in S : \A u \in S : u <= t

\* Variant: the cache of predecessors is not carried from one to the next.
PreHashStored(run, c) == latest[c]

\* get_and_update_contract_pre_hash: the transaction of this execution that
\* called c before, or the one stored last.
PreHash(run, c) ==
  LET before == {u \in DOMAIN run.rests : c \in Calls[u]}
  IN  IF before = {} THEN latest[c] ELSE Greatest(before)

\* The transaction whose turn it is, what it follows for each contract it calls,
\* all that it rests on, and the execution behind it.
Turn(run) == Least(run.left)
Follows(run) == [c \in Calls[Turn(run)] |-> PreHash(run, c)]
RestsOn(run) == {Turn(run)} \union UNION {run.rests[u] : u \in Range(Follows(run)) \cap DOMAIN run.rests}
After(run) ==
  [run EXCEPT !.left = @ \ {Turn(run)}, !.rests = With(@, [u \in {Turn(run)} |-> RestsOn(run)]),
              !.state = IF run.left = {Turn(run)} THEN "ended" ELSE "running"]

\* One turn of executeContracts: the transaction is recorded on top of what it
\* follows, or fails and ends the execution.
Execute(id) ==
  LET run == runs[id]
      record == [pre |-> Follows(run), rests |-> RestsOn(run), late |-> ~run.wanted]
  IN  /\ run.state = "running"
      /\ \/ /\ info' = With(info, [u \in {Turn(run)} |-> record])
            /\ runs' = IF After(run).state = "ended" /\ ~run.wanted
                       THEN Without(runs, {id})
                       ELSE [runs EXCEPT ![id] = After(run)]
         \/ /\ runs' = IF run.wanted THEN [runs EXCEPT ![id].state = "ended"] ELSE Without(runs, {id})
            /\ UNCHANGED info
      /\ UNCHANGED <<load, handlerVars, queue, verdict, cache, latest, last>>

\* The groups to execute again: one of their transactions failed verification.
Failed == {t \in batch.txs : verdict[t] = "failed"}
ToRedo == {i \in DOMAIN groups \ batch.alone : groups[i] \cap Failed # {}}

\* Variant: the handler keeps the future of the first execution.
NotAbandoned(run) == run

\* The first execution of a group goes on, and nobody waits for it.
Abandoned(run) == [run EXCEPT !.wanted = FALSE]

\* All verifications are known: the transactions that failed leave their
\* groups, whose records are erased and which are executed again.
Judge(m) ==
  /\ stage[m] = "verifying"
  /\ \A t \in batch.txs : verdict[t] # "pending"
  /\ LET firsts == {RunId(m, i, 1) : i \in ToRedo}
         seconds == [id \in {RunId(m, i, 2) : i \in ToRedo} |-> NewRun(groups[id[3]] \ Failed, "tx")]
         ended == {id \in firsts : runs[id].state = "ended"}
         alone == UNION {groups[i] : i \in batch.alone}
         kept == [id \in DOMAIN runs \ ended |->
                    IF id \in firsts THEN Abandoned(runs[id]) ELSE runs[id]]
     IN  /\ runs' = With(kept, seconds)
         /\ \E tasks \in Tasks(DOMAIN seconds) : queue' = queue \o tasks
         /\ info' = Without(info, (UNION {groups[i] : i \in ToRedo}) \union (Failed \cap alone))
  /\ groups' = [i \in DOMAIN groups |-> IF i \in ToRedo THEN groups[i] \ Failed ELSE groups[i]]
  /\ stage' = [stage EXCEPT ![m] = "executing"]
  /\ UNCHANGED <<load, todo, batch, verdict, unseen, cache, latest, last>>

(***************************************************************************)
(* The end of ContractTransaction and ProcessContract, which holds the     *)
(* mutexes of the caches.                                                  *)
(***************************************************************************)

\* The executions whose futures the handler keeps, and what failed in them.
Waited(m) == {id \in DOMAIN runs : id[1] = m /\ id[2] = Len(todo[m]) /\ runs[id].wanted}
Stopped(m) == {Least(runs[id].left) : id \in {i \in Waited(m) : runs[i].left # {}}}

\* Variant: only the transaction that failed is taken out.
RemainingOthers(m) == cache \ Stopped(m)

\* removeContractsCacheRequest: what remains once the groups of the failed
\* executions are out.
Remaining(m) == cache \ UNION {groups[i] : i \in {j \in DOMAIN groups : groups[j] \cap Stopped(m) # {}}}

\* fetchContractTxPreHash: each transaction follows one of the block or the one
\* that is stored last.
Linked(txs) ==
  \A t \in txs : t \in DOMAIN info /\ \A c \in Calls[t] : info[t].pre[c] \in txs \union {latest[c]}

\* Those verified, in a group whose execution the handler waited for and which
\* did not fail.
Owed(m) ==
  {t \in batch.txs : verdict[t] = "ok" /\
     \A id \in Waited(m) : t \in groups[id[3]] => runs[id].left = {}}

\* A failed read of the top keeps the caches, as an empty cache keeps the
\* records; otherwise both are wiped, whatever comes of the block: refused for
\* its predecessors, not confirmed or not built, or built.
Pack(m) ==
  /\ stage[m] = "executing"
  /\ \A id \in Waited(m) : runs[id].state = "ended"
  /\ LET txs == Remaining(m)
         Outcome(o) == last' =
           [outcome |-> o, txs |-> txs, info |-> Restrict(info, txs \intersect DOMAIN info),
            batch |-> batch, owed |-> Owed(m), moved |-> latest # batch.latest]
     IN  \/ /\ cache' = txs
            /\ UNCHANGED <<info, last>>
         \/ /\ txs = {}
            /\ cache' = {}
            /\ UNCHANGED <<info, last>>
         \/ /\ txs # {}
            /\ cache' = {} /\ info' = <<>>
            /\ IF Linked(txs) THEN \E o \in {"failed", "built"} : Outcome(o) ELSE Outcome("refused")
  /\ runs' = Without(runs, Waited(m))
  /\ batch' = NoBatch /\ groups' = <<>>
  /\ verdict' = [t \in Txs |-> "none"]
  /\ todo' = [todo EXCEPT ![m] = Tail(@)]
  /\ stage' = [stage EXCEPT ![m] = "locked"]
  /\ UNCHANGED <<load, queue, unseen, latest>>

\* The handler returns.
Finish(m) ==
  /\ stage[m] = "locked" /\ todo[m] = <<>>
  /\ stage' = [stage EXCEPT ![m] = "done"]
  /\ last' = NoBlock
  /\ UNCHANGED <<load, todo, queue, batch, unseen, groups, verdict, runs, cacheVars, latest>>

\* A block with a transaction of c is saved.
Stored(c) ==
  /\ c \in Moving /\ latest[c] = 0
  /\ latest' = [latest EXCEPT ![c] = -1]
  /\ UNCHANGED <<load, handlerVars, queue, verdict, runs, cacheVars, last>>

Working ==
  \/ StartHandler
  \/ StartRun
  \/ \E m \in Msgs : Lock(m) \/ Begin(m) \/ Group(m) \/ BeginRuns(m) \/ Judge(m) \/ Pack(m) \/ Finish(m)
  \/ \E t \in Txs : Verify(t)
  \/ \E id \in DOMAIN runs : Execute(id)

Next ==
  \/ \E m \in Msgs : Arrive(m)
  \/ \E c \in Contracts : Stored(c)
  \/ Working

\* The threads of the pools run as long as something can be done.
Spec == Init /\ [][Next]_vars /\ WF_vars(Working)

(***************************************************************************)
(* Properties.                                                             *)
(***************************************************************************)

Ids == Msgs \X Nat \X Nat \X {1, 2}
Runs == [left : SUBSET Txs, rests : UNION {[S -> SUBSET Txs] : S \in SUBSET Txs},
         pool : {"tx", "block"}, wanted : BOOLEAN, state : {"queued", "running", "ended"}]
Infos == [pre : UNION {[C -> Txs \union {0, -1}] : C \in SUBSET Contracts}, rests : SUBSET Txs, late : BOOLEAN]
AreInfos(f) == DOMAIN f \subseteq Txs /\ \A t \in DOMAIN f : f[t] \in Infos
Batches == [txs : SUBSET Txs, old : SUBSET Txs, latest : [Contracts -> {0, -1}], alone : SUBSET Nat, twice : BOOLEAN]

TypeOK ==
  /\ load \in Loads
  /\ stage \in [Msgs -> {"away", "queued", "waiting", "locked", "grouping", "verifying",
                       "executing", "done"}]
  /\ todo \in [Msgs -> Seq(SUBSET Txs)]
  /\ queue \in Seq([kind : {"msg"}, what : Msgs] \union [kind : {"run"}, what : DOMAIN runs])
  /\ DOMAIN runs \subseteq Ids
  /\ \A id \in DOMAIN runs : runs[id] \in Runs
  /\ batch \in Batches
  /\ verdict \in [Txs -> {"none", "pending", "ok", "failed"}]
  /\ unseen \subseteq Txs
  /\ groups \in Seq(SUBSET Txs)
  /\ cache \subseteq Txs
  /\ AreInfos(info)
  /\ latest \in [Contracts -> {0, -1}]
  /\ last.outcome \in {"none", "refused", "failed", "built"}
  /\ last.txs \subseteq Txs /\ AreInfos(last.info) /\ last.batch \in Batches
  /\ Cardinality(Holding) <= 1

\* No transaction of a block was executed on top of one that is not in it,
\* unless an execution that was abandoned recorded it over the second one (the
\* first is not stopped, line 1137), the grouping put a transaction into two
\* groups, only one of which left the block, or an earlier call left its
\* transactions behind.
RestsOnBlock ==
  last.outcome = "built" /\ ~last.batch.twice /\ last.batch.old = {} =>
    \A t \in last.txs : last.info[t].late \/ last.info[t].rests \subseteq last.txs

\* Of two transactions of a block that share a contract the one of the greater
\* hash was executed on top of the other, with the same exceptions.
OneAfterAnother ==
  last.outcome = "built" /\ ~last.batch.twice /\ last.batch.old = {} =>
    \A t, u \in last.txs :
      t < u /\ Share(t, u) => last.info[u].late \/ t \in last.info[u].rests

\* A transaction whose group was verified and executed is in the block, unless
\* the grouping put a transaction into two groups; and a block is refused for
\* its predecessors only if one of them was stored since the call began, or for
\* the three reasons above.
LostForCause ==
  /\ last.outcome = "built" => last.batch.twice \/ last.owed \subseteq last.txs
  /\ last.outcome = "refused" =>
       \/ last.moved
       \/ last.batch.twice
       \/ last.batch.old # {}
       \/ \E t \in DOMAIN last.info : last.info[t].late

\* The mutex of the packager is free again and again, unless in the end every
\* thread of the pool is kept by a handler: the tasks one of them waits for
\* are in the queue of the same pool.
LockFreed ==
  []<>(Holding = {}) \/ <>[](Cardinality(Handlers) = load.threads)

=============================================================================
