------------------------------ MODULE Packing ------------------------------
(***************************************************************************)
(* How the packager finds the predecessor of its blocks: the packing       *)
(* thread and the end of a contract batch (ca/transaction_cache.cpp), and  *)
(* the look-ups of BlockStorage (ca/block_stroage.cpp) they share.         *)
(*                                                                         *)
(* A look-up asks other nodes for the block hashes of a height and runs on *)
(* a pool; preHashMap keeps the future of the one committed last for each  *)
(* height.  Every 3 s the packing thread takes all cached transactions,    *)
(* commits a look-up for the height it builds on unless the map has one,   *)
(* waits up to 6 s for its result and hands over a block.  When the result *)
(* is late or bad it commits another look-up and keeps the transactions    *)
(* for the next round.  Whoever verifies a transaction commits a look-up   *)
(* for the node's top first, and so may the end of a contract batch, which *)
(* has one try.                                                            *)
(*                                                                         *)
(* Time is counted in seconds.  The packing thread and the look-ups are    *)
(* prompt: the clock does not pass what they have to do.  The others may   *)
(* be slow.                                                                *)
(***************************************************************************)
EXTENDS Naturals, FiniteSets, Functions

CONSTANTS
  Txs,          \* the ordinary transactions
  Heights,      \* bound: the heights of the chain
  MaxJobs,      \* bound: the transactions and contract batches that come
  Threshold,    \* BUILD_THRESHOLD (1000000)
  MapLimit,     \* the look-ups that are kept (100)
  GoodTimes,    \* the seconds a look-up may take that succeeds
  BadTimes,     \* those of one that fails
  MaxFailures,  \* bound: the look-ups that fail
  None

ASSUME PackingAssumption ==
  /\ Heights \subseteq Nat
  /\ MaxJobs \in Nat /\ MaxFailures \in Nat
  /\ Threshold \in Nat /\ MapLimit \in Nat
  /\ GoodTimes \subseteq Nat \ {0} /\ BadTimes \subseteq Nat \ {0}
  /\ Txs \intersect {"packer", "contract", "verifier"} = {} /\ IsFiniteSet(Txs)

Interval == 3    \* BUILD_INTERVAL
Patience == 6    \* CreateBlock's wait_for

VARIABLES
  phase,     \* seconds since the last notification of the timer
  top,       \* getBlockTop()
  preHashMap,
  failures,  \* look-ups that fail
  cut,       \* the heights whose look-up was thrown out of preHashMap
  pc,        \* how far each thread is
  at,        \* the height it builds on or looks up
  future,    \* the look-up it waits for
  waited,    \* for how long
  cache,     \* _transactionCache
  building,  \* buildTxs of the packing thread
  fate,      \* what has become of each transaction
  batches,   \* contract batches begun
  reread     \* a thread has read a bad result for the second time

timeVars == <<phase, top>>
mapVars == <<preHashMap, failures, cut>>
threadVars == <<pc, at, future, waited>>
txVars == <<cache, building, fate>>
vars == <<timeVars, mapVars, threadVars, txVars, batches, reread>>

\* The packing thread, the handler of a contract batch (under _threadMutex there
\* is one at a time) and its verification, and for each ordinary transaction the
\* thread that verifies it.
Builders == {"packer", "contract"}
Threads == Builders \union {"verifier"} \union Txs

Init ==
  /\ phase = 0
  /\ top \in Heights
  /\ preHashMap = [h \in Heights |-> None]
  /\ failures = 0 /\ cut = {}
  /\ pc = [th \in Threads |-> "idle"]
  /\ at = [th \in Threads |-> None]
  /\ future = [th \in Builders |-> None]
  /\ waited = [th \in Builders |-> 0]
  /\ cache = {} /\ building = {}
  /\ fate = [t \in Txs |-> "none"]
  /\ batches = 0
  /\ reread = FALSE

(***************************************************************************)
(* BlockStorage: preHashMap, in critical sections of prehashMutex.         *)
(*                                                                         *)
(* The time a look-up takes and its result are settled when it begins, so  *)
(* that the copies of a shared_future stay equal.  readers names the       *)
(* threads that have read a bad result of it.                              *)
(***************************************************************************)

Mapped == {h \in Heights : preHashMap[h] # None}

LookUps ==
  {look \in [age : Nat, due : GoodTimes \union BadTimes, good : BOOLEAN, readers : SUBSET Builders] :
     look.age <= look.due}

ASSUME NoneAssumption == None \notin LookUps /\ None \notin Heights

Task(due, good) == [age |-> 0, due |-> due, good |-> good, readers |-> {}]
Tasks ==
  {Task(d, TRUE) : d \in GoodTimes} \union
  (IF failures < MaxFailures THEN {Task(d, FALSE) : d \in BadTimes} ELSE {})

Ended(look) == look.age = look.due

\* Variant: look-ups go on growing older after their end.
OlderAfterEnd(look) == IF look = None THEN look ELSE [look EXCEPT !.age = @ + 1]

Older(look) == IF look = None \/ Ended(look) THEN look ELSE [look EXCEPT !.age = @ + 1]

\* A new look-up takes the place of that of height h in map.
Put(map, h) ==
  \E task \in Tasks :
    /\ preHashMap' = [map EXCEPT ![h] = task]
    /\ failures' = IF task.good THEN failures ELSE failures + 1

\* preHashMap.end()->first is whatever lies behind the map, its size with
\* libstdc++: the entries from some height on are kept, or none.
Cuts ==
  IF Cardinality(Mapped) > MapLimit
  THEN {[h \in Heights |-> IF h >= from THEN preHashMap[h] ELSE None] : from \in Mapped}
       \union {[h \in Heights |-> None]}
  ELSE {preHashMap}

Step(th, to) ==
  /\ pc' = [pc EXCEPT ![th] = to]
  /\ at' = IF to = "idle" THEN [at EXCEPT ![th] = None] ELSE at

\* commitLookupTask for height h.
Begin(th, h) == pc' = [pc EXCEPT ![th] = "checking"] /\ at' = [at EXCEPT ![th] = h]

\* What a thread does once the look-up of its height is committed.
Committed(th) == IF th \in Builders THEN "getting" ELSE "verified"

\* isSeekTask, the first half of commitLookupTask.
IsSeekTask(th) ==
  /\ pc[th] = "checking"
  /\ Step(th, IF at[th] \in Mapped THEN Committed(th) ELSE "inserting")
  /\ UNCHANGED <<timeVars, mapVars, future, waited, txVars, batches, reread>>

\* Its second half: another thread may have committed one since.
CommitLookupTask(th) ==
  /\ pc[th] = "inserting"
  /\ Step(th, Committed(th))
  /\ \E map \in Cuts :
       /\ Put(map, at[th])
       /\ cut' = (cut \union {h \in Mapped : map[h] = None}) \ {at[th]}
  /\ UNCHANGED <<timeVars, future, waited, txVars, batches, reread>>

\* _transactionCache.clear(), after the block of buildTxs was made or was not.
Clear(outcome) ==
  /\ fate' = [t \in Txs |-> CASE t \in cache \intersect building -> outcome
                             [] t \in cache \ building -> "lost"
                             [] OTHER -> fate[t]]
  /\ cache' = {} /\ building' = {}

\* GetPrehash: without an entry there is no block.
GetPrehash(th) ==
  /\ pc[th] \in {"getting", "trusting"}
  /\ IF at[th] \in Mapped
     THEN /\ future' = [future EXCEPT ![th] = preHashMap[at[th]]]
          /\ Step(th, "waiting")
          /\ UNCHANGED txVars
     ELSE /\ Step(th, "idle")
          /\ IF th = "packer" THEN Clear("dropped") ELSE UNCHANGED txVars
          /\ UNCHANGED future
  /\ UNCHANGED <<timeVars, mapVars, waited, batches, reread>>

\* Variant: the late or bad look-up is erased and left to the next round.
ForceErase(th) ==
  /\ pc[th] = "forcing"
  /\ preHashMap' = [preHashMap EXCEPT ![at[th]] = None]
  /\ Step(th, "idle")
  /\ building' = IF th = "packer" THEN {} ELSE building
  /\ UNCHANGED <<timeVars, failures, cut, future, waited, cache, fate, batches, reread>>

\* Variant: commitLookupTask in place of ForceCommitSeekJob: the entry is there.
ForceUnlessMapped(th) ==
  /\ pc[th] = "forcing"
  /\ IF at[th] \in Mapped THEN UNCHANGED <<preHashMap, failures>> ELSE Put(preHashMap, at[th])
  /\ cut' = cut \ {at[th]}
  /\ Step(th, "idle")
  /\ building' = IF th = "packer" THEN {} ELSE building
  /\ UNCHANGED <<timeVars, future, waited, cache, fate, batches, reread>>

\* ForceCommitSeekJob: a new look-up in place of the one that was late or bad.
\* The packing thread keeps its transactions, a contract batch is lost.
ForceCommitSeekJob(th) ==
  /\ pc[th] = "forcing"
  /\ Put(preHashMap, at[th])
  /\ cut' = cut \ {at[th]}
  /\ Step(th, "idle")
  /\ building' = IF th = "packer" THEN {} ELSE building
  /\ UNCHANGED <<timeVars, future, waited, cache, fate, batches, reread>>

(***************************************************************************)
(* CreateBlock and BuildBlock: waiting for the result.                     *)
(***************************************************************************)

Stop(th) == future' = [future EXCEPT ![th] = None] /\ waited' = [waited EXCEPT ![th] = 0]

\* The hash is there: handleBlock takes the block or refuses it.
Build(th) ==
  /\ pc[th] = "waiting" /\ Ended(future[th]) /\ future[th].good
  /\ Step(th, "idle")
  /\ Stop(th)
  /\ IF th = "packer" THEN \E outcome \in {"packed", "dropped"} : Clear(outcome) ELSE UNCHANGED txVars
  /\ UNCHANGED <<timeVars, mapVars, batches, reread>>

\* Variant: only a late look-up is replaced (-4 is not in BuildBlock's list).
AfterFailureIdle == "idle"

\* -4 ends in ForceCommitSeekJob, as -3, a late look-up, does.
AfterFailure == "forcing"

ReadBy(look, th) == [look EXCEPT !.readers = @ \union {th}]

ReadFailure(th) ==
  /\ pc[th] = "waiting" /\ Ended(future[th]) /\ ~future[th].good
  /\ Step(th, AfterFailure)
  /\ Stop(th)
  /\ reread' = (reread \/ th \in future[th].readers)
  /\ preHashMap' = IF preHashMap[at[th]] = future[th]
                   THEN [preHashMap EXCEPT ![at[th]] = ReadBy(@, th)] ELSE preHashMap
  /\ UNCHANGED <<timeVars, failures, cut, txVars, batches>>

TimeOut(th) ==
  /\ pc[th] = "waiting" /\ waited[th] = Patience
  /\ Step(th, "forcing")
  /\ Stop(th)
  /\ UNCHANGED <<timeVars, mapVars, txVars, batches, reread>>

(***************************************************************************)
(* Verification, outside this code: a look-up for the node's top, then     *)
(* AddCache, which has to wait for the packing thread's mutex.             *)
(***************************************************************************)

\* processTransactionCacheFunc holds transactionCacheMutex from the
\* notification to the end of the round.
MutexFree == pc["packer"] = "idle"

Jobs == batches + Cardinality({t \in Txs : fate[t] # "none" \/ pc[t] # "idle"})

Verify(t) ==
  /\ Jobs < MaxJobs
  /\ fate[t] = "none" /\ pc[t] = "idle"
  /\ Begin(t, top)
  /\ UNCHANGED <<timeVars, mapVars, future, waited, txVars, batches, reread>>

AddCache(t) ==
  /\ pc[t] = "verified" /\ MutexFree
  /\ \/ /\ cache' = cache \union {t}
        /\ fate' = [fate EXCEPT ![t] = "cached"]
        /\ at' = [at EXCEPT ![t] = None]
        /\ pc' = [pc EXCEPT ![t] = "idle",
                            !["packer"] = IF Cardinality(cache') >= Threshold /\ @ = "idle" THEN "round" ELSE @]
     \/ /\ fate' = [fate EXCEPT ![t] = "dropped"]  \* DoubleSpentTransactions
        /\ Step(t, "idle")
        /\ UNCHANGED cache
  /\ UNCHANGED <<timeVars, mapVars, future, waited, building, batches, reread>>

(***************************************************************************)
(* A contract batch: its transactions are verified, each at the node's top *)
(* of the time, and built into a block.  topTransactionHeight_ is what     *)
(* their senders say.                                                      *)
(***************************************************************************)

StartBatch ==
  /\ Jobs < MaxJobs
  /\ pc["verifier"] = "idle" /\ pc["contract"] = "idle"
  /\ batches' = batches + 1
  /\ Begin("verifier", top)
  /\ UNCHANGED <<timeVars, mapVars, future, waited, txVars, reread>>

\* ProcessContract commits a look-up only if the chain is past the batch.
ProcessContract ==
  /\ pc["verifier"] = "verified" /\ pc["contract"] = "idle"
  /\ \E topTransactionHeight \in {h \in Heights : h <= at["verifier"] + 1} :
       /\ at' = [at EXCEPT !["contract"] = IF top > topTransactionHeight THEN top ELSE topTransactionHeight]
       /\ pc' = [pc EXCEPT !["verifier"] = "idle",
                           !["contract"] = IF top > topTransactionHeight THEN "checking" ELSE "trusting"]
  /\ UNCHANGED <<timeVars, mapVars, future, waited, txVars, batches, reread>>

\* The database fails, or a predecessor on a contract is not found.
LoseBatch ==
  /\ pc["contract"] \in {"getting", "trusting"}
  /\ Step("contract", "idle")
  /\ UNCHANGED <<timeVars, mapVars, future, waited, txVars, batches, reread>>

(***************************************************************************)
(* The packing thread.                                                     *)
(***************************************************************************)

\* _blockBuilder.notify_one() of the timer; nobody waits, nobody is woken.
Notify ==
  /\ phase = Interval
  /\ phase' = 0
  /\ pc' = [pc EXCEPT !["packer"] = IF @ = "idle" THEN "round" ELSE @]
  /\ UNCHANGED <<top, mapVars, at, future, waited, txVars, batches, reread>>

\* get_build_block_height depends on the heights of the other nodes.
Round ==
  /\ pc["packer"] = "round"
  /\ \/ /\ cache = {}
        /\ Step("packer", "idle")
        /\ UNCHANGED txVars
     \/ /\ cache # {}
        /\ \E height \in Heights : Begin("packer", height)
        /\ building' = cache
        /\ UNCHANGED <<cache, fate>>
     \/ /\ cache # {}
        /\ Step("packer", "idle")
        /\ fate' = [t \in Txs |-> IF t \in cache THEN "dropped" ELSE fate[t]]
        /\ cache' = {}
        /\ UNCHANGED building
  /\ UNCHANGED <<timeVars, mapVars, future, waited, batches, reread>>

(***************************************************************************)
(* Time and the chain.                                                     *)
(***************************************************************************)

Due(th) == pc[th] = "waiting" /\ (Ended(future[th]) \/ waited[th] = Patience)

Tick ==
  /\ phase < Interval
  /\ pc["packer"] \in {"idle", "waiting"}
  /\ \A th \in Builders : ~Due(th)
  /\ phase' = phase + 1
  /\ preHashMap' = [h \in Heights |-> Older(preHashMap[h])]
  /\ future' = [th \in Builders |-> Older(future[th])]
  /\ waited' = [th \in Builders |-> IF pc[th] = "waiting" THEN waited[th] + 1 ELSE waited[th]]
  /\ UNCHANGED <<top, failures, cut, pc, at, txVars, batches, reread>>

\* A block is saved, or rolled back.
NewTop ==
  /\ top' \in {h \in Heights : h # top}
  /\ UNCHANGED <<phase, mapVars, threadVars, txVars, batches, reread>>

Packer ==
  \/ Notify
  \/ Round
  \/ IsSeekTask("packer")
  \/ CommitLookupTask("packer")
  \/ GetPrehash("packer")
  \/ ForceCommitSeekJob("packer")

Waiting == \E th \in Builders : Build(th) \/ ReadFailure(th) \/ TimeOut(th)

Next ==
  \/ Packer
  \/ Waiting
  \/ Tick
  \/ \E t \in Txs : Verify(t) \/ AddCache(t)
  \/ \E th \in Threads \ {"packer"} : IsSeekTask(th) \/ CommitLookupTask(th)
  \/ GetPrehash("contract")
  \/ ForceCommitSeekJob("contract")
  \/ StartBatch
  \/ ProcessContract
  \/ LoseBatch
  \/ NewTop

Spec == Init /\ [][Next]_vars

\* Time passes, and the packing thread and the waits are not held up.
FairSpec == Spec /\ WF_vars(Packer \/ Waiting \/ Tick)

(***************************************************************************)
(* Properties                                                              *)
(***************************************************************************)

\* Every variable has its type; no look-up grows older than it may; who waits has
\* a future.
TypeOK ==
  /\ phase \in 0 .. Interval /\ top \in Heights
  /\ preHashMap \in [Heights -> LookUps \union {None}]
  /\ failures \in 0 .. MaxFailures /\ cut \subseteq Heights
  /\ pc \in [Threads -> {"idle", "round", "checking", "inserting", "getting", "trusting",
                         "waiting", "forcing", "verified"}]
  /\ at \in [Threads -> Heights \union {None}]
  /\ future \in [Builders -> LookUps \union {None}]
  /\ \A th \in Builders : pc[th] = "waiting" => future[th] # None
  /\ waited \in [Builders -> 0 .. Patience]
  /\ cache \subseteq Txs /\ building \subseteq Txs
  /\ fate \in [Txs -> {"none", "cached", "packed", "dropped", "lost"}]
  /\ batches \in 0 .. MaxJobs
  /\ reread \in BOOLEAN

\* A block does not fail for want of a look-up (CreateBlock, -2) unless the
\* trimming of preHashMap has thrown it out: whoever is about to call GetPrehash
\* has made sure of an entry under another lock, or, a contract batch that
\* trusts its height, is on the height its verification looked up.
LookupFound ==
  \A th \in Builders :
    (\/ pc[th] = "getting"
     \/ pc[th] = "trusting" /\ at[th] = at["verifier"]) =>
    at[th] \in Mapped \union cut

\* The bad result of a look-up, which stays in preHashMap, is read by a thread
\* once: the next block on that height does not fail for the same look-up.
FailedOnce == ~reread

\* Clearing the cache after a block takes only transactions that were in it
\* (processTransactionCacheFunc clears the whole cache).
NoneLost == \A t \in Txs : fate[t] # "lost"

\* If the look-ups that fail are few and those that succeed are quick, a cached
\* transaction is packed, or dropped with its block, in the end.
PackedInTheEnd == \A t \in Txs : fate[t] = "cached" ~> fate[t] \in {"packed", "dropped"}
=============================================================================
