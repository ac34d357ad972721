----------------------------- MODULE BlockPool -----------------------------
(***************************************************************************)
(* BlockHelper (ca/block_helper.cpp): the block pool.  Blocks that arrive  *)
(* from the broadcast, from the synchronisation and from the search for    *)
(* missing blocks wait in one queue per origin; BlockHelper::Process, which *)
(* a timer calls over and over, tries to save what the queues hold and     *)
(* clears them.  Saving a block releases the pending blocks that wait for  *)
(* it, recursively.                                                        *)
(*                                                                         *)
(* One mutex (helperMutex) covers the queues.  It is not recursive:        *)
(* Process holds it from end to end, and when it rolls a block back it     *)
(* reaches rollback_block_, which locks it again.  The model lets that     *)
(* thread block for ever: mutex = "stuck".                                 *)
(*                                                                         *)
(* A block stands for its height, its time, its predecessor and the        *)
(* outputs it spends; its own output has its name.  Left out: contract     *)
(* blocks (contractBlocks) and the requests for missing blocks, hashes and *)
(* utxos, whose answers may arrive here at any time.                       *)
(***************************************************************************)
EXTENDS Integers, Sequences, FiniteSets

CONSTANTS
  Blocks,        \* every block, the genesis block included
  Genesis,
  Height,        \* Height[b]: block.height()
  Time,          \* Time[b]: block.time()
  Prev,          \* Prev[b]: the block with hash block.prevhash()
  Spends,        \* Spends[b]: the blocks whose outputs b spends
  Unstakes,      \* blocks that withdraw the stake of one of their signers
  Broadcasted,   \* blocks that arrive by broadcast
  Synced,        \* blocks that arrive by synchronisation
  Sought,        \* blocks that arrive in answer to a search
  Disputed,      \* blocks the synchronisation may ask to have rolled back
  MaxLag,        \* a broadcast block this far below the top is refused (50)
  PendingLag,    \* a pending block this far below the top is dropped (20)
  PendingCap,    \* heights _pendingBlocks may hold (1000)
  PeersConfirm,  \* whether peers may return the block to be rolled back
  DbFails        \* whether getBlockTop may fail; a read by hash finds the
                 \* block or does not

Precedes(a, b) == Height[a] < Height[b] \/ (Height[a] = Height[b] /\ Time[a] < Time[b])

ASSUME BlockPoolAssumption ==
  /\ Genesis \in Blocks
  /\ Height \in [Blocks -> Nat]
  /\ Time \in [Blocks -> Nat]
  /\ Prev \in [Blocks -> Blocks]
  /\ Spends \in [Blocks -> SUBSET Blocks]
  /\ Height[Genesis] = 0
  /\ \A b \in Blocks \ {Genesis} : Height[b] = Height[Prev[b]] + 1
  /\ Unstakes \subseteq Blocks
  /\ Broadcasted \subseteq Blocks \ {Genesis}
  /\ Synced \subseteq Blocks \ {Genesis}
  /\ Sought \subseteq Blocks \ {Genesis}
  /\ Disputed \subseteq Blocks \ {Genesis}
  /\ MaxLag \in Nat /\ PendingLag \in Nat /\ PendingCap \in Nat
  /\ PeersConfirm \in BOOLEAN /\ DbFails \in BOOLEAN

VARIABLES
  saved,              \* the blocks in the database
  mutex,              \* helperMutex: "free", "process" or "stuck"
  processing,         \* the static processing_ of Process
  phase,              \* the loop Process is in; "failed" when its first read was
  work,               \* the blocks that loop has yet to try
  frames,             \* the PostSaveProcess calls in progress, innermost first
  broadcastBlocks,
  syncBlocks,         \* _syncBlocks
  fastSyncBlocks,
  utxoMissingBlocks,
  hashPendingBlocks,
  pendingBlocks,      \* _pendingBlocks
  rollbackBlocks,
  doubleSpendBlocks,
  duplicateChecker,   \* _duplicateChecker
  tried,              \* blocks SaveBlock was called on with their
                      \* predecessor in the database
  round               \* blocks this call of Process has tried

queues == <<broadcastBlocks, syncBlocks, fastSyncBlocks, utxoMissingBlocks,
            hashPendingBlocks, pendingBlocks, rollbackBlocks>>
vars == <<saved, mutex, processing, phase, work, frames, queues,
          doubleSpendBlocks, duplicateChecker, tried, round>>

Phases == {"idle", "rollback", "fast", "utxo", "sync", "broadcast", "hash",
           "end", "failed"}

Init ==
  /\ saved = {Genesis}
  /\ mutex = "free"
  /\ processing = FALSE
  /\ phase = "idle"
  /\ work = {}
  /\ frames = <<>>
  /\ broadcastBlocks = {}
  /\ syncBlocks = {}
  /\ fastSyncBlocks = {}
  /\ utxoMissingBlocks = {}
  /\ hashPendingBlocks = {}
  /\ pendingBlocks = {}
  /\ rollbackBlocks = {}
  /\ doubleSpendBlocks = {}
  /\ duplicateChecker = {}
  /\ tried = {}
  /\ round = {}

AtTop(h) == \A b \in saved : Height[b] <= h    \* getBlockTop() <= h

\* std::set with blockTimeAscending: a block with the height and the time of
\* one already there is not inserted.
Insert(S, b) ==
  IF \E a \in S : ~Precedes(a, b) /\ ~Precedes(b, a) THEN S ELSE S \union {b}

Earliest(S) == {b \in S : \A a \in S : ~Precedes(a, b)}

\* Checker::CheckConflict
CheckConflict(a, b) == Spends[a] \intersect Spends[b] # {}

(***************************************************************************)
(* The threads that fill the queues.                                       *)
(***************************************************************************)

\* AddPendingBlock; the search it starts for the predecessor is left out.
AddPending(b) ==
  IF Cardinality({Height[a] : a \in pendingBlocks}) < PendingCap
    THEN pendingBlocks \union {b}
    ELSE pendingBlocks

\* AddBroadcastBlock
AddBroadcastBlock(b) ==
  LET rivals == {a \in broadcastBlocks : CheckConflict(a, b)}
      \* The queue is walked in order up to the first rival, and only that
      \* one is erased when the new block comes first.
      queue == broadcastBlocks \ Earliest(rivals)
  IN
  /\ mutex = "free"
  /\ b \in Broadcasted \ (duplicateChecker \union doubleSpendBlocks)
  /\ duplicateChecker' = duplicateChecker \union {b}
  /\ \/ /\ \E a \in Earliest(rivals) : ~Precedes(b, a)
        /\ UNCHANGED <<broadcastBlocks, pendingBlocks>>
     \/ /\ \A a \in Earliest(rivals) : Precedes(b, a)
        /\ \/ /\ Prev[b] \in saved
              /\ broadcastBlocks' = Insert(queue, b)
              /\ UNCHANGED pendingBlocks
           \/ /\ Prev[b] \notin saved
              /\ broadcastBlocks' = queue
              /\ pendingBlocks' = AddPending(b)
           \/ /\ DbFails
              /\ broadcastBlocks' = queue
              /\ UNCHANGED pendingBlocks
  /\ UNCHANGED <<saved, mutex, processing, phase, work, frames, syncBlocks,
                 fastSyncBlocks, utxoMissingBlocks, hashPendingBlocks,
                 rollbackBlocks, doubleSpendBlocks, tried, round>>

\* AddSyncBlock and AddFastSyncBlock take what one synchronisation collected.
AddSyncBlock ==
  /\ mutex = "free"
  /\ \E b \in Synced : syncBlocks' = Insert(syncBlocks, b)
  /\ UNCHANGED <<saved, mutex, processing, phase, work, frames,
                 broadcastBlocks, fastSyncBlocks, utxoMissingBlocks,
                 hashPendingBlocks, pendingBlocks, rollbackBlocks,
                 doubleSpendBlocks, duplicateChecker, tried, round>>

AddFastSyncBlock ==
  /\ mutex = "free"
  /\ \E b \in Synced : fastSyncBlocks' = Insert(fastSyncBlocks, b)
  /\ UNCHANGED <<saved, mutex, processing, phase, work, frames,
                 broadcastBlocks, syncBlocks, utxoMissingBlocks,
                 hashPendingBlocks, pendingBlocks, rollbackBlocks,
                 doubleSpendBlocks, duplicateChecker, tried, round>>

\* add_seek_block: a block found by its hash.
AddSeekBlock ==
  /\ mutex = "free"
  /\ \E b \in Sought : hashPendingBlocks' = hashPendingBlocks \union {b}
  /\ UNCHANGED <<saved, mutex, processing, phase, work, frames,
                 broadcastBlocks, syncBlocks, fastSyncBlocks,
                 utxoMissingBlocks, pendingBlocks, rollbackBlocks,
                 doubleSpendBlocks, duplicateChecker, tried, round>>

\* AddMissingBlock: a block found by one of its outputs.
AddMissingBlock ==
  /\ mutex = "free"
  /\ \E b \in Sought : utxoMissingBlocks' = utxoMissingBlocks \union {b}
  /\ UNCHANGED <<saved, mutex, processing, phase, work, frames,
                 broadcastBlocks, syncBlocks, fastSyncBlocks,
                 hashPendingBlocks, pendingBlocks, rollbackBlocks,
                 doubleSpendBlocks, duplicateChecker, tried, round>>

\* rollback_block_ from the synchronisation: it replaces the whole queue.
RollbackRequest ==
  /\ mutex = "free"
  /\ \E b \in saved \intersect Disputed : rollbackBlocks' = {b}
  /\ UNCHANGED <<saved, mutex, processing, phase, work, frames,
                 broadcastBlocks, syncBlocks, fastSyncBlocks,
                 utxoMissingBlocks, hashPendingBlocks, pendingBlocks,
                 doubleSpendBlocks, duplicateChecker, tried, round>>

(***************************************************************************)
(* BlockHelper::Process.                                                   *)
(***************************************************************************)

\* Variant: Process does not take the mutex.
BeginUnlocked ==
  /\ ~processing
  /\ mutex = "free"
  /\ processing' = TRUE
  /\ phase' = "rollback"
  /\ round' = {}
  /\ UNCHANGED <<saved, mutex, work, frames, queues, doubleSpendBlocks,
                 duplicateChecker, tried>>

\* processing_ is set, the mutex taken, the top read, and the blocks not yet
\* 15 s old taken off the rollback queue.
Begin ==
  /\ ~processing
  /\ mutex = "free"
  /\ processing' = TRUE
  /\ mutex' = "process"
  /\ phase' = "rollback"
  /\ round' = {}
  /\ \E young \in SUBSET rollbackBlocks :
       rollbackBlocks' = rollbackBlocks \ young
  /\ UNCHANGED <<saved, work, frames, broadcastBlocks, syncBlocks,
                 fastSyncBlocks, utxoMissingBlocks, hashPendingBlocks,
                 pendingBlocks, doubleSpendBlocks, duplicateChecker, tried>>

\* getBlockTop fails: Process returns before it has set up the scope exit
\* that resets processing_.
BeginDbError ==
  /\ DbFails
  /\ ~processing
  /\ mutex = "free"
  /\ processing' = TRUE
  /\ phase' = "failed"
  /\ UNCHANGED <<saved, mutex, work, frames, queues, doubleSpendBlocks,
                 duplicateChecker, tried, round>>

\* RollbackBlock called under the mutex: it fails unless peers return the
\* block, and then rollback_block_ locks the mutex its thread holds.
Stuck == PeersConfirm /\ mutex' = "stuck"

\* Variant: Process returns with processing_ set.
RollbackBlocksLeaves ==
  /\ mutex = "process" /\ phase = "rollback"
  /\ rollbackBlocks # {}
  /\ \/ phase' = "idle" /\ mutex' = "free"
     \/ Stuck /\ UNCHANGED phase
  /\ UNCHANGED <<saved, processing, work, frames, queues, doubleSpendBlocks,
                 duplicateChecker, tried, round>>

\* RollbackBlocks: when the first of them fails Process gives up.
RollbackBlocks ==
  /\ mutex = "process" /\ phase = "rollback"
  /\ rollbackBlocks # {}
  /\ \/ phase' = "end" /\ UNCHANGED mutex
     \/ Stuck /\ UNCHANGED phase
  /\ UNCHANGED <<saved, processing, work, frames, queues, doubleSpendBlocks,
                 duplicateChecker, tried, round>>

\* getChainHeight reads the top again.
ChainHeight ==
  /\ mutex = "process" /\ phase = "rollback"
  /\ rollbackBlocks = {}
  /\ \/ phase' = "fast" /\ work' = fastSyncBlocks
     \/ DbFails /\ phase' = "end" /\ UNCHANGED work
  /\ UNCHANGED <<saved, mutex, processing, frames, queues, doubleSpendBlocks,
                 duplicateChecker, tried, round>>

\* A loop is over; the next one starts with its queue as it is then.
NextPhase ==
  /\ mutex = "process"
  /\ frames = <<>> /\ work = {}
  /\ \/ phase = "fast" /\ phase' = "utxo" /\ work' = utxoMissingBlocks
     \/ phase = "utxo" /\ phase' = "sync" /\ work' = syncBlocks
     \/ phase = "sync" /\ phase' = "broadcast" /\ work' = broadcastBlocks
     \/ phase = "broadcast" /\ phase' = "hash" /\ work' = hashPendingBlocks
     \/ phase = "hash" /\ phase' = "end" /\ UNCHANGED work
  /\ utxoMissingBlocks' = IF phase = "utxo" THEN {} ELSE utxoMissingBlocks
  /\ UNCHANGED <<saved, mutex, processing, frames, broadcastBlocks,
                 syncBlocks, fastSyncBlocks, hashPendingBlocks, pendingBlocks,
                 rollbackBlocks, doubleSpendBlocks, duplicateChecker, tried,
                 round>>

\* The blocks SaveBlock may be called on next: the pending blocks that the
\* innermost PostSaveProcess releases, else the next block of the loop.  The
\* sets are walked in order, hashPendingBlocks by hash and utxoMissingBlocks
\* by arrival, which the model does not keep.
Calls ==
  IF frames # <<>> THEN frames[1].todo
  ELSE IF phase \in {"utxo", "hash"} THEN work
  ELSE Earliest(work)

Released == frames # <<>>
BySync == ~Released /\ phase \in {"fast", "utxo", "sync"}

Without(b) == [frames EXCEPT ![1].todo = @ \ {b}]

CallDone(b) ==
  IF Released THEN frames' = Without(b) /\ UNCHANGED work
              ELSE work' = work \ {b} /\ UNCHANGED frames

\* Variant: every loop stops at the first block it cannot save.
CallFailsStops(b) ==
  IF Released THEN CallDone(b) ELSE work' = {} /\ UNCHANGED frames

\* The synchronisation's loops stop at the first block they cannot save.
CallFails(b) ==
  IF BySync THEN work' = {} /\ UNCHANGED frames ELSE CallDone(b)

Try(b) ==
  /\ mutex = "process" /\ phase \in Phases \ {"idle", "rollback", "end"}
  /\ b \in Calls
  /\ tried' = IF Prev[b] \in saved THEN tried \union {b} ELSE tried
  /\ round' = round \union {b}

\* The output of u is in the database, unspent.
Unspent(u) == u \in saved /\ \A a \in saved : u \notin Spends[a]

\* The block is in the database already.
SaveKnown(b) ==
  /\ Try(b)
  /\ b \in saved
  /\ CallDone(b)
  /\ hashPendingBlocks' = IF phase = "hash" /\ ~Released
                            THEN hashPendingBlocks \ {b} ELSE hashPendingBlocks
  /\ UNCHANGED <<saved, mutex, processing, phase, broadcastBlocks, syncBlocks,
                 fastSyncBlocks, utxoMissingBlocks, pendingBlocks,
                 rollbackBlocks, doubleSpendBlocks, duplicateChecker>>

\* Variants: the wrong height is looked up, nothing is, or prevhash is not
\* compared.
WaitingSameHeight(b) == {c \in pendingBlocks : Height[c] = Height[b] /\ Prev[c] = b}
WaitingNone(b) == {}
WaitingAnyParent(b) == {c \in pendingBlocks : Height[c] = Height[b] + 1}

\* The pending blocks that wait for b, found by height and prevhash.
Waiting(b) == {c \in pendingBlocks : Height[c] = Height[b] + 1 /\ Prev[c] = b}

\* Verification passes and the commit succeeds.  PostSaveProcess then takes
\* up the pending blocks of the next height that wait for this one.
SaveOk(b) ==
  LET outer == IF Released THEN Without(b) ELSE <<>>
  IN
  /\ Try(b)
  /\ b \notin saved
  /\ ~AtTop(Height[b] - 2)
  /\ ~Released /\ phase = "broadcast" => AtTop(Height[b] + MaxLag)
  /\ Prev[b] \in saved
  /\ \A u \in Spends[b] : Unspent(u)
  /\ saved' = saved \union {b}
  /\ frames' = <<[block |-> b, todo |-> Waiting(b)]>> \o outer
  /\ work' = IF Released THEN work ELSE work \ {b}
  /\ hashPendingBlocks' = IF phase = "hash" /\ ~Released
                            THEN hashPendingBlocks \ {b} ELSE hashPendingBlocks
  /\ UNCHANGED <<mutex, processing, phase, broadcastBlocks, syncBlocks,
                 fastSyncBlocks, utxoMissingBlocks, pendingBlocks,
                 rollbackBlocks, doubleSpendBlocks, duplicateChecker>>

\* Too high, too old, not valid, or lacking its predecessor or an output.
SaveFails(b) ==
  /\ Try(b)
  /\ b \notin saved
  /\ CallFails(b)
  /\ UNCHANGED <<saved, mutex, processing, phase, queues, doubleSpendBlocks,
                 duplicateChecker>>

\* doubleSpendCheck fails, for an output not in the database or for a reason
\* of its own: the block is kept and tried again for 3 s.
SaveLater(b) ==
  /\ Try(b)
  /\ b \notin saved /\ ~BySync
  /\ hashPendingBlocks' = hashPendingBlocks \union {b}
  /\ CallFails(b)
  /\ UNCHANGED <<saved, mutex, processing, phase, broadcastBlocks, syncBlocks,
                 fastSyncBlocks, utxoMissingBlocks, pendingBlocks,
                 rollbackBlocks, doubleSpendBlocks, duplicateChecker>>

\* dealDoubleSpend: an output of a saved block is spent already.  At or below
\* the top the earlier of the two blocks wins; the winner over a saved block
\* has that one rolled back.
SaveDoubleSpend(b) ==
  /\ Try(b)
  /\ b \notin saved /\ ~BySync
  /\ \E u \in Spends[b] :
       LET rivals == {a \in saved : u \in Spends[a] /\ Height[a] >= Height[b]}
           wins == \E a \in rivals : Precedes(b, a)
       IN
       /\ u \in saved /\ ~Unspent(u)
       /\ \/ AtTop(Height[b] - 1) /\ UNCHANGED <<mutex, doubleSpendBlocks>>
          \/ /\ ~AtTop(Height[b] - 1) /\ wins
             /\ Stuck \/ UNCHANGED mutex
             /\ UNCHANGED doubleSpendBlocks
          \/ /\ ~AtTop(Height[b] - 1) /\ ~wins
             /\ doubleSpendBlocks' = doubleSpendBlocks \union {b}
             /\ UNCHANGED mutex
  /\ CallFails(b)
  /\ UNCHANGED <<saved, processing, phase, queues, duplicateChecker>>

\* PostSaveProcess ends with processPostMembershipCancellation, which rolls
\* back the other blocks of a height where a signer withdraws its stake and
\* ignores a failure.
PostSaved ==
  /\ mutex = "process"
  /\ frames # <<>> /\ frames[1].todo = {}
  /\ frames' = Tail(frames)
  /\ \/ UNCHANGED mutex
     \/ /\ frames[1].block \in Unstakes
        /\ \E a \in saved \ {frames[1].block} :
             Height[a] = Height[frames[1].block]
        /\ Stuck
  /\ UNCHANGED <<saved, processing, phase, work, queues, doubleSpendBlocks,
                 duplicateChecker, tried, round>>

\* The hash loop meets a block that an earlier iteration of it inserted, or
\* drops one that has been there for more than 3 s.
HashLoop ==
  /\ mutex = "process" /\ phase = "hash" /\ frames = <<>>
  /\ \/ \E b \in hashPendingBlocks \ round :
          /\ b \notin work
          /\ work' = work \union {b}
          /\ UNCHANGED hashPendingBlocks
     \/ \E b \in work :
          /\ work' = work \ {b}
          /\ hashPendingBlocks' = hashPendingBlocks \ {b}
  /\ UNCHANGED <<saved, mutex, processing, phase, frames, broadcastBlocks,
                 syncBlocks, fastSyncBlocks, utxoMissingBlocks, pendingBlocks,
                 rollbackBlocks, doubleSpendBlocks, duplicateChecker, tried,
                 round>>

\* The scope exit of Process; a block older than 60 s leaves the duplicates,
\* one older than 30 s the double spends.
End ==
  /\ mutex = "process" /\ phase = "end"
  /\ \E old60 \in SUBSET duplicateChecker :
     \E old30 \in SUBSET doubleSpendBlocks :
       /\ old60 \intersect doubleSpendBlocks \subseteq old30
       /\ duplicateChecker' = duplicateChecker \ old60
       /\ doubleSpendBlocks' = doubleSpendBlocks \ old30
  /\ mutex' = "free"
  /\ processing' = FALSE
  /\ phase' = "idle"
  /\ work' = {}
  /\ fastSyncBlocks' = {} /\ rollbackBlocks' = {}
  /\ syncBlocks' = {} /\ broadcastBlocks' = {}
  /\ \/ pendingBlocks' = {b \in pendingBlocks : AtTop(Height[b] + PendingLag - 1)}
     \/ DbFails /\ UNCHANGED pendingBlocks
  /\ UNCHANGED <<saved, frames, utxoMissingBlocks, hashPendingBlocks, tried,
                 round>>

SaveBlock(b) ==
  SaveKnown(b) \/ SaveOk(b) \/ SaveFails(b) \/ SaveLater(b) \/ SaveDoubleSpend(b)

ProcessStep ==
  \/ Begin
  \/ RollbackBlocks
  \/ ChainHeight
  \/ NextPhase
  \/ \E b \in Blocks : SaveBlock(b)
  \/ PostSaved
  \/ HashLoop
  \/ End

Arrivals ==
  \/ \E b \in Blocks : AddBroadcastBlock(b)
  \/ AddSyncBlock
  \/ AddFastSyncBlock
  \/ AddSeekBlock
  \/ AddMissingBlock
  \/ RollbackRequest

Next == ProcessStep \/ BeginDbError \/ Arrivals

\* The pool's timer calls Process again and again, and a thread that is not
\* blocked makes progress.
Spec == Init /\ [][Next]_vars /\ WF_vars(ProcessStep)

(***************************************************************************)
(* Properties.                                                             *)
(***************************************************************************)

\* The type invariant; the mutex is held exactly while Process is in a phase.
TypeOK ==
  /\ saved \in SUBSET Blocks
  /\ mutex \in {"free", "process", "stuck"}
  /\ processing \in BOOLEAN
  /\ phase \in Phases
  /\ phase \in {"idle", "failed"} <=> mutex = "free"
  /\ phase \in {"idle", "failed", "rollback", "end"} => frames = <<>>
  /\ work \in SUBSET Blocks
  /\ frames \in Seq([block : saved, todo : SUBSET Blocks])
  /\ broadcastBlocks \in SUBSET Broadcasted
  /\ syncBlocks \in SUBSET Synced
  /\ fastSyncBlocks \in SUBSET Synced
  /\ utxoMissingBlocks \in SUBSET Sought
  /\ hashPendingBlocks \in SUBSET Blocks
  /\ pendingBlocks \in SUBSET Broadcasted
  /\ rollbackBlocks \in SUBSET Disputed
  /\ doubleSpendBlocks \in SUBSET Blocks
  /\ duplicateChecker \in SUBSET Broadcasted
  /\ tried \in SUBSET Blocks
  /\ round \in SUBSET Blocks

\* A pending block whose predecessor has been saved, whichever queue that one
\* came from, has been tried since, or PostSaveProcess is about to try it:
\* the wake-up is not lost between AddBroadcastBlock and Process.
PendingTried ==
  \A b \in pendingBlocks :
    Prev[b] \in saved =>
      b \in tried \/ \E i \in DOMAIN frames : b \in frames[i].todo

\* The recursion climbs the chain: PostSaveProcess only tries pending blocks
\* that wait for its own block, and it was itself entered from that of the
\* predecessor.  So SaveBlock never re-enters a block it is still releasing
\* blocks for, and the heights in pendingBlocks bound the depth.
RecursionClimbs ==
  /\ \A i \in DOMAIN frames : \A b \in frames[i].todo :
       b \in pendingBlocks /\ Prev[b] = frames[i].block
  /\ \A i \in 1 .. Len(frames) - 1 :
       /\ frames[i].block \in pendingBlocks
       /\ Prev[frames[i].block] = frames[i + 1].block

\* A block leaves the broadcast queue only when Process has tried it, a
\* conflicting block that comes before it arrives, or the round gave up before
\* it tried anything: a failed rollback or read of the top costs every queue
\* its blocks, and a round that polls one block polls all.
TriedBeforeDropped ==
  [][\A b \in broadcastBlocks \ broadcastBlocks' :
       \/ b \in round
       \/ mutex = "process" /\ round = {}
       \/ \E a \in duplicateChecker' \ duplicateChecker :
            CheckConflict(a, b) /\ Precedes(a, b)]_vars

\* "Polling of blocks to be rolled back" (block_helper.h:405): what is in
\* the rollback queue is polled.
RollbackPolled == \A b \in Blocks :
  b \in rollbackBlocks ~> b \notin rollbackBlocks

\* The pool has stopped for good: its thread waits for the mutex it holds, or
\* the first read of a round has failed.
Stopped == mutex = "stuck" \/ phase = "failed"

\* So much holds under failures: the broadcast queue is polled unless the pool
\* has stopped.  No other way out of a round leaves processing_ set.
PolledUnlessStopped == \A b \in Blocks :
  b \in broadcastBlocks ~> b \notin broadcastBlocks \/ Stopped

\* A pending block is tried once its predecessor is in the database, unless the
\* pool has stopped.
PendingReleased == \A b \in Blocks :
  b \in pendingBlocks /\ Prev[b] \in saved ~> b \in tried \/ Stopped

=============================================================================
