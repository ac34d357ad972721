----------------------------- MODULE BlockFlow -----------------------------
(***************************************************************************)
(* BlockStorage (ca/block_stroage.cpp) at the node that builds a block:    *)
(* the block flow.  The builder sends its block to a few verify nodes.     *)
(* Each either signs it and sends it back, or answers with a BlockStatus   *)
(* that names the transactions it rejects.  A 100 ms timer composes the    *)
(* final block once kConsensus messages are there, broadcasts it, and from *)
(* then on the BlockStatus answers of the broadcast's first-level nodes    *)
(* are counted instead.  When enough nodes of the current phase reject the *)
(* block, a task rebuilds it without the transactions they reject, and the *)
(* rebuilt block enters the same flow under a new hash.                    *)
(*                                                                         *)
(* Three threads of control meet in the two maps _blockCnt and             *)
(* blockStatusMap: the network threads, the timer and the task pool.       *)
(***************************************************************************)
EXTENDS Naturals, Sequences, FiniteSets

CONSTANTS
  Blocks,                 \* block hashes (bounds the number of rebuilds)
  FirstBlock,             \* the block the builder starts with
  Accepted,               \* the blocks handleBlock does not give up on
  Txs,                    \* the transactions it may have
  ContractTxs,            \* those that deploy or call a contract
  VerifyNodes,            \* the nodes the block is sent to (verifyaddrs)
  Level1Nodes,            \* the first-level nodes of the broadcast (castaddrs)
  kConsensus,             \* signatures of a final block, the builder's included
  KReSend_node_threshold, \* rejections that trigger a rebuild before broadcast
  MaxSigns,               \* bound on the messages kept for one block
  Duplicated,             \* whether a signed block may be delivered twice
  Self,                   \* the builder
  None                    \* no entry, no block

ASSUME BlockFlowAssumption ==
  /\ FirstBlock \in Blocks
  /\ Accepted \subseteq Blocks
  /\ ContractTxs \subseteq Txs
  /\ kConsensus \in Nat \ {0, 1}
  /\ KReSend_node_threshold \in Nat \ {0}
  /\ MaxSigns \in Nat
  /\ Duplicated \in BOOLEAN
  /\ None \notin Blocks
  /\ IsFiniteSet(VerifyNodes)
  /\ IsFiniteSet(Level1Nodes)

Nodes == VerifyNodes \union Level1Nodes

VARIABLES
  txs,        \* the transactions of each block ({}: not built)
  stage,      \* how far handleBlock is with each block
  age,        \* time since the block was made, in the classes of TimedOut...
  blockCnt,   \* _blockCnt: the signers of the messages kept (<<>>: no entry)
  composing,  \* the block _BlockCheck has broadcast under _blockMutex
  broadcasts, \* signers of every final block broadcast for each hash
  status,     \* blockStatusMap
  signed,     \* the nodes that sent a signature
  statuses,   \* the BlockStatus messages sent; each may arrive any number of
              \* times, late, or never
  pending,    \* newBuildBlockByBlockStatus tasks in the task pool
  commits,    \* tasks ever committed, by the phase of the entry
  rebuilt     \* the rebuilds done

vars == <<txs, stage, age, blockCnt, composing, broadcasts, status, signed,
          statuses, pending, commits, rebuilt>>

Phases == {"verify", "level1"}

(***************************************************************************)
(* Age of a block: 0 up to 5 s, 1 up to 10 s, 2 below 15 s, 3 from 15 s.   *)
(***************************************************************************)
\* Variants: a block's flow stays open, or its entry never expires.
FlowAlwaysOpen(b) == TRUE
NeverExpired(b) == FALSE

VoteOpen(b) == age[b] = 0
FlowOpen(b) == age[b] <= 1
Expired(b) == age[b] = 3

\* (uint32_t)(count * 0.75)
FailQuota(count) == (3 * count) \div 4

\* A blockStatusMap entry that operator[] or aggregate assignment makes: its
\* counters are zero.  ghost: operator[] made it, so its block is empty and
\* has time 0.
NewEntry(g) ==
  [type |-> "verify", verifyCount |-> 0, level1Count |-> 0, list |-> <<>>,
   verifyNodes |-> {}, level1Nodes |-> {}, ghost |-> g]

Known(b) == status[b] # None

Init ==
  /\ \E T \in SUBSET Txs :
       T # {} /\ txs = [b \in Blocks |-> IF b = FirstBlock THEN T ELSE {}]
  /\ stage = [b \in Blocks |-> IF b = FirstBlock THEN "built" ELSE "none"]
  /\ age = [b \in Blocks |-> 0]
  /\ blockCnt = [b \in Blocks |-> <<>>]
  /\ composing = None
  /\ broadcasts = [b \in Blocks |-> <<>>]
  /\ status = [b \in Blocks |-> None]
  /\ signed = [b \in Blocks |-> {}]
  /\ statuses = {}
  /\ pending = [b \in Blocks |-> 0]
  /\ commits = [b \in Blocks |-> [p \in Phases |-> 0]]
  /\ rebuilt = {}

(***************************************************************************)
(* handleBlock at the builder: keep the block, send it to the verify       *)
(* nodes, and only then open the count of their rejections.                *)
(***************************************************************************)
AddBlock(b) ==
  /\ stage[b] = "built"
  /\ b \in Accepted
  /\ composing = None
  /\ stage' = [stage EXCEPT ![b] = "sent"]
  /\ blockCnt' = [blockCnt EXCEPT ![b] = <<Self>>]
  /\ UNCHANGED <<txs, age, composing, broadcasts, status, signed, statuses,
                 pending, commits, rebuilt>>

\* AddBlockStatus(hash, block, verifyNodes): an entry already there stays.
AddVerifyStatus(b) ==
  /\ stage[b] = "sent"
  /\ stage' = [stage EXCEPT ![b] = "watched"]
  /\ status' = IF Known(b) THEN status
               ELSE [status EXCEPT ![b] =
                      [NewEntry(FALSE) EXCEPT
                         !.verifyCount = KReSend_node_threshold,
                         !.verifyNodes = VerifyNodes]]
  /\ UNCHANGED <<txs, age, blockCnt, composing, broadcasts, signed, statuses,
                 pending, commits, rebuilt>>

(***************************************************************************)
(* The other nodes.  A verify node signs a block or rejects it, not both;  *)
(* a first-level node may reject a block once it has been broadcast.       *)
(***************************************************************************)
Status(b, n, p, R) == [block |-> b, node |-> n, phase |-> p, rejects |-> R]

HasRejected(b, n, p) ==
  \E m \in statuses : m.block = b /\ m.node = n /\ m.phase = p

PeerSigns(b, n) ==
  /\ stage[b] \in {"sent", "watched"}
  /\ n \in VerifyNodes \ signed[b]
  /\ ~HasRejected(b, n, "verify")
  /\ signed' = [signed EXCEPT ![b] = @ \union {n}]
  /\ UNCHANGED <<txs, stage, age, blockCnt, composing, broadcasts, status,
                 statuses, pending, commits, rebuilt>>

PeerRejects(b, n, R) ==
  /\ \/ /\ stage[b] \in {"sent", "watched"}
        /\ n \in VerifyNodes \ signed[b]
        /\ ~HasRejected(b, n, "verify")
        /\ statuses' = statuses \union {Status(b, n, "verify", R)}
     \/ /\ broadcasts[b] # <<>>
        /\ n \in Level1Nodes
        /\ ~HasRejected(b, n, "level1")
        /\ statuses' = statuses \union {Status(b, n, "level1", R)}
  /\ UNCHANGED <<txs, stage, age, blockCnt, composing, broadcasts, status,
                 signed, pending, commits, rebuilt>>

(***************************************************************************)
(* Network threads at the builder.                                         *)
(***************************************************************************)

\* Variant: a late signature makes a new entry.
UpdateBlockAnyway(b, n) ==
  /\ composing = None
  /\ n \in signed[b]
  /\ Duplicated \/ \A i \in DOMAIN blockCnt[b] : blockCnt[b][i] # n
  /\ Len(blockCnt[b]) < MaxSigns
  /\ Len(broadcasts[b]) < 2
  /\ blockCnt' = [blockCnt EXCEPT ![b] = Append(@, n)]
  /\ UNCHANGED <<txs, stage, age, composing, broadcasts, status, signed,
                 statuses, pending, commits, rebuilt>>

\* UpdateBlock: a signed block is kept while the block's entry is there.
\* Nothing compares its signer with those already kept.
UpdateBlock(b, n) ==
  /\ composing = None
  /\ blockCnt[b] # <<>>
  /\ n \in signed[b]
  /\ Duplicated \/ \A i \in DOMAIN blockCnt[b] : blockCnt[b][i] # n
  /\ Len(blockCnt[b]) < MaxSigns
  /\ blockCnt' = [blockCnt EXCEPT ![b] = Append(@, n)]
  /\ UNCHANGED <<txs, stage, age, composing, broadcasts, status, signed,
                 statuses, pending, commits, rebuilt>>

\* Variant: every status from the quorum on commits.
RebuildQuorumOrMore(e) ==
  IF e.type = "verify"
    THEN IF Len(e.list) >= e.verifyCount THEN Len(e.list) ELSE e.verifyCount
    ELSE IF Len(e.list) >= FailQuota(e.level1Count)
           THEN Len(e.list) ELSE FailQuota(e.level1Count)

\* The nodes whose rejection the entry still awaits, and the node is struck
\* off before the remaining checks of CheckData.
Awaited(e) == IF e.type = "verify" THEN e.verifyNodes ELSE e.level1Nodes

StrikeOff(e, n) ==
  IF e.type = "verify" THEN [e EXCEPT !.verifyNodes = @ \ {n}]
                       ELSE [e EXCEPT !.level1Nodes = @ \ {n}]

ListFull(e) ==
  IF e.type = "verify" THEN Len(e.list) > e.verifyCount
                       ELSE 4 * Len(e.list) > 3 * e.level1Count

RebuildQuorum(e) ==
  IF e.type = "verify" THEN e.verifyCount ELSE FailQuota(e.level1Count)

\* AddBlockStatus(blockStatus) when CheckData accepts it.
CountStatus(m) ==
  LET b == m.block
      e == [StrikeOff(status[b], m.node) EXCEPT
              !.list = Append(@, [node |-> m.node, rejects |-> m.rejects])]
      commit == Len(e.list) = RebuildQuorum(e)
  IN
  /\ Known(b)
  /\ m.node \in Awaited(status[b])
  /\ ~ListFull(status[b])
  /\ VoteOpen(b)
  /\ status' = [status EXCEPT ![b] = e]
  /\ pending' = IF commit THEN [pending EXCEPT ![b] = @ + 1] ELSE pending
  /\ commits' = IF commit THEN [commits EXCEPT ![b][e.type] = @ + 1]
                          ELSE commits
  /\ UNCHANGED <<txs, stage, age, blockCnt, composing, broadcasts, signed,
                 statuses, rebuilt>>

\* CheckData fails with -4, -6 or -7, after it has struck the node off.
RefuseStatus(m) ==
  LET b == m.block IN
  /\ Known(b)
  /\ m.node \in Awaited(status[b])
  /\ ListFull(status[b]) \/ ~VoteOpen(b)
  /\ status' = [status EXCEPT ![b] = StrikeOff(@, m.node)]
  /\ UNCHANGED <<txs, stage, age, blockCnt, composing, broadcasts, signed,
                 statuses, pending, commits, rebuilt>>

(***************************************************************************)
(* The timer.  _BlockCheck holds _blockMutex through its loop; what it     *)
(* does for one block concerns no other, so an action is one iteration,    *)
(* cut in two where it sends the broadcast.                                *)
(***************************************************************************)

\* composeEndBlockMessage: the builder's message and kConsensus - 1 of the
\* others, at random; the broadcast may fail.
Compose(b) ==
  /\ composing = None
  /\ Len(blockCnt[b]) >= kConsensus
  /\ FlowOpen(b)
  /\ status' = IF Known(b) THEN status
                           ELSE [status EXCEPT ![b] = NewEntry(FALSE)]
  /\ \/ \E P \in SUBSET (2..Len(blockCnt[b])) :
          /\ Cardinality(P) = kConsensus - 1
          /\ broadcasts' = [broadcasts EXCEPT ![b] =
                              Append(@, {blockCnt[b][i] : i \in P})]
          /\ composing' = b
          /\ UNCHANGED blockCnt
     \/ /\ blockCnt' = [blockCnt EXCEPT ![b] = <<>>]
        /\ UNCHANGED <<broadcasts, composing>>
  /\ UNCHANGED <<txs, stage, age, signed, statuses, pending, commits, rebuilt>>

\* Variant: the list of the verify phase is counted on.
AddLevel1StatusListKept(b) ==
  /\ composing = b
  /\ status' = IF Known(b)
                 THEN [status EXCEPT ![b] =
                        [status[b] EXCEPT
                           !.type = "level1",
                           !.level1Count = Cardinality(Level1Nodes),
                           !.level1Nodes = @ \union Level1Nodes,
                           !.ghost = FALSE]]
                 ELSE status
  /\ blockCnt' = [blockCnt EXCEPT ![b] = <<>>]
  /\ composing' = None
  /\ UNCHANGED <<txs, stage, age, broadcasts, signed, statuses, pending,
                 commits, rebuilt>>

\* AddBlockStatus(hash, block, level1Nodes), then _Remove and the unlock.
AddLevel1Status(b) ==
  /\ composing = b
  /\ status' = IF Known(b)
                 THEN [status EXCEPT ![b] =
                        [status[b] EXCEPT
                           !.type = "level1",
                           !.level1Count = Cardinality(Level1Nodes),
                           !.list = <<>>,
                           !.level1Nodes = @ \union Level1Nodes,
                           !.ghost = FALSE]]
                 ELSE status
  /\ blockCnt' = [blockCnt EXCEPT ![b] = <<>>]
  /\ composing' = None
  /\ UNCHANGED <<txs, stage, age, broadcasts, signed, statuses, pending,
                 commits, rebuilt>>

\* Variant: the time-out does not respect the broadcast in progress.
FlowTimeoutUnlocked(b) ==
  /\ blockCnt[b] # <<>>
  /\ ~FlowOpen(b)
  /\ blockCnt' = [blockCnt EXCEPT ![b] = <<>>]
  /\ UNCHANGED <<txs, stage, age, composing, broadcasts, status, signed,
                 statuses, pending, commits, rebuilt>>

\* The block flow of a block times out.
FlowTimeout(b) ==
  /\ composing = None
  /\ blockCnt[b] # <<>>
  /\ ~FlowOpen(b)
  /\ blockCnt' = [blockCnt EXCEPT ![b] = <<>>]
  /\ UNCHANGED <<txs, stage, age, composing, broadcasts, status, signed,
                 statuses, pending, commits, rebuilt>>

\* checkExpiredDelete, which the same timer callback runs after _BlockCheck.
CheckExpiredDelete ==
  LET old == {b \in Blocks : Known(b) /\ (status[b].ghost \/ Expired(b))} IN
  /\ composing = None
  /\ old # {}
  /\ status' = [b \in Blocks |-> IF b \in old THEN None ELSE status[b]]
  /\ UNCHANGED <<txs, stage, age, blockCnt, composing, broadcasts, signed,
                 statuses, pending, commits, rebuilt>>

(***************************************************************************)
(* The task pool: newBuildBlockByBlockStatus.                              *)
(***************************************************************************)
Votes(e, t) == Cardinality({i \in DOMAIN e.list : t \in e.list[i].rejects})

\* Variant: one rejection is enough.
VotedOutByOne(b) == {t \in txs[b] : Votes(status[b], t) > 0}

VotedOut(b) ==
  LET e == status[b]
      count == IF e.type = "verify" THEN e.verifyCount ELSE e.level1Count
  IN  {t \in txs[b] : Votes(e, t) > 0 /\ Votes(e, t) >= FailQuota(count)}

\* The entry has expired: operator[] makes an empty one in its place.  Or a
\* contract transaction is in the block, or no transaction is left.
RebuildNothing(b) ==
  /\ pending[b] > 0
  /\ pending' = [pending EXCEPT ![b] = @ - 1]
  /\ \/ ~Known(b) /\ status' = [status EXCEPT ![b] = NewEntry(TRUE)]
     \/ /\ Known(b)
        /\ UNCHANGED status
        /\ \/ status[b].ghost
           \/ txs[b] \intersect ContractTxs # {}
           \/ \E late \in SUBSET txs[b] : txs[b] = VotedOut(b) \union late
  /\ UNCHANGED <<txs, stage, age, blockCnt, composing, broadcasts, signed,
                 statuses, commits, rebuilt>>

\* The block without the transactions voted out and those that timed out
\* becomes a new block.  The bound is the number of hashes.
Rebuild(b, new, late) ==
  LET kept == txs[b] \ (VotedOut(b) \union late) IN
  /\ pending[b] > 0
  /\ Known(b) /\ ~status[b].ghost
  /\ txs[b] \intersect ContractTxs = {}
  /\ kept # {}
  /\ stage[new] = "none"
  /\ pending' = [pending EXCEPT ![b] = @ - 1]
  /\ txs' = [txs EXCEPT ![new] = kept]
  /\ stage' = [stage EXCEPT ![new] = "built"]
  /\ rebuilt' = rebuilt \union
       {[from |-> b, to |-> new, phase |-> status[b].type,
         dropped |-> VotedOut(b)]}
  /\ UNCHANGED <<age, blockCnt, composing, broadcasts, status, signed,
                 statuses, commits>>

Tick(b) ==
  /\ stage[b] # "none"
  /\ age[b] < 3
  /\ age' = [age EXCEPT ![b] = @ + 1]
  /\ UNCHANGED <<txs, stage, blockCnt, composing, broadcasts, status, signed,
                 statuses, pending, commits, rebuilt>>

Timer ==
  \/ \E b \in Blocks : Compose(b) \/ AddLevel1Status(b) \/ FlowTimeout(b)
  \/ CheckExpiredDelete

RebuildTask(b) ==
  \/ RebuildNothing(b)
  \/ \E new \in Blocks, late \in SUBSET Txs : Rebuild(b, new, late)

Peers ==
  \E b \in Blocks, n \in Nodes :
    \/ PeerSigns(b, n)
    \/ \E R \in SUBSET txs[b] : PeerRejects(b, n, R)

Network ==
  \/ \E b \in Blocks, n \in VerifyNodes : UpdateBlock(b, n)
  \/ \E m \in statuses : CountStatus(m) \/ RefuseStatus(m)

Next ==
  \/ \E b \in Blocks : AddBlock(b) \/ AddVerifyStatus(b)
  \/ Peers
  \/ Network
  \/ Timer
  \/ \E b \in Blocks : RebuildTask(b)
  \/ \E b \in Blocks : Tick(b)

\* The timer fires every 100 ms and time passes.  Peers, network and task
\* pool promise nothing.
Fairness == WF_vars(Timer) /\ \A b \in Blocks : WF_vars(Tick(b))

Spec == Init /\ [][Next]_vars /\ Fairness

(***************************************************************************)
(* Properties.                                                             *)
(***************************************************************************)
Entry ==
  [type : Phases, verifyCount : Nat, level1Count : Nat,
   list : Seq([node : Nodes, rejects : SUBSET Txs]),
   verifyNodes : SUBSET VerifyNodes, level1Nodes : SUBSET Level1Nodes,
   ghost : BOOLEAN]

\* The value that marks a missing entry is not itself an entry.
ASSUME NoneIsNoEntry == None \notin Entry

\* The type invariant; an entry _BlockCheck works on is one it still keeps.
TypeOK ==
  /\ txs \in [Blocks -> SUBSET Txs]
  /\ stage \in [Blocks -> {"none", "built", "sent", "watched"}]
  /\ age \in [Blocks -> 0..3]
  /\ blockCnt \in [Blocks -> Seq(VerifyNodes \union {Self})]
  /\ composing \in Blocks \union {None}
  /\ composing # None => blockCnt[composing] # <<>>
  /\ broadcasts \in [Blocks -> Seq(SUBSET (VerifyNodes \union {Self}))]
  /\ status \in [Blocks -> Entry \union {None}]
  /\ signed \in [Blocks -> SUBSET VerifyNodes]
  /\ statuses \subseteq [block : Blocks, node : Nodes, phase : Phases,
                         rejects : SUBSET Txs]
  /\ pending \in [Blocks -> Nat]
  /\ commits \in [Blocks -> [Phases -> Nat]]
  /\ rebuilt \subseteq [from : Blocks, to : Blocks, phase : Phases,
                        dropped : SUBSET Txs]

\* A block hash is broadcast at most once: a signature that arrives late, or
\* twice, does not bring the removed _blockCnt entry back.
BroadcastOnce == \A b \in Blocks : Len(broadcasts[b]) <= 1

\* The exact comparison with the quorum, the one vote per node and the single
\* switch of phase commit at most one rebuild task per phase of a block.
OneRebuildPerPhase ==
  \A b \in Blocks, p \in Phases : commits[b][p] <= 1

Rejecters(b, t) ==
  {n \in Nodes : \E m \in statuses : m.block = b /\ m.node = n /\ t \in m.rejects}

\* A transaction that a rebuild votes out was rejected by three quarters,
\* rounded down, of the nodes that phase asks, counting every node once
\* however often its status is delivered.
DropNeedsQuorum ==
  \A r \in rebuilt : \A t \in r.dropped :
    Cardinality(Rejecters(r.from, t)) >=
      FailQuota(IF r.phase = "verify" THEN KReSend_node_threshold
                                      ELSE Cardinality(Level1Nodes))

BroadcastSigners(b) == UNION {broadcasts[b][i] : i \in DOMAIN broadcasts[b]}

HasRejectedAny(b, n) == \E m \in statuses : m.block = b /\ m.node = n

\* The first-level nodes that have rejected b, in either phase: a BlockStatus
\* names none, so that what a verify node among them sent in the verify phase
\* counts for the first level when it arrives after AddLevel1Status.
FirstLevelAgainst(b) == {n \in Level1Nodes : HasRejectedAny(b, n)}

\* Every verify node has rejected b, those whose signatures the broadcast block
\* carries as first-level nodes: their status came in before AddLevel1Status had
\* switched the entry, and completed the verify quorum.
VerifyNodesAgainst(b) ==
  /\ \A n \in VerifyNodes : HasRejectedAny(b, n)
  /\ \A n \in BroadcastSigners(b) : HasRejected(b, n, "level1")

\* A block is both broadcast and rebuilt, so that its surviving transactions
\* are in two blocks of the network, only if three quarters, rounded down, of
\* the first-level nodes rejected it or all its verify nodes did.  What the
\* verify phase has counted is no part of the first.  The second is for a
\* quorum of all verify nodes, as the build's constants give.
RebuiltAfterBroadcast ==
  \A r \in rebuilt :
    broadcasts[r.from] # <<>> =>
      \/ Cardinality(FirstLevelAgainst(r.from)) >= FailQuota(Cardinality(Level1Nodes))
      \/ VerifyNodesAgainst(r.from)

\* Nothing stays in the two maps: every block leaves _blockCnt, and every
\* blockStatusMap entry, the ones operator[] leaves behind included, expires.
FlowReleased == \A b \in Blocks : blockCnt[b] # <<>> ~> blockCnt[b] = <<>>
StatusReleased == \A b \in Blocks : Known(b) ~> ~Known(b)

=============================================================================
