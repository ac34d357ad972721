-------------------------- MODULE BlockFlowProofs --------------------------
(***************************************************************************)
(* Theorems about BlockFlow for every set of blocks, transactions and      *)
(* nodes and every threshold, however often, late or out of order the      *)
(* messages arrive.                                                        *)
(***************************************************************************)
EXTENDS BlockFlow, SequenceTheorems, FiniteSetTheorems, TLAPS

-----------------------------------------------------------------------------
\* The type invariant holds in the initial state and one step keeps it.

Signers == VerifyNodes \union {Self}
Rejection == [node : Nodes, rejects : SUBSET Txs]

LEMMA NewEntryType == ASSUME NEW g \in BOOLEAN PROVE NewEntry(g) \in Entry
<1>1. <<>> \in Seq([node : Nodes, rejects : SUBSET Txs])
  OBVIOUS
<1> QED BY <1>1 DEF NewEntry, Entry, Phases

LEMMA TypeInit == Init => TypeOK
<1>1. <<>> \in Seq(Signers) /\ <<>> \in Seq(SUBSET Signers)
  OBVIOUS
<1> QED BY <1>1, BlockFlowAssumption DEF Init, TypeOK, Phases, Signers

\* A message struck off and counted, or only struck off, leaves an entry.
LEMMA StrikeOffType ==
  ASSUME NEW e \in Entry, NEW n
  PROVE  /\ StrikeOff(e, n) \in Entry
         /\ StrikeOff(e, n).list = e.list
         /\ StrikeOff(e, n).type = e.type
         /\ StrikeOff(e, n).verifyCount = e.verifyCount
         /\ StrikeOff(e, n).level1Count = e.level1Count
BY DEF StrikeOff, Entry

LEMMA CountedType ==
  ASSUME NEW e \in Entry, NEW r \in Rejection
  PROVE  [e EXCEPT !.list = Append(@, r)] \in Entry
<1>1. e.list \in Seq(Rejection)
  BY DEF Entry, Rejection
<1>2. Append(e.list, r) \in Seq(Rejection)
  BY <1>1, AppendProperties
<1> QED BY <1>2 DEF Entry, Rejection

LEMMA QuotaType == ASSUME NEW n \in Nat PROVE FailQuota(n) \in Nat
BY DEF FailQuota

LEMMA TypeStep == TypeOK /\ [Next]_vars => TypeOK'
<1> SUFFICES ASSUME TypeOK, [Next]_vars PROVE TypeOK'
  OBVIOUS
<1> USE BlockFlowAssumption DEF TypeOK, Phases
<1>0. <<>> \in Seq(VerifyNodes \union {Self})
  OBVIOUS
<1>1. ASSUME NEW b \in Blocks, AddBlock(b) PROVE TypeOK'
  <2>1. <<Self>> \in Seq(VerifyNodes \union {Self})
    OBVIOUS
  <2> QED BY <1>1, <2>1 DEF AddBlock
<1>2. ASSUME NEW b \in Blocks, AddVerifyStatus(b) PROVE TypeOK'
  <2>1. [NewEntry(FALSE) EXCEPT !.verifyCount = KReSend_node_threshold,
                                !.verifyNodes = VerifyNodes] \in Entry
    BY NewEntryType DEF Entry
  <2>2. status' \in [Blocks -> Entry \union {None}]
    BY <1>2, <2>1 DEF AddVerifyStatus
  <2> QED BY <1>2, <2>2 DEF AddVerifyStatus
<1>3. ASSUME NEW b \in Blocks, NEW n \in Nodes, PeerSigns(b, n) PROVE TypeOK'
  BY <1>3 DEF PeerSigns
<1>4. ASSUME NEW b \in Blocks, NEW n \in Nodes, NEW R \in SUBSET txs[b],
             PeerRejects(b, n, R)
      PROVE  TypeOK'
  <2>1. R \in SUBSET Txs
    OBVIOUS
  <2>2. statuses' \in SUBSET [block : Blocks, node : Nodes, phase : Phases,
                              rejects : SUBSET Txs]
    BY <1>4, <2>1 DEF PeerRejects, Status
  <2> QED BY <1>4, <2>2 DEF PeerRejects
<1>5. ASSUME NEW b \in Blocks, NEW n \in VerifyNodes, UpdateBlock(b, n) PROVE TypeOK'
  <2>1. Append(blockCnt[b], n) \in Seq(VerifyNodes \union {Self})
    BY AppendProperties
  <2> QED BY <1>5, <2>1 DEF UpdateBlock
<1>6. ASSUME NEW m \in statuses, CountStatus(m) PROVE TypeOK'
  <2>1. m.block \in Blocks /\ status[m.block] \in Entry
        /\ [node |-> m.node, rejects |-> m.rejects] \in Rejection
    BY <1>6 DEF CountStatus, Known, Rejection
  <2>2. [StrikeOff(status[m.block], m.node) EXCEPT
           !.list = Append(@, [node |-> m.node, rejects |-> m.rejects])] \in Entry
    BY <2>1, StrikeOffType, CountedType
  <2>3. status' \in [Blocks -> Entry \union {None}]
    BY <1>6, <2>1, <2>2 DEF CountStatus
  <2>4. pending' \in [Blocks -> Nat]
    <3>1. \/ pending' = pending
          \/ pending' = [pending EXCEPT ![m.block] = @ + 1]
      BY <1>6 DEF CountStatus
    <3>2. CASE pending' = pending
      BY <3>2
    <3>3. CASE pending' = [pending EXCEPT ![m.block] = @ + 1]
      BY <2>1, <3>3
    <3> QED BY <3>1, <3>2, <3>3
  <2>5. commits' \in [Blocks -> [Phases -> Nat]]
    <3> DEFINE e == [StrikeOff(status[m.block], m.node) EXCEPT
                       !.list = Append(@, [node |-> m.node, rejects |-> m.rejects])]
    <3>1. e.type \in Phases
      BY <2>2 DEF Entry
    <3>2. \/ commits' = commits
          \/ commits' = [commits EXCEPT ![m.block][e.type] = @ + 1]
      BY <1>6 DEF CountStatus
    <3> HIDE DEF e
    <3>3. commits[m.block] \in [Phases -> Nat]
      BY <2>1
    <3>4. [commits[m.block] EXCEPT ![e.type] = @ + 1] \in [Phases -> Nat]
      BY <3>1, <3>3
    <3> QED BY <2>1, <3>2, <3>4
  <2> QED BY <1>6, <2>3, <2>4, <2>5 DEF CountStatus
<1>7. ASSUME NEW m \in statuses, RefuseStatus(m) PROVE TypeOK'
  <2>1. m.block \in Blocks /\ status[m.block] \in Entry
    BY <1>7 DEF RefuseStatus, Known
  <2>2. status' \in [Blocks -> Entry \union {None}]
    BY <1>7, <2>1, StrikeOffType DEF RefuseStatus
  <2> QED BY <1>7, <2>2 DEF RefuseStatus
<1>8. ASSUME NEW b \in Blocks, Compose(b) PROVE TypeOK'
  <2>1. status' \in [Blocks -> Entry \union {None}]
    BY <1>8, NewEntryType DEF Compose
  <2>2. \A P \in SUBSET (2..Len(blockCnt[b])) :
          {blockCnt[b][i] : i \in P} \in SUBSET (VerifyNodes \union {Self})
    BY ElementOfSeq, LenProperties
  <2>3. broadcasts' \in [Blocks -> Seq(SUBSET (VerifyNodes \union {Self}))]
    <3>1. CASE UNCHANGED broadcasts
      BY <3>1
    <3>2. CASE \E P \in SUBSET (2..Len(blockCnt[b])) :
                 broadcasts' = [broadcasts EXCEPT ![b] =
                                  Append(@, {blockCnt[b][i] : i \in P})]
      <4>1. PICK P \in SUBSET (2..Len(blockCnt[b])) :
              broadcasts' = [broadcasts EXCEPT ![b] =
                               Append(@, {blockCnt[b][i] : i \in P})]
        BY <3>2
      <4>2. Append(broadcasts[b], {blockCnt[b][i] : i \in P})
              \in Seq(SUBSET (VerifyNodes \union {Self}))
        BY <2>2, AppendProperties
      <4> QED BY <4>1, <4>2
    <3> QED BY <1>8, <3>1, <3>2 DEF Compose
  <2>4. blockCnt' \in [Blocks -> Seq(VerifyNodes \union {Self})]
    BY <1>0, <1>8 DEF Compose
  <2>5. composing' \in Blocks \union {None}
        /\ (composing' # None => blockCnt'[composing'] # <<>>)
    <3>1. Len(blockCnt[b]) >= kConsensus
      BY <1>8 DEF Compose
    <3>2. blockCnt[b] # <<>>
      BY <3>1, EmptySeq
    <3> QED BY <1>8, <3>2 DEF Compose
  <2> QED BY <1>8, <2>1, <2>3, <2>4, <2>5 DEF Compose
<1>9. ASSUME NEW b \in Blocks, AddLevel1Status(b) PROVE TypeOK'
  <2>1. Cardinality(Level1Nodes) \in Nat
    BY FS_CardinalityType
  <2>2. <<>> \in Seq([node : Nodes, rejects : SUBSET Txs])
    OBVIOUS
  <2>3. \A e \in Entry :
          [e EXCEPT !.type = "level1", !.level1Count = Cardinality(Level1Nodes),
                    !.list = <<>>, !.level1Nodes = @ \union Level1Nodes,
                    !.ghost = FALSE] \in Entry
    BY <2>1, <2>2 DEF Entry
  <2>4. status' \in [Blocks -> Entry \union {None}]
    <3>1. status[b] = None \/ status[b] \in Entry
      OBVIOUS
    <3>2. CASE Known(b)
      <4> DEFINE new == [status[b] EXCEPT
                           !.type = "level1", !.level1Count = Cardinality(Level1Nodes),
                           !.list = <<>>, !.level1Nodes = @ \union Level1Nodes,
                           !.ghost = FALSE]
      <4>1. new \in Entry
        BY <2>3, <3>1, <3>2 DEF Known
      <4>2. status' = [status EXCEPT ![b] = new]
        BY <1>9, <3>2 DEF AddLevel1Status
      <4> HIDE DEF new
      <4> QED BY <4>1, <4>2
    <3>3. CASE ~Known(b)
      BY <1>9, <3>3 DEF AddLevel1Status
    <3> QED BY <3>2, <3>3
  <2>5. blockCnt' \in [Blocks -> Seq(VerifyNodes \union {Self})] /\ composing' = None
    BY <1>0, <1>9 DEF AddLevel1Status
  <2> QED BY <1>9, <2>4, <2>5 DEF AddLevel1Status
<1>10. ASSUME NEW b \in Blocks, FlowTimeout(b) PROVE TypeOK'
  <2>1. /\ blockCnt' \in [Blocks -> Seq(VerifyNodes \union {Self})]
        /\ composing = None /\ composing' = None
    BY <1>0, <1>10 DEF FlowTimeout
  <2> QED BY <1>10, <2>1 DEF FlowTimeout
<1>11. ASSUME CheckExpiredDelete PROVE TypeOK'
  <2>1. status' \in [Blocks -> Entry \union {None}]
    BY <1>11 DEF CheckExpiredDelete
  <2> QED BY <1>11, <2>1 DEF CheckExpiredDelete
<1>12. ASSUME NEW b \in Blocks, RebuildNothing(b) PROVE TypeOK'
  <2>1. status' \in [Blocks -> Entry \union {None}]
    BY <1>12, NewEntryType DEF RebuildNothing
  <2>2. pending' \in [Blocks -> Nat]
    BY <1>12 DEF RebuildNothing
  <2> QED BY <1>12, <2>1, <2>2 DEF RebuildNothing
<1>13. ASSUME NEW b \in Blocks, NEW new \in Blocks, NEW late \in SUBSET Txs,
              Rebuild(b, new, late)
       PROVE  TypeOK'
  <2>1. VotedOut(b) \in SUBSET Txs /\ txs[b] \ (VotedOut(b) \union late) \in SUBSET Txs
    BY DEF VotedOut
  <2>2. status[b].type \in Phases
    BY <1>13 DEF Rebuild, Known, Entry
  <2>3. rebuilt' \subseteq [from : Blocks, to : Blocks, phase : Phases,
                            dropped : SUBSET Txs]
    <3> DEFINE q == [from |-> b, to |-> new, phase |-> status[b].type,
                     dropped |-> VotedOut(b)]
    <3>1. q \in [from : Blocks, to : Blocks, phase : Phases, dropped : SUBSET Txs]
      BY <2>1, <2>2
    <3>2. rebuilt' = rebuilt \union {q}
      BY <1>13 DEF Rebuild
    <3> HIDE DEF q
    <3> QED BY <3>1, <3>2
  <2>4. pending' \in [Blocks -> Nat]
    <3>1. pending[b] > 0 /\ pending' = [pending EXCEPT ![b] = pending[b] - 1]
      BY <1>13 DEF Rebuild
    <3>2. pending \in [Blocks -> Nat] /\ pending[b] \in Nat
      OBVIOUS
    <3> HIDE DEF TypeOK
    <3>a. pending[b] > 0 /\ pending[b] \in Nat
      BY <3>1, <3>2
    <3>3. pending[b] - 1 \in Nat
      BY <3>a
    <3> QED BY <3>1, <3>2, <3>3
  <2>5. txs' \in [Blocks -> SUBSET Txs]
    BY <1>13, <2>1 DEF Rebuild
  <2>6. stage' \in [Blocks -> {"none", "built", "sent", "watched"}]
    BY <1>13 DEF Rebuild
  <2> QED BY <1>13, <2>3, <2>4, <2>5, <2>6 DEF Rebuild
<1>14. ASSUME NEW b \in Blocks, Tick(b) PROVE TypeOK'
  <2>1. age' \in [Blocks -> 0..3]
    <3>1. age[b] \in 0..3 /\ age[b] < 3 /\ age' = [age EXCEPT ![b] = age[b] + 1]
      BY <1>14 DEF Tick
    <3>2. age[b] + 1 \in 0..3
      BY <3>1
    <3> QED BY <3>1, <3>2
  <2> QED BY <1>14, <2>1 DEF Tick
<1>15. ASSUME UNCHANGED vars PROVE TypeOK'
  BY <1>15 DEF vars
<1> QED
  BY <1>1, <1>2, <1>3, <1>4, <1>5, <1>6, <1>7, <1>8, <1>9, <1>10, <1>11,
     <1>12, <1>13, <1>14, <1>15 DEF Next, Peers, Network, Timer, RebuildTask

\* Every variable stays in its type, and the block being composed is still in
\* _blockCnt.
THEOREM TypeCorrect == Spec => []TypeOK
BY TypeInit, TypeStep, PTL DEF Spec

-----------------------------------------------------------------------------
\* A hash enters _blockCnt once, when handleBlock takes the block up, and
\* leaves it with its broadcast: nothing brings it back.

OnceOf(b) ==
  /\ Len(broadcasts[b]) <= 1
  /\ stage[b] \in {"none", "built"} => blockCnt[b] = <<>>
  /\ blockCnt[b] # <<>> /\ composing # b => broadcasts[b] = <<>>
  /\ composing = b => broadcasts[b] # <<>>
  /\ broadcasts[b] # <<>> => stage[b] \in {"sent", "watched"}

OnceInv == \A b \in Blocks : OnceOf(b)

LEMMA OnceInit == Init => OnceInv
BY BlockFlowAssumption DEF Init, OnceInv, OnceOf

LEMMA OnceStep == TypeOK /\ OnceInv /\ [Next]_vars => OnceInv'
<1> SUFFICES ASSUME TypeOK, OnceInv, [Next]_vars, NEW x \in Blocks
             PROVE  OnceOf(x)'
  BY DEF OnceInv
<1>0. /\ OnceOf(x)
      /\ stage \in [Blocks -> {"none", "built", "sent", "watched"}]
      /\ broadcasts \in [Blocks -> Seq(SUBSET (VerifyNodes \union {Self}))]
      /\ blockCnt \in [Blocks -> Seq(VerifyNodes \union {Self})]
      /\ None \notin Blocks
  BY BlockFlowAssumption DEF OnceInv, TypeOK
<1>1. ASSUME NEW b \in Blocks, AddBlock(b) PROVE OnceOf(x)'
  BY <1>0, <1>1 DEF AddBlock, OnceOf
<1>2. ASSUME NEW b \in Blocks, AddVerifyStatus(b) PROVE OnceOf(x)'
  BY <1>0, <1>2 DEF AddVerifyStatus, OnceOf
<1>3. ASSUME NEW b \in Blocks, NEW n \in VerifyNodes, UpdateBlock(b, n)
      PROVE  OnceOf(x)'
  BY <1>0, <1>3 DEF UpdateBlock, OnceOf
<1>4. ASSUME NEW b \in Blocks, Compose(b) PROVE OnceOf(x)'
  <2>1. /\ composing = None /\ UNCHANGED stage
        /\ \/ blockCnt' = [blockCnt EXCEPT ![b] = <<>>] /\ UNCHANGED <<broadcasts, composing>>
           \/ /\ composing' = b /\ UNCHANGED blockCnt
              /\ \E S \in SUBSET (VerifyNodes \union {Self}) :
                   broadcasts' = [broadcasts EXCEPT ![b] = Append(@, S)]
    <3>1. \A P \in SUBSET (2..Len(blockCnt[b])) :
            {blockCnt[b][i] : i \in P} \in SUBSET (VerifyNodes \union {Self})
      BY <1>0, ElementOfSeq, LenProperties
    <3> QED BY <1>4, <3>1 DEF Compose
  <2>2. blockCnt[b] # <<>>
    BY <1>4, BlockFlowAssumption, EmptySeq DEF Compose
  <2>3. CASE x # b
    BY <1>0, <2>1, <2>3 DEF OnceOf
  <2>4. CASE x = b /\ UNCHANGED <<broadcasts, composing>>
    BY <1>0, <2>1, <2>4 DEF OnceOf
  <2>5. CASE x = b /\ composing' = b
    <3>1. broadcasts[b] = <<>> /\ stage[b] \in {"sent", "watched"}
      BY <1>0, <2>1, <2>2, <2>5 DEF OnceOf
    <3>2. PICK S \in SUBSET (VerifyNodes \union {Self}) :
            broadcasts' = [broadcasts EXCEPT ![b] = Append(@, S)]
      BY <1>0, <2>1, <2>5
    <3>3. broadcasts'[b] = <<S>>
      BY <1>0, <3>1, <3>2
    <3> QED BY <1>0, <2>1, <2>5, <3>1, <3>3 DEF OnceOf
  <2> QED BY <2>1, <2>3, <2>4, <2>5
<1>5. ASSUME NEW b \in Blocks, AddLevel1Status(b) PROVE OnceOf(x)'
  BY <1>0, <1>5 DEF AddLevel1Status, OnceOf
<1>6. ASSUME NEW b \in Blocks, FlowTimeout(b) PROVE OnceOf(x)'
  BY <1>0, <1>6 DEF FlowTimeout, OnceOf
<1>7. ASSUME NEW b \in Blocks, NEW new \in Blocks, NEW late \in SUBSET Txs,
             Rebuild(b, new, late)
      PROVE  OnceOf(x)'
  BY <1>0, <1>7 DEF Rebuild, OnceOf
<1>8. ASSUME UNCHANGED <<stage, blockCnt, composing, broadcasts>> PROVE OnceOf(x)'
  BY <1>0, <1>8 DEF OnceOf
<1> QED
  BY <1>1, <1>2, <1>3, <1>4, <1>5, <1>6, <1>7, <1>8
     DEF Next, Peers, Network, Timer, RebuildTask, PeerSigns, PeerRejects,
         CountStatus, RefuseStatus, CheckExpiredDelete, RebuildNothing, Tick, vars

\* A block hash is broadcast at most once, however late or often its
\* signatures arrive.
THEOREM BroadcastAtMostOnce == Spec => []BroadcastOnce
<1>1. OnceInv => BroadcastOnce
  BY DEF OnceInv, OnceOf, BroadcastOnce
<1> QED BY <1>1, TypeInit, TypeStep, OnceInit, OnceStep, PTL DEF Spec

-----------------------------------------------------------------------------
\* The list of an entry passes the quorum of a phase once: it only grows while
\* the entry counts that phase, and the entry of a phase is opened once.

VerifyEntry(b) ==
  \/ status[b].verifyCount = 0 /\ status[b].verifyNodes = {}
  \/ /\ status[b].verifyCount = KReSend_node_threshold
     /\ stage[b] = "watched"
     /\ commits[b]["verify"] = 1 => Len(status[b].list) >= KReSend_node_threshold

Level1Entry(b) ==
  /\ broadcasts[b] # <<>> /\ composing # b
  /\ status[b].level1Count = Cardinality(Level1Nodes)
  /\ commits[b]["level1"] = 1 =>
       Len(status[b].list) >= FailQuota(Cardinality(Level1Nodes))

CommitOf(b) ==
  /\ commits[b]["verify"] <= 1 /\ commits[b]["level1"] <= 1
  /\ commits[b]["verify"] = 1 => stage[b] = "watched"
  /\ commits[b]["level1"] = 1 => broadcasts[b] # <<>> /\ composing # b
  /\ Known(b) /\ status[b].type = "verify" => VerifyEntry(b)
  /\ Known(b) /\ status[b].type = "level1" => Level1Entry(b)

CommitInv == \A b \in Blocks : CommitOf(b)

LEMMA CommitInit == Init => CommitInv
BY DEF Init, CommitInv, CommitOf, Phases, Known

LEMMA CommitStep == TypeOK /\ OnceInv /\ CommitInv /\ [Next]_vars => CommitInv'
<1> SUFFICES ASSUME TypeOK, OnceInv, CommitInv, [Next]_vars, NEW x \in Blocks
             PROVE  CommitOf(x)'
  BY DEF CommitInv
<1>0. /\ CommitOf(x) /\ OnceOf(x)
      /\ stage \in [Blocks -> {"none", "built", "sent", "watched"}]
      /\ broadcasts \in [Blocks -> Seq(SUBSET (VerifyNodes \union {Self}))]
      /\ blockCnt \in [Blocks -> Seq(VerifyNodes \union {Self})]
      /\ commits \in [Blocks -> [Phases -> Nat]]
      /\ status \in [Blocks -> Entry \union {None}]
      /\ None \notin Blocks
      /\ Cardinality(Level1Nodes) \in Nat
      /\ KReSend_node_threshold \in Nat \ {0}
  BY BlockFlowAssumption, FS_CardinalityType DEF OnceInv, CommitInv, TypeOK
<1> USE DEF CommitOf, VerifyEntry, Level1Entry, Known
<1>1. ASSUME NEW b \in Blocks, AddBlock(b) PROVE CommitOf(x)'
  BY <1>0, <1>1 DEF AddBlock
<1>2. ASSUME NEW b \in Blocks, AddVerifyStatus(b) PROVE CommitOf(x)'
  <2>1. CASE x # b \/ Known(b)
    BY <1>0, <1>2, <2>1 DEF AddVerifyStatus
  <2>2. CASE x = b /\ ~Known(b)
    <3>1. /\ status'[b].type = "verify" /\ status'[b].list = <<>>
          /\ status'[b].verifyCount = KReSend_node_threshold
      BY <1>0, <1>2, <2>2 DEF AddVerifyStatus, NewEntry
    <3>2. commits'[b]["verify"] # 1
      BY <1>0, <1>2, <2>2 DEF AddVerifyStatus
    <3> QED BY <1>0, <1>2, <2>2, <3>1, <3>2 DEF AddVerifyStatus
  <2> QED BY <2>1, <2>2
<1>3. ASSUME NEW m \in statuses, CountStatus(m) PROVE CommitOf(x)'
  <2> DEFINE b == m.block
             e == [StrikeOff(status[b], m.node) EXCEPT
                     !.list = Append(@, [node |-> m.node, rejects |-> m.rejects])]
  <2>1. CASE x # b
    BY <1>0, <1>3, <2>1, m.block \in Blocks DEF CountStatus, TypeOK
  <2>2. CASE x = b
    <3>1. /\ status[b] \in Entry /\ [node |-> m.node, rejects |-> m.rejects] \in Rejection
      BY <1>0, <1>3, <2>2 DEF CountStatus, TypeOK, Rejection
    <3>2. /\ e.type = status[b].type /\ e.verifyCount = status[b].verifyCount
          /\ e.level1Count = status[b].level1Count
          /\ e.list = Append(status[b].list, [node |-> m.node, rejects |-> m.rejects])
          /\ e.verifyNodes \in SUBSET status[b].verifyNodes
      BY <3>1 DEF StrikeOff, Entry
    <3>3. status[b].list \in Seq(Rejection) /\ status[b].type \in Phases
      BY <3>1 DEF Entry, Rejection
    <3>4. Len(e.list) = Len(status[b].list) + 1 /\ Len(status[b].list) \in Nat
      <4> HIDE DEF e
      <4> QED BY <3>1, <3>2, <3>3, AppendProperties, LenProperties
    <3>5. /\ status'[b] = e /\ UNCHANGED <<stage, composing, broadcasts>>
          /\ m.node \in Awaited(status[b]) /\ Known(b)
          /\ IF Len(e.list) = RebuildQuorum(e)
               THEN commits' = [commits EXCEPT ![b][e.type] = @ + 1]
               ELSE commits' = commits
      BY <1>0, <1>3, <2>2 DEF CountStatus
    <3> HIDE DEF e
    <3>6. CASE status[b].type = "verify"
      <4>1. /\ status[b].verifyCount = KReSend_node_threshold /\ stage[b] = "watched"
            /\ commits[b]["verify"] = 1 => Len(status[b].list) >= KReSend_node_threshold
        BY <1>0, <2>2, <3>5, <3>6 DEF Awaited
      <4>2. RebuildQuorum(e) = KReSend_node_threshold
        BY <3>2, <3>6, <4>1 DEF RebuildQuorum
      <4>3. CASE Len(e.list) = RebuildQuorum(e)
        <5>1. /\ commits'[b]["verify"] = commits[b]["verify"] + 1
              /\ commits'[b]["level1"] = commits[b]["level1"]
          <6>1. commits' = [commits EXCEPT ![b]["verify"] = @ + 1]
            BY <3>2, <3>5, <3>6, <4>3
          <6>2. b \in Blocks /\ commits[b] \in [Phases -> Nat]
            BY <1>0, <2>2
          <6> HIDE DEF b
          <6> QED BY <1>0, <6>1, <6>2 DEF Phases
        <5>2. commits[b]["verify"] \in Nat /\ commits[b]["verify"] # 1
          BY <1>0, <2>2, <3>4, <4>1, <4>2, <4>3 DEF Phases
        <5> QED BY <1>0, <2>2, <3>2, <3>4, <3>5, <3>6, <4>1, <4>2, <4>3, <5>1, <5>2
      <4>4. CASE Len(e.list) # RebuildQuorum(e)
        BY <1>0, <2>2, <3>2, <3>4, <3>5, <3>6, <4>1, <4>4
      <4> QED BY <4>3, <4>4
    <3>7. CASE status[b].type = "level1"
      <4>1. /\ broadcasts[b] # <<>> /\ composing # b
            /\ status[b].level1Count = Cardinality(Level1Nodes)
            /\ commits[b]["level1"] = 1 =>
                 Len(status[b].list) >= FailQuota(Cardinality(Level1Nodes))
        BY <1>0, <2>2, <3>5, <3>7
      <4>2. RebuildQuorum(e) = FailQuota(Cardinality(Level1Nodes))
        BY <3>2, <3>7, <4>1 DEF RebuildQuorum
      <4>3. FailQuota(Cardinality(Level1Nodes)) \in Nat
        BY <1>0, QuotaType
      <4>4. CASE Len(e.list) = RebuildQuorum(e)
        <5>1. /\ commits'[b]["level1"] = commits[b]["level1"] + 1
              /\ commits'[b]["verify"] = commits[b]["verify"]
          <6>1. commits' = [commits EXCEPT ![b]["level1"] = @ + 1]
            BY <3>2, <3>5, <3>7, <4>4
          <6>2. b \in Blocks /\ commits[b] \in [Phases -> Nat]
            BY <1>0, <2>2
          <6> HIDE DEF b
          <6> QED BY <1>0, <6>1, <6>2 DEF Phases
        <5>2. commits[b]["level1"] \in Nat /\ commits[b]["level1"] # 1
          BY <1>0, <2>2, <3>4, <4>1, <4>2, <4>3, <4>4 DEF Phases
        <5> QED BY <1>0, <2>2, <3>2, <3>4, <3>5, <3>7, <4>1, <4>2, <4>3, <4>4, <5>1, <5>2
      <4>5. CASE Len(e.list) # RebuildQuorum(e)
        BY <1>0, <2>2, <3>2, <3>4, <3>5, <3>7, <4>1, <4>3, <4>5
      <4> QED BY <4>4, <4>5
    <3> QED BY <3>3, <3>6, <3>7 DEF Phases
  <2> QED BY <2>1, <2>2
<1>4. ASSUME NEW m \in statuses, RefuseStatus(m) PROVE CommitOf(x)'
  <2>1. m.block \in Blocks /\ status[m.block] \in Entry
    BY <1>0, <1>4 DEF RefuseStatus, TypeOK
  <2>2. /\ status' = [status EXCEPT ![m.block] = StrikeOff(status[m.block], m.node)]
        /\ UNCHANGED <<stage, composing, broadcasts, commits>>
    BY <1>4 DEF RefuseStatus
  <2>3. CASE x # m.block
    BY <1>0, <2>1, <2>2, <2>3
  <2>4. CASE x = m.block
    <3>1. status'[x] = StrikeOff(status[x], m.node)
      BY <1>0, <2>2, <2>4
    <3>2. StrikeOff(status[x], m.node).verifyNodes \in SUBSET status[x].verifyNodes
      BY <2>1, <2>4 DEF StrikeOff, Entry
    <3> QED BY <1>0, <1>4, <2>1, <2>2, <2>4, <3>1, <3>2, StrikeOffType DEF RefuseStatus
  <2> QED BY <2>3, <2>4
<1>5. ASSUME NEW b \in Blocks, Compose(b) PROVE CommitOf(x)'
  <2>1. /\ composing = None /\ UNCHANGED <<stage, commits>>
        /\ status' = IF Known(b) THEN status ELSE [status EXCEPT ![b] = NewEntry(FALSE)]
        /\ \/ UNCHANGED <<broadcasts, composing>>
           \/ /\ composing' = b
              /\ \E S : broadcasts' = [broadcasts EXCEPT ![b] = Append(@, S)]
    BY <1>5 DEF Compose
  <2>2. blockCnt[b] # <<>>
    BY <1>5, BlockFlowAssumption, EmptySeq DEF Compose
  <2>3. /\ NewEntry(FALSE).type = "verify" /\ NewEntry(FALSE).verifyCount = 0
        /\ NewEntry(FALSE).verifyNodes = {}
    BY DEF NewEntry
  <2>4. CASE x # b
    BY <1>0, <2>1, <2>4
  <2>5. CASE x = b
    <3>1. broadcasts[b] = <<>> /\ composing # b
      BY <1>0, <2>1, <2>2, <2>5 DEF OnceOf
    <3> QED BY <1>0, <2>1, <2>3, <2>5, <3>1
  <2> QED BY <2>4, <2>5
<1>6. ASSUME NEW b \in Blocks, AddLevel1Status(b) PROVE CommitOf(x)'
  <2>1. CASE x # b
    BY <1>0, <1>6, <2>1 DEF AddLevel1Status
  <2>2. CASE x = b
    <3>1. broadcasts[b] # <<>> /\ commits[b]["level1"] # 1
      BY <1>0, <1>6, <2>2 DEF AddLevel1Status, OnceOf
    <3>2. /\ composing' = None /\ UNCHANGED <<stage, commits, broadcasts>>
      BY <1>6 DEF AddLevel1Status
    <3>3. CASE Known(b)
      <4>1. status[b] \in Entry
        BY <1>0, <3>3
      <4>2. /\ status'[b].type = "level1"
            /\ status'[b].level1Count = Cardinality(Level1Nodes)
        BY <1>0, <1>6, <3>3, <4>1 DEF AddLevel1Status, Entry
      <4> QED BY <1>0, <2>2, <3>1, <3>2, <4>2
    <3>4. CASE ~Known(b)
      BY <1>0, <1>6, <2>2, <3>1, <3>2, <3>4 DEF AddLevel1Status
    <3> QED BY <3>3, <3>4
  <2> QED BY <2>1, <2>2
<1>7. ASSUME CheckExpiredDelete PROVE CommitOf(x)'
  BY <1>0, <1>7 DEF CheckExpiredDelete
<1>8. ASSUME NEW b \in Blocks, RebuildNothing(b) PROVE CommitOf(x)'
  <2>1. /\ NewEntry(TRUE).type = "verify" /\ NewEntry(TRUE).verifyCount = 0
        /\ NewEntry(TRUE).verifyNodes = {}
    BY DEF NewEntry
  <2>2. /\ UNCHANGED <<stage, composing, broadcasts, commits>>
        /\ status' \in {status, [status EXCEPT ![b] = NewEntry(TRUE)]}
    BY <1>8 DEF RebuildNothing
  <2> QED BY <1>0, <2>1, <2>2
<1>9. ASSUME NEW b \in Blocks, NEW new \in Blocks, NEW late \in SUBSET Txs,
             Rebuild(b, new, late)
      PROVE  CommitOf(x)'
  BY <1>0, <1>9 DEF Rebuild
<1>10. ASSUME UNCHANGED <<stage, status, commits, composing, broadcasts>>
       PROVE  CommitOf(x)'
  BY <1>0, <1>10
<1> QED
  BY <1>1, <1>2, <1>3, <1>4, <1>5, <1>6, <1>7, <1>8, <1>9, <1>10
     DEF Next, Peers, Network, Timer, RebuildTask, PeerSigns, PeerRejects,
         UpdateBlock, FlowTimeout, Tick, vars

\* At most one rebuild task is committed per phase of a block.
THEOREM RebuiltOncePerPhase == Spec => []OneRebuildPerPhase
<1>1. CommitInv => OneRebuildPerPhase
  BY DEF CommitInv, CommitOf, OneRebuildPerPhase, Phases
<1> QED
  BY <1>1, TypeInit, TypeStep, OnceInit, OnceStep, CommitInit, CommitStep, PTL DEF Spec

-----------------------------------------------------------------------------
\* Every element of blockStatusList is a message some node sent, no two are of
\* the same node, and a node in the list is no longer awaited.

Sent(b, r) ==
  \E m \in statuses : m.block = b /\ m.node = r.node /\ m.rejects = r.rejects

ListOf(b) ==
  Known(b) =>
    LET l == status[b].list IN
    /\ \A i \in 1 .. Len(l) : Sent(b, l[i]) /\ l[i].node \notin Awaited(status[b])
    /\ \A i, j \in 1 .. Len(l) : l[i].node = l[j].node => i = j
    /\ status[b].type = "verify" /\ status[b].verifyCount = 0 => l = <<>>

ListInv == \A b \in Blocks : ListOf(b)

LEMMA ListInit == Init => ListInv
BY DEF Init, ListInv, ListOf, Known

\* Only a BlockStatus message adds to the list of an entry: every other step
\* leaves the entry alone, makes one with an empty list or drops it.
LEMMA StatusChange ==
  ASSUME TypeOK, [Next]_vars, NEW x \in Blocks
  PROVE  \/ statuses \subseteq statuses' /\ status'[x] = status[x]
         \/ Known(x)' => status'[x].list = <<>>
         \/ \E m \in statuses : CountStatus(m) \/ RefuseStatus(m)
<1>0. status \in [Blocks -> Entry \union {None}]
  BY DEF TypeOK
<1>1. ASSUME NEW b \in Blocks,
             AddVerifyStatus(b) \/ Compose(b) \/ AddLevel1Status(b) \/ RebuildNothing(b)
      PROVE  UNCHANGED statuses /\ (status'[x] = status[x] \/ status'[x].list = <<>>)
  <2>0. UNCHANGED statuses
    BY <1>1 DEF AddVerifyStatus, Compose, AddLevel1Status, RebuildNothing
  <2> SUFFICES status'[x] = status[x] \/ status'[x].list = <<>>
    BY <2>0
  <2>1. CASE AddVerifyStatus(b)
    <3>1. [NewEntry(FALSE) EXCEPT !.verifyCount = KReSend_node_threshold,
                                  !.verifyNodes = VerifyNodes].list = <<>>
      BY DEF NewEntry
    <3>2. \/ status' = status
          \/ status' = [status EXCEPT ![b] =
                          [NewEntry(FALSE) EXCEPT !.verifyCount = KReSend_node_threshold,
                                                  !.verifyNodes = VerifyNodes]]
      BY <2>1 DEF AddVerifyStatus
    <3> QED BY <1>0, <3>1, <3>2
  <2>2. CASE Compose(b)
    BY <1>0, <2>2 DEF Compose, NewEntry
  <2>3. CASE AddLevel1Status(b) /\ Known(b)
    <3>1. status[b] \in Entry
      BY <1>0, <2>3 DEF Known
    <3>2. [status[b] EXCEPT !.type = "level1",
                            !.level1Count = Cardinality(Level1Nodes),
                            !.list = <<>>,
                            !.level1Nodes = @ \union Level1Nodes,
                            !.ghost = FALSE].list = <<>>
      BY <3>1 DEF Entry
    <3>3. status' = [status EXCEPT ![b] =
                      [status[b] EXCEPT !.type = "level1",
                                        !.level1Count = Cardinality(Level1Nodes),
                                        !.list = <<>>,
                                        !.level1Nodes = @ \union Level1Nodes,
                                        !.ghost = FALSE]]
      BY <2>3 DEF AddLevel1Status
    <3> QED BY <1>0, <3>2, <3>3
  <2>4. CASE AddLevel1Status(b) /\ ~Known(b)
    BY <2>4 DEF AddLevel1Status
  <2>5. CASE RebuildNothing(b)
    BY <1>0, <2>5 DEF RebuildNothing, NewEntry
  <2> QED BY <1>1, <2>1, <2>2, <2>3, <2>4, <2>5
<1>2. ASSUME CheckExpiredDelete
      PROVE  UNCHANGED statuses /\ status'[x] \in {None, status[x]}
  BY <1>2 DEF CheckExpiredDelete
<1> QED
  BY <1>1, <1>2
     DEF Next, Peers, Network, Timer, RebuildTask, AddBlock, PeerSigns,
         PeerRejects, UpdateBlock, FlowTimeout, Rebuild, Tick, vars, Known

LEMMA ListStep == TypeOK /\ CommitInv /\ ListInv /\ [Next]_vars => ListInv'
<1> SUFFICES ASSUME TypeOK, CommitInv, ListInv, [Next]_vars, NEW x \in Blocks
             PROVE  ListOf(x)'
  BY DEF ListInv
<1>0. /\ ListOf(x) /\ CommitOf(x)
      /\ status \in [Blocks -> Entry \union {None}]
      /\ KReSend_node_threshold \in Nat \ {0}
  BY BlockFlowAssumption DEF ListInv, CommitInv, TypeOK
<1>1. ASSUME status'[x] = status[x], statuses \subseteq statuses' PROVE ListOf(x)'
  BY <1>0, <1>1 DEF ListOf, Known, Sent
<1>2. ASSUME Known(x)' => status'[x].list = <<>> PROVE ListOf(x)'
  BY <1>2 DEF ListOf
<1>3. ASSUME NEW m \in statuses, CountStatus(m) PROVE ListOf(x)'
  <2>1. CASE x # m.block
    BY <1>0, <1>1, <1>3, <2>1 DEF CountStatus
  <2>2. CASE x = m.block
    <3> DEFINE r == [node |-> m.node, rejects |-> m.rejects]
               e == [StrikeOff(status[x], m.node) EXCEPT !.list = Append(@, r)]
               l == status[x].list
    <3>1. /\ status[x] \in Entry /\ r \in Rejection /\ Known(x)
          /\ m.node \in Awaited(status[x])
      BY <1>0, <1>3, <2>2 DEF CountStatus, TypeOK, Rejection, Known
    <3>2. /\ e.type = status[x].type /\ e.verifyCount = status[x].verifyCount
          /\ e.list = Append(l, r)
          /\ Awaited(e) = Awaited(status[x]) \ {m.node}
      BY <3>1 DEF StrikeOff, Entry, Awaited
    <3>3. l \in Seq(Rejection)
      BY <3>1 DEF Entry, Rejection
    <3>4. /\ Len(Append(l, r)) = Len(l) + 1 /\ Len(l) \in Nat
          /\ \A i \in 1 .. Len(l) : Append(l, r)[i] = l[i]
          /\ Append(l, r)[Len(l) + 1] = r
      <4> HIDE DEF r, l
      <4> QED BY <3>1, <3>3, AppendProperties, LenProperties
    <3>5. status'[x] = e /\ UNCHANGED statuses
      BY <1>0, <1>3, <2>2 DEF CountStatus
    <3>6. Sent(x, r)
      BY <2>2 DEF Sent
    <3>7. \A i \in 1 .. Len(l) : l[i].node # m.node
      BY <1>0, <3>1 DEF ListOf
    <3>8. ~(status[x].type = "verify" /\ status[x].verifyCount = 0)
      BY <1>0, <3>1 DEF CommitOf, VerifyEntry, Awaited
    <3> HIDE DEF e, l
    <3>9. \A i \in 1 .. Len(l) + 1 :
            /\ i \in 1 .. Len(l) \/ i = Len(l) + 1
            /\ Append(l, r)[i].node = IF i = Len(l) + 1 THEN m.node ELSE l[i].node
            /\ Sent(x, Append(l, r)[i])
            /\ Append(l, r)[i].node \notin Awaited(e)
      <4> SUFFICES ASSUME NEW i \in 1 .. Len(l) + 1
                   PROVE  /\ i \in 1 .. Len(l) \/ i = Len(l) + 1
                          /\ Append(l, r)[i].node = IF i = Len(l) + 1 THEN m.node ELSE l[i].node
                          /\ Sent(x, Append(l, r)[i])
                          /\ Append(l, r)[i].node \notin Awaited(e)
        OBVIOUS
      <4>1. CASE i = Len(l) + 1
        BY <3>2, <3>4, <3>6, <4>1
      <4>2. CASE i \in 1 .. Len(l)
        <5>1. Sent(x, l[i]) /\ l[i].node \notin Awaited(status[x])
          BY <1>0, <3>1, <4>2 DEF ListOf, l
        <5> QED BY <3>2, <3>4, <4>2, <5>1
      <4> QED BY <3>4, <4>1, <4>2
    <3>10. \A i, j \in 1 .. Len(l) : l[i].node = l[j].node => i = j
      BY <1>0, <3>1 DEF ListOf, l
    <3>11. \A i, j \in 1 .. Len(l) + 1 :
             Append(l, r)[i].node = Append(l, r)[j].node => i = j
      BY <3>4, <3>7, <3>9, <3>10 DEF l
    <3>12. \A i \in 1 .. Len(l) + 1 : \E k \in statuses' :
              k.block = x /\ k.node = Append(l, r)[i].node /\ k.rejects = Append(l, r)[i].rejects
      BY <3>5, <3>9 DEF Sent
    <3>13. /\ status'[x].list = Append(l, r) /\ Awaited(status'[x]) = Awaited(e)
           /\ status'[x].type = status[x].type
           /\ status'[x].verifyCount = status[x].verifyCount
      BY <3>2, <3>5
    <3>14. (\A i \in 1 .. Len(status[x].list) :
              /\ Sent(x, status[x].list[i])
              /\ status[x].list[i].node \notin Awaited(status[x]))'
      BY <3>4, <3>9, <3>12, <3>13 DEF Sent
    <3> QED BY <3>4, <3>8, <3>11, <3>13, <3>14 DEF ListOf
  <2> QED BY <2>1, <2>2
<1>4. ASSUME NEW m \in statuses, RefuseStatus(m) PROVE ListOf(x)'
  <2>1. CASE x # m.block
    BY <1>0, <1>1, <1>4, <2>1 DEF RefuseStatus
  <2>2. CASE x = m.block
    <3>1. status[x] \in Entry /\ Known(x)
      BY <1>0, <1>4, <2>2 DEF RefuseStatus, Known
    <3>2. status'[x] = StrikeOff(status[x], m.node) /\ UNCHANGED statuses
      BY <1>0, <1>4, <2>2 DEF RefuseStatus
    <3>3. Awaited(StrikeOff(status[x], m.node)) \in SUBSET Awaited(status[x])
      BY <3>1 DEF Awaited, StrikeOff, Entry
    <3>4. \A r : Sent(x, r) => Sent(x, r)'
      BY <3>2 DEF Sent
    <3> QED BY <1>0, <3>1, <3>2, <3>3, <3>4, StrikeOffType DEF ListOf
  <2> QED BY <2>1, <2>2
<1>5. CASE statuses \subseteq statuses' /\ status'[x] = status[x]
  BY <1>1, <1>5
<1> QED BY <1>2, <1>3, <1>4, <1>5, StatusChange

\* One vote per node: the votes of a list are no more than the nodes that have
\* sent a message rejecting the transaction.
LEMMA VotesAreNodes ==
  ASSUME TypeOK, NEW b \in Blocks, Known(b), ListOf(b), NEW t
  PROVE  /\ Votes(status[b], t) <= Cardinality(Rejecters(b, t))
         /\ Votes(status[b], t) \in Nat
<1> DEFINE l == status[b].list
           D == {i \in DOMAIN l : t \in l[i].rejects}
           f == [i \in D |-> l[i].node]
<1>1. l \in Seq(Rejection) /\ DOMAIN l = 1 .. Len(l) /\ Len(l) \in Nat
  BY LenProperties DEF TypeOK, Known, Entry, Rejection
<1>2. \A i \in D : l[i].node \in Rejecters(b, t)
  <2> SUFFICES ASSUME NEW i \in D PROVE l[i].node \in Rejecters(b, t)
    OBVIOUS
  <2>1. PICK m \in statuses : m.block = b /\ m.node = l[i].node /\ m.rejects = l[i].rejects
    BY <1>1 DEF ListOf, Sent
  <2>2. m.node \in Nodes
    BY DEF TypeOK
  <2> QED BY <2>1, <2>2 DEF Rejecters
<1>3. f \in [D -> Rejecters(b, t)]
  BY <1>2
<1>4. \A i, j \in D : f[i] = f[j] => i = j
  BY <1>1 DEF ListOf
<1>5. f \in Injection(D, Rejecters(b, t))
  <2> HIDE DEF D, f
  <2> QED BY <1>3, <1>4 DEF Injection, IsInjective
<1>6. IsFiniteSet(Nodes)
  BY BlockFlowAssumption, FS_Union DEF Nodes
<1>7. IsFiniteSet(Rejecters(b, t))
  BY <1>6, FS_Subset DEF Rejecters
<1>8. Cardinality(D) <= Cardinality(Rejecters(b, t)) /\ Cardinality(D) \in Nat
  <2> HIDE DEF D, f
  <2> QED BY <1>5, <1>7, FS_Injection, FS_CardinalityType
<1> QED BY <1>8 DEF Votes

LEMMA DropStep ==
  TypeOK /\ CommitInv /\ ListInv /\ DropNeedsQuorum /\ [Next]_vars => DropNeedsQuorum'
<1> SUFFICES ASSUME TypeOK, CommitInv, ListInv, DropNeedsQuorum, [Next]_vars
             PROVE  DropNeedsQuorum'
  OBVIOUS
<1> DEFINE quota(r) == FailQuota(IF r.phase = "verify" THEN KReSend_node_threshold
                                                       ELSE Cardinality(Level1Nodes))
<1>1. statuses \subseteq statuses'
  BY DEF Next, Peers, Network, Timer, RebuildTask, AddBlock, AddVerifyStatus,
         PeerSigns, PeerRejects, UpdateBlock, CountStatus, RefuseStatus, Compose,
         AddLevel1Status, FlowTimeout, CheckExpiredDelete, RebuildNothing,
         Rebuild, Tick, vars
<1>2. ASSUME NEW b, NEW t
      PROVE  Cardinality(Rejecters(b, t)') >= Cardinality(Rejecters(b, t))
             /\ Cardinality(Rejecters(b, t)) \in Nat /\ Cardinality(Rejecters(b, t)') \in Nat
  <2>1. IsFiniteSet(Nodes)
    BY BlockFlowAssumption, FS_Union DEF Nodes
  <2>2. Rejecters(b, t) \in SUBSET Rejecters(b, t)' /\ Rejecters(b, t)' \in SUBSET Nodes
    BY <1>1 DEF Rejecters
  <2> QED BY <2>1, <2>2, FS_Subset, FS_CardinalityType
<1>3. \A r \in rebuilt : \A t \in r.dropped : quota(r) \in Nat
  <2>1. Cardinality(Level1Nodes) \in Nat
    BY BlockFlowAssumption, FS_CardinalityType
  <2> QED BY <2>1, BlockFlowAssumption, QuotaType
<1>4. \A r \in rebuilt : \A t \in r.dropped :
        Cardinality(Rejecters(r.from, t)') >= quota(r)
  BY <1>2, <1>3 DEF DropNeedsQuorum
<1>5. CASE rebuilt' = rebuilt
  BY <1>4, <1>5 DEF DropNeedsQuorum
<1>6. ASSUME NEW b \in Blocks, NEW new \in Blocks, NEW late \in SUBSET Txs,
             Rebuild(b, new, late)
      PROVE  DropNeedsQuorum'
  <2> DEFINE q == [from |-> b, to |-> new, phase |-> status[b].type, dropped |-> VotedOut(b)]
  <2>1. rebuilt' = rebuilt \union {q} /\ Known(b) /\ ListOf(b) /\ CommitOf(b)
    BY <1>6 DEF Rebuild, ListInv, CommitInv
  <2>2. ASSUME NEW t \in VotedOut(b)
        PROVE  Cardinality(Rejecters(b, t)') >= quota(q)
    <3>1. status[b] \in Entry
      BY <2>1 DEF TypeOK, Known
    <3>2. /\ Votes(status[b], t) <= Cardinality(Rejecters(b, t))
          /\ Votes(status[b], t) \in Nat
      BY <2>1, VotesAreNodes
    <3>3. /\ Votes(status[b], t) > 0
          /\ Votes(status[b], t) >= FailQuota(IF status[b].type = "verify"
                                                THEN status[b].verifyCount
                                                ELSE status[b].level1Count)
      BY DEF VotedOut
    <3>4. Votes(status[b], t) >= quota(q)
      <4>1. CASE status[b].type = "level1"
        BY <2>1, <3>3, <4>1 DEF CommitOf, Level1Entry
      <4>2. CASE status[b].type = "verify" /\ status[b].verifyCount = KReSend_node_threshold
        BY <3>3, <4>2
      <4>3. CASE status[b].type = "verify" /\ status[b].verifyCount = 0
        <5>1. status[b].list = <<>>
          BY <2>1, <4>3 DEF ListOf
        <5>2. {i \in DOMAIN status[b].list : t \in status[b].list[i].rejects} = {}
          BY <5>1
        <5>3. Votes(status[b], t) = 0
          BY <5>2, FS_EmptySet DEF Votes
        <5> QED BY <3>3, <5>3
      <4>4. status[b].type \in {"verify", "level1"}
        BY <3>1 DEF Entry, Phases
      <4> QED BY <2>1, <4>1, <4>2, <4>3, <4>4 DEF CommitOf, VerifyEntry
    <3>5. quota(q) \in Nat
      <4>1. Cardinality(Level1Nodes) \in Nat
        BY BlockFlowAssumption, FS_CardinalityType
      <4> QED BY <4>1, BlockFlowAssumption, QuotaType
    <3> HIDE DEF quota, q
    <3> QED BY <1>2, <3>2, <3>4, <3>5
  <2> QED BY <1>4, <2>1, <2>2 DEF DropNeedsQuorum
<1> QED
  BY <1>5, <1>6
     DEF Next, Peers, Network, Timer, RebuildTask, AddBlock, AddVerifyStatus,
         PeerSigns, PeerRejects, UpdateBlock, CountStatus, RefuseStatus, Compose,
         AddLevel1Status, FlowTimeout, CheckExpiredDelete, RebuildNothing, Tick, vars

\* A transaction is voted out of a block only by three quarters, rounded down,
\* of the nodes its phase asks, each counted once.
THEOREM VotedOutByQuorum == Spec => []DropNeedsQuorum
<1>1. Init => DropNeedsQuorum
  BY DEF Init, DropNeedsQuorum
<1> QED
  BY <1>1, TypeInit, TypeStep, OnceInit, OnceStep, CommitInit, CommitStep,
     ListInit, ListStep, DropStep, PTL DEF Spec

-----------------------------------------------------------------------------
(***************************************************************************)
(* RebuiltAfterBroadcast.  Three invariants, next to those above:          *)
(*   - the signers kept for a block, and hence those it is broadcast with, *)
(*     are nodes that have signed it, and a node that signed a block has   *)
(*     sent no rejection of the verify phase;                              *)
(*   - the list of an entry holds only nodes that its phase asks: verify   *)
(*     nodes, or first-level nodes once AddLevel1Status has emptied it;    *)
(*   - a task is only ever committed for a block that every verify node    *)
(*     has rejected in some phase, or that as many first-level nodes have  *)
(*     rejected as the first-level quorum asks.                            *)
(* The third takes a quorum of all verify nodes, which is the build's.     *)
(***************************************************************************)
QuorumOfAll == Cardinality(VerifyNodes) <= KReSend_node_threshold

SignersOf(b) ==
  /\ \A n \in signed[b] : ~HasRejected(b, n, "verify")
  /\ \A i \in 2 .. Len(blockCnt[b]) : blockCnt[b][i] \in signed[b]
  /\ BroadcastSigners(b) \subseteq signed[b]

SignersInv == \A b \in Blocks : SignersOf(b)

NodesOf(p) == IF p = "verify" THEN VerifyNodes ELSE Level1Nodes

PhaseListOf(b) ==
  Known(b) =>
    \A i \in 1 .. Len(status[b].list) :
      status[b].list[i].node \in NodesOf(status[b].type)

PhaseListInv == \A b \in Blocks : PhaseListOf(b)

\* The nodes that phase p asks and that have rejected b.
Against(b, p) == {n \in NodesOf(p) : HasRejectedAny(b, n)}

VerifyLost(b) == \A n \in VerifyNodes : HasRejectedAny(b, n)
Level1Lost(b) ==
  Cardinality(FirstLevelAgainst(b)) >= FailQuota(Cardinality(Level1Nodes))

Committed(b, p) == commits[b][p] >= 1

TaskOf(b) ==
  /\ Committed(b, "verify") => VerifyLost(b)
  /\ Committed(b, "level1") => Level1Lost(b)
  /\ pending[b] > 0 => Committed(b, "verify") \/ Committed(b, "level1")

TaskInv ==
  /\ \A b \in Blocks : TaskOf(b)
  /\ \A r \in rebuilt : Committed(r.from, "verify") \/ Committed(r.from, "level1")

LEMMA SignersInit == Init => SignersInv
BY DEF Init, SignersInv, SignersOf, BroadcastSigners, HasRejected

LEMMA SignersStep == TypeOK /\ SignersInv /\ [Next]_vars => SignersInv'
<1> SUFFICES ASSUME TypeOK, SignersInv, [Next]_vars, NEW x \in Blocks
             PROVE  SignersOf(x)'
  BY DEF SignersInv
<1>0. /\ SignersOf(x)
      /\ blockCnt \in [Blocks -> Seq(Signers)]
      /\ broadcasts \in [Blocks -> Seq(SUBSET Signers)]
      /\ signed \in [Blocks -> SUBSET VerifyNodes]
  BY DEF SignersInv, TypeOK, Signers
<1>1. ASSUME UNCHANGED <<signed, statuses, broadcasts>>,
             blockCnt'[x] \in {blockCnt[x], <<>>, <<Self>>}
      PROVE  SignersOf(x)'
  <2>1. Len(<<>>) = 0 /\ Len(<<Self>>) = 1
    OBVIOUS
  <2>2. \A i \in 2 .. Len(blockCnt'[x]) : blockCnt'[x][i] \in signed[x]
    <3>1. CASE blockCnt'[x] = blockCnt[x]
      BY <1>0, <3>1 DEF SignersOf
    <3>2. CASE blockCnt'[x] \in {<<>>, <<Self>>}
      BY <2>1, <3>2
    <3> QED BY <1>1, <3>1, <3>2
  <2> QED BY <1>0, <1>1, <2>2 DEF SignersOf, BroadcastSigners, HasRejected
<1>2. ASSUME NEW b \in Blocks, AddBlock(b) PROVE SignersOf(x)'
  BY <1>0, <1>1, <1>2 DEF AddBlock
<1>3. ASSUME NEW b \in Blocks, AddLevel1Status(b) \/ FlowTimeout(b) PROVE SignersOf(x)'
  BY <1>0, <1>1, <1>3 DEF AddLevel1Status, FlowTimeout
<1>4. ASSUME NEW b \in Blocks, NEW n \in Nodes, PeerSigns(b, n) PROVE SignersOf(x)'
  BY <1>0, <1>4 DEF PeerSigns, SignersOf, BroadcastSigners, HasRejected
<1>5. ASSUME NEW b \in Blocks, NEW n \in Nodes, NEW R \in SUBSET txs[b],
             PeerRejects(b, n, R)
      PROVE  SignersOf(x)'
  <2>1. UNCHANGED <<signed, blockCnt, broadcasts>>
    BY <1>5 DEF PeerRejects
  <2>2. \/ statuses' = statuses \union {Status(b, n, "verify", R)} /\ n \notin signed[b]
        \/ statuses' = statuses \union {Status(b, n, "level1", R)}
    BY <1>5 DEF PeerRejects
  <2>3. \A n1 \in signed[x] : ~HasRejected(x, n1, "verify")'
    BY <1>0, <2>1, <2>2 DEF SignersOf, HasRejected, Status
  <2> QED BY <1>0, <2>1, <2>3 DEF SignersOf, BroadcastSigners
<1>6. ASSUME NEW b \in Blocks, NEW n \in VerifyNodes, UpdateBlock(b, n) PROVE SignersOf(x)'
  <2>1. UNCHANGED <<signed, statuses, broadcasts>>
    BY <1>6 DEF UpdateBlock
  <2>2. CASE x # b
    BY <1>0, <1>1, <1>6, <2>1, <2>2 DEF UpdateBlock
  <2>3. CASE x = b
    <3>1. blockCnt'[b] = Append(blockCnt[b], n) /\ n \in signed[b]
      BY <1>0, <1>6 DEF UpdateBlock
    <3>2. /\ Len(Append(blockCnt[b], n)) = Len(blockCnt[b]) + 1
          /\ Append(blockCnt[b], n)[Len(blockCnt[b]) + 1] = n
          /\ \A i \in 1 .. Len(blockCnt[b]) : Append(blockCnt[b], n)[i] = blockCnt[b][i]
          /\ Len(blockCnt[b]) \in Nat
      BY <1>0, AppendProperties, LenProperties DEF Signers
    <3>3. \A i \in 2 .. Len(blockCnt'[b]) : blockCnt'[b][i] \in signed[b]
      <4> SUFFICES ASSUME NEW i \in 2 .. Len(blockCnt[b]) + 1
                   PROVE  Append(blockCnt[b], n)[i] \in signed[b]
        BY <3>1, <3>2
      <4>1. CASE i = Len(blockCnt[b]) + 1
        BY <3>1, <3>2, <4>1
      <4>2. CASE i # Len(blockCnt[b]) + 1
        BY <1>0, <2>3, <3>2, <4>2 DEF SignersOf
      <4> QED BY <4>1, <4>2
    <3> QED BY <1>0, <2>1, <2>3, <3>3 DEF SignersOf, BroadcastSigners, HasRejected
  <2> QED BY <2>2, <2>3
<1>7. ASSUME NEW b \in Blocks, Compose(b) PROVE SignersOf(x)'
  <2>1. UNCHANGED <<signed, statuses>> /\ blockCnt'[x] \in {blockCnt[x], <<>>}
    BY <1>0, <1>7 DEF Compose
  <2>2. CASE x # b \/ UNCHANGED broadcasts
    <3>1. broadcasts'[x] = broadcasts[x]
      BY <1>0, <1>7, <2>2 DEF Compose
    <3>2. \A i \in 2 .. Len(blockCnt'[x]) : blockCnt'[x][i] \in signed[x]
      BY <1>0, <2>1 DEF SignersOf
    <3> QED BY <1>0, <2>1, <3>1, <3>2 DEF SignersOf, BroadcastSigners, HasRejected
  <2>3. CASE x = b /\ ~UNCHANGED broadcasts
    <3>1. PICK P \in SUBSET (2 .. Len(blockCnt[b])) :
            broadcasts' = [broadcasts EXCEPT ![b] = Append(@, {blockCnt[b][i] : i \in P})]
      BY <1>7, <2>3 DEF Compose
    <3> DEFINE S == {blockCnt[b][i] : i \in P}
    <3>2. S \subseteq signed[b]
      BY <1>0, <2>3 DEF SignersOf
    <3> HIDE DEF S
    <3>3. broadcasts'[b] = Append(broadcasts[b], S) /\ broadcasts[b] \in Seq(SUBSET Signers)
      BY <1>0, <3>1 DEF S
    <3>4. S \in SUBSET Signers
      BY <1>0, <3>2 DEF Signers
    <3>5. \A i \in DOMAIN broadcasts'[b] : broadcasts'[b][i] \subseteq signed[b]
      <4>1. /\ DOMAIN Append(broadcasts[b], S) = 1 .. Len(broadcasts[b]) + 1
            /\ Append(broadcasts[b], S)[Len(broadcasts[b]) + 1] = S
            /\ \A i \in 1 .. Len(broadcasts[b]) :
                 Append(broadcasts[b], S)[i] = broadcasts[b][i]
            /\ Len(broadcasts[b]) \in Nat /\ DOMAIN broadcasts[b] = 1 .. Len(broadcasts[b])
        BY <3>3, <3>4, AppendProperties, LenProperties
      <4> SUFFICES ASSUME NEW i \in 1 .. Len(broadcasts[b]) + 1
                   PROVE  Append(broadcasts[b], S)[i] \subseteq signed[b]
        BY <3>3, <4>1
      <4>2. CASE i = Len(broadcasts[b]) + 1
        BY <3>2, <4>1, <4>2
      <4>3. CASE i \in 1 .. Len(broadcasts[b])
        BY <1>0, <2>3, <4>1, <4>3 DEF SignersOf, BroadcastSigners
      <4> QED BY <4>1, <4>2, <4>3
    <3>6. \A i \in 2 .. Len(blockCnt'[x]) : blockCnt'[x][i] \in signed[x]
      BY <1>0, <2>1 DEF SignersOf
    <3>7. BroadcastSigners(x)' \subseteq signed'[x]
      BY <2>1, <2>3, <3>5 DEF BroadcastSigners
    <3> QED BY <1>0, <2>1, <3>6, <3>7 DEF SignersOf, HasRejected
  <2> QED BY <2>2, <2>3
<1>8. ASSUME UNCHANGED <<signed, statuses, broadcasts, blockCnt>> PROVE SignersOf(x)'
  BY <1>1, <1>8
<1> QED
  BY <1>2, <1>3, <1>4, <1>5, <1>6, <1>7, <1>8
     DEF Next, Peers, Network, Timer, RebuildTask, AddVerifyStatus, CountStatus,
         RefuseStatus, CheckExpiredDelete, RebuildNothing, Rebuild, Tick, vars

LEMMA PhaseListInit == Init => PhaseListInv
BY DEF Init, PhaseListInv, PhaseListOf, Known

LEMMA PhaseListStep == TypeOK /\ PhaseListInv /\ [Next]_vars => PhaseListInv'
<1> SUFFICES ASSUME TypeOK, PhaseListInv, [Next]_vars, NEW x \in Blocks
             PROVE  PhaseListOf(x)'
  BY DEF PhaseListInv
<1>0. PhaseListOf(x) /\ status \in [Blocks -> Entry \union {None}]
  BY DEF PhaseListInv, TypeOK
<1>1. CASE status'[x] = status[x]
  BY <1>0, <1>1 DEF PhaseListOf, Known
<1>2. CASE Known(x)' => status'[x].list = <<>>
  BY <1>2 DEF PhaseListOf
<1>3. ASSUME NEW m \in statuses, CountStatus(m) PROVE PhaseListOf(x)'
  <2>1. CASE x # m.block
    BY <1>0, <1>1, <1>3, <2>1 DEF CountStatus
  <2>2. CASE x = m.block
    <3> DEFINE r == [node |-> m.node, rejects |-> m.rejects]
               e == [StrikeOff(status[x], m.node) EXCEPT !.list = Append(@, r)]
               l == status[x].list
    <3>1. /\ status[x] \in Entry /\ r \in Rejection /\ Known(x)
          /\ m.node \in Awaited(status[x])
      BY <1>0, <1>3, <2>2 DEF CountStatus, TypeOK, Rejection, Known
    <3>2. status'[x] = e /\ e.type = status[x].type /\ e.list = Append(l, r)
      BY <1>0, <1>3, <2>2, <3>1 DEF CountStatus, StrikeOff, Entry
    <3>3. l \in Seq(Rejection)
      BY <3>1 DEF Entry, Rejection
    <3>4. m.node \in NodesOf(status[x].type)
      BY <3>1 DEF Awaited, Entry, Phases, NodesOf
    <3>5. r.node = m.node
      OBVIOUS
    <3> HIDE DEF r, e, l
    <3>6. /\ Len(Append(l, r)) = Len(l) + 1 /\ Len(l) \in Nat
          /\ \A i \in 1 .. Len(l) : Append(l, r)[i] = l[i]
          /\ Append(l, r)[Len(l) + 1] = r
      BY <3>1, <3>3, AppendProperties, LenProperties
    <3>7. \A i \in 1 .. Len(l) : l[i].node \in NodesOf(status[x].type)
      BY <1>0, <3>1 DEF PhaseListOf, l
    <3>8. ASSUME NEW i \in 1 .. Len(l) + 1
          PROVE  Append(l, r)[i].node \in NodesOf(status[x].type)
      <4>1. CASE i = Len(l) + 1
        BY <3>4, <3>5, <3>6, <4>1
      <4>2. CASE i \in 1 .. Len(l)
        BY <3>6, <3>7, <4>2
      <4> QED BY <3>6, <4>1, <4>2
    <3> QED BY <3>2, <3>6, <3>8 DEF PhaseListOf
  <2> QED BY <2>1, <2>2
<1>4. ASSUME NEW m \in statuses, RefuseStatus(m) PROVE PhaseListOf(x)'
  <2>1. CASE x # m.block
    BY <1>0, <1>1, <1>4, <2>1 DEF RefuseStatus
  <2>2. CASE x = m.block
    <3>1. /\ status[x] \in Entry /\ Known(x)
          /\ status'[x] = StrikeOff(status[x], m.node)
      BY <1>0, <1>4, <2>2 DEF RefuseStatus, Known
    <3> QED BY <1>0, <3>1, StrikeOffType DEF PhaseListOf
  <2> QED BY <2>1, <2>2
<1> QED BY <1>1, <1>2, <1>3, <1>4, StatusChange

\* The nodes in the list of an entry are as many as its elements, its phase
\* asks each of them and each has rejected the block: when they are verify
\* nodes and as many as the verify nodes, every verify node has.
CountsNodes(b) ==
  TypeOK /\ Known(b) /\ ListOf(b) /\ PhaseListOf(b) =>
    /\ status[b].type = "level1" =>
         Len(status[b].list) <= Cardinality(FirstLevelAgainst(b))
    /\ /\ status[b].type = "verify"
       /\ Cardinality(VerifyNodes) <= Len(status[b].list)
       => VerifyLost(b)

LEMMA NodesOfFinite ==
  ASSUME NEW b, NEW p
  PROVE  /\ IsFiniteSet(NodesOf(p)) /\ IsFiniteSet(Against(b, p))
         /\ Cardinality(NodesOf(p)) \in Nat /\ Cardinality(Against(b, p)) \in Nat
<1>1. IsFiniteSet(NodesOf(p))
  BY BlockFlowAssumption DEF NodesOf
<1>2. Against(b, p) \in SUBSET NodesOf(p)
  BY DEF Against
<1> QED BY <1>1, <1>2, FS_Subset, FS_CardinalityType

LEMMA ListCountsNodes == \A b \in Blocks : CountsNodes(b)
<1> SUFFICES ASSUME NEW b \in Blocks, TypeOK, Known(b), ListOf(b), PhaseListOf(b)
             PROVE  /\ status[b].type = "level1" =>
                         Len(status[b].list) <= Cardinality(FirstLevelAgainst(b))
                    /\ /\ status[b].type = "verify"
                       /\ Cardinality(VerifyNodes) <= Len(status[b].list)
                       => VerifyLost(b)
  BY DEF CountsNodes
<1> DEFINE l == status[b].list
           D == 1 .. Len(l)
           f == [i \in D |-> l[i].node]
           A == Against(b, status[b].type)
           N == NodesOf(status[b].type)
<1>1. l \in Seq(Rejection) /\ Len(l) \in Nat
  BY LenProperties DEF TypeOK, Known, Entry, Rejection
<1>2. \A i \in D : l[i].node \in A
  <2> SUFFICES ASSUME NEW i \in D PROVE l[i].node \in A
    OBVIOUS
  <2>1. PICK m \in statuses : m.block = b /\ m.node = l[i].node
    BY DEF ListOf, Sent
  <2>2. l[i].node \in N
    BY DEF PhaseListOf
  <2> QED BY <2>1, <2>2 DEF Against, HasRejectedAny
<1>3. \A i, j \in D : l[i].node = l[j].node => i = j
  BY DEF ListOf
<1>4. /\ IsFiniteSet(A) /\ Cardinality(A) \in Nat
      /\ IsFiniteSet(N) /\ Cardinality(N) \in Nat
  BY NodesOfFinite
<1>5. IsFiniteSet(D) /\ Cardinality(D) = Len(l)
  <2> HIDE DEF l
  <2> QED BY <1>1, FS_Interval
<1>a. A \in SUBSET N
  BY DEF Against
<1> HIDE DEF l, D, A, N
<1>6. Len(l) <= Cardinality(A)
  <2>1. f \in Injection(D, A)
    BY <1>2, <1>3 DEF Injection, IsInjective
  <2> HIDE DEF f
  <2> QED BY <1>4, <1>5, <2>1, FS_Injection
<1>7. ASSUME status[b].type = "verify", Cardinality(VerifyNodes) <= Len(l)
      PROVE  VerifyLost(b)
  <2>1. N = VerifyNodes
    BY <1>7 DEF N, NodesOf
  <2>2. Cardinality(A) <= Cardinality(N) /\ (Cardinality(A) = Cardinality(N) => A = N)
    BY <1>4, <1>a, FS_Subset
  <2>3. A = VerifyNodes
    BY <1>1, <1>4, <1>6, <1>7, <2>1, <2>2
  <2> QED BY <2>3 DEF VerifyLost, A, Against
<1>8. status[b].type = "level1" => A = FirstLevelAgainst(b)
  BY DEF A, Against, NodesOf, FirstLevelAgainst
<1> QED BY <1>6, <1>7, <1>8 DEF l

LEMMA TaskInit == Init => TaskInv
BY DEF Init, TaskInv, TaskOf, Committed, Phases

LEMMA TaskStep ==
  ASSUME QuorumOfAll, TypeOK, CommitInv, ListInv', PhaseListInv', TypeOK', TaskInv,
         \A b \in Blocks : CountsNodes(b)', [Next]_vars
  PROVE  TaskInv'
<1> USE DEF TypeOK, Phases
<1>1. statuses \subseteq statuses'
  BY DEF Next, Peers, Network, Timer, RebuildTask, AddBlock, AddVerifyStatus,
         PeerSigns, PeerRejects, UpdateBlock, CountStatus, RefuseStatus, Compose,
         AddLevel1Status, FlowTimeout, CheckExpiredDelete, RebuildNothing,
         Rebuild, Tick, vars
<1>2. \A b \in Blocks : VerifyLost(b) => VerifyLost(b)'
  BY <1>1 DEF VerifyLost, HasRejectedAny
<1>3. ASSUME NEW b \in Blocks, Level1Lost(b) PROVE Level1Lost(b)'
  <2>1. IsFiniteSet(Level1Nodes)
    BY BlockFlowAssumption
  <2>2. /\ FirstLevelAgainst(b) \in SUBSET FirstLevelAgainst(b)'
        /\ FirstLevelAgainst(b)' \in SUBSET Level1Nodes
    BY <1>1 DEF FirstLevelAgainst, HasRejectedAny
  <2>3. /\ Cardinality(FirstLevelAgainst(b)) <= Cardinality(FirstLevelAgainst(b)')
        /\ Cardinality(FirstLevelAgainst(b)) \in Nat
        /\ Cardinality(FirstLevelAgainst(b)') \in Nat
    BY <2>1, <2>2, FS_Subset, FS_CardinalityType
  <2>4. FailQuota(Cardinality(Level1Nodes)) \in Nat
    BY <2>1, FS_CardinalityType, QuotaType
  <2> QED BY <1>3, <2>3, <2>4 DEF Level1Lost
\* A step that commits nothing and opens no task.
<1>4. ASSUME UNCHANGED commits,
             \A b \in Blocks : pending'[b] > 0 => pending[b] > 0,
             \A r \in rebuilt' \ rebuilt : r.from \in Blocks /\ pending[r.from] > 0
      PROVE  TaskInv'
  BY <1>2, <1>3, <1>4 DEF TaskInv, TaskOf, Committed
<1>5. ASSUME NEW m \in statuses, CountStatus(m) PROVE TaskInv'
  <2> DEFINE b == m.block
             e == [StrikeOff(status[b], m.node) EXCEPT
                     !.list = Append(@, [node |-> m.node, rejects |-> m.rejects])]
  <2>0. b \in Blocks /\ Known(b) /\ status[b] \in Entry
    BY <1>5 DEF CountStatus, Known
  <2>1. /\ UNCHANGED rebuilt /\ status'[b] = e
        /\ m.node \in Awaited(status[b])
        /\ IF Len(e.list) = RebuildQuorum(e)
             THEN /\ pending' = [pending EXCEPT ![b] = @ + 1]
                  /\ commits' = [commits EXCEPT ![b][e.type] = @ + 1]
             ELSE UNCHANGED <<pending, commits>>
    BY <1>5, <2>0 DEF CountStatus
  <2>2. /\ e.type = status[b].type /\ e.verifyCount = status[b].verifyCount
        /\ e.level1Count = status[b].level1Count
    BY <2>0 DEF StrikeOff, Entry
  <2> HIDE DEF b, e
  <2>a. CommitOf(b) /\ Known(b)' /\ ListOf(b)' /\ PhaseListOf(b)' /\ CountsNodes(b)'
    <3>1. e # None
      <4>1. status'[b] \in Entry \union {None} /\ e \in Entry
        <5>1. [node |-> m.node, rejects |-> m.rejects] \in Rejection
          BY DEF Rejection
        <5> QED BY <2>0, <2>1, <5>1, StrikeOffType, CountedType DEF e
      <4> QED BY <4>1, NoneIsNoEntry
    <3> QED BY <2>0, <2>1, <3>1 DEF CommitInv, ListInv, PhaseListInv, Known
  <2>3. CASE Len(e.list) # RebuildQuorum(e)
    BY <1>4, <2>1, <2>3
  <2>4. CASE Len(e.list) = RebuildQuorum(e)
    <3>1. e.type \in Phases /\ commits[b] \in [Phases -> Nat]
      BY <2>0, <2>2 DEF Entry
    <3>2. ASSUME NEW x \in Blocks, NEW p \in Phases
          PROVE  /\ commits'[x][p] = IF x = b /\ p = e.type THEN commits[x][p] + 1
                                                            ELSE commits[x][p]
                 /\ commits[x][p] \in Nat
      <4>1. commits'[b] = [commits[b] EXCEPT ![e.type] = @ + 1]
        BY <2>0, <2>1, <2>4
      <4>2. CASE x # b
        <5>1. commits'[x] = commits[x] /\ commits[x] \in [Phases -> Nat]
          BY <2>0, <2>1, <2>4, <4>2
        <5> HIDE DEF TypeOK, Phases
        <5> QED BY <4>2, <5>1
      <4>3. CASE x = b
        <5> HIDE DEF TypeOK, Phases
        <5> QED BY <3>1, <4>1, <4>3
      <4> QED BY <4>2, <4>3
    <3>3. \A x \in Blocks, p \in Phases :
            /\ Committed(x, p) => Committed(x, p)'
            /\ Committed(x, p)' => Committed(x, p) \/ (x = b /\ p = e.type)
      <4> HIDE DEF TypeOK, Phases
      <4> QED BY <3>2 DEF Committed
    <3>4. \A p \in Phases : p = e.type => Committed(b, p)'
      <4>1. commits'[b][e.type] = commits[b][e.type] + 1 /\ commits[b][e.type] \in Nat
        <5> HIDE DEF TypeOK, Phases
        <5> QED BY <2>0, <3>1, <3>2
      <4> HIDE DEF TypeOK, Phases
      <4> QED BY <4>1 DEF Committed
    <3>5. /\ status'[b].type = "level1" =>
               Len(status'[b].list) <= Cardinality(FirstLevelAgainst(b)')
          /\ /\ status'[b].type = "verify"
             /\ Cardinality(VerifyNodes) <= Len(status'[b].list)
             => VerifyLost(b)'
      BY <2>a DEF CountsNodes
    <3>6. e.type = "verify" => VerifyLost(b)'
      <4>1. e.type = "verify" => e.verifyCount = KReSend_node_threshold
        BY <2>0, <2>1, <2>2, <2>a DEF CommitOf, VerifyEntry, Awaited
      <4> QED BY <2>1, <2>4, <3>5, <4>1 DEF RebuildQuorum, QuorumOfAll
    <3>7. e.type = "level1" => Level1Lost(b)'
      <4>1. e.type = "level1" => e.level1Count = Cardinality(Level1Nodes)
        BY <2>0, <2>2, <2>a DEF CommitOf, Level1Entry
      <4>2. e.type = "level1" =>
              FailQuota(Cardinality(Level1Nodes)) <= Cardinality(FirstLevelAgainst(b)')
        BY <2>1, <2>4, <3>5, <4>1 DEF RebuildQuorum
      <4>3. /\ FailQuota(Cardinality(Level1Nodes)) \in Nat
            /\ Cardinality(FirstLevelAgainst(b)') \in Nat
        <5>1. IsFiniteSet(Level1Nodes)
          BY BlockFlowAssumption
        <5>2. FirstLevelAgainst(b)' \in SUBSET Level1Nodes
          BY DEF FirstLevelAgainst
        <5> QED BY <5>1, <5>2, FS_Subset, FS_CardinalityType, QuotaType
      <4> QED BY <4>2, <4>3 DEF Level1Lost
    <3>8. ASSUME NEW x \in Blocks PROVE TaskOf(x)'
      <4>1. TaskOf(x)
        BY DEF TaskInv
      <4>2. /\ Committed(x, "verify")' => VerifyLost(x)'
            /\ Committed(x, "level1")' => Level1Lost(x)'
        BY <1>2, <1>3, <3>3, <3>6, <3>7, <4>1 DEF TaskOf
      <4>3. pending'[x] > 0 => Committed(x, "verify")' \/ Committed(x, "level1")'
        <5>1. CASE x = b
          BY <3>1, <3>4, <5>1
        <5>2. CASE x # b
          <6>1. pending'[x] = pending[x]
            BY <2>0, <2>1, <2>4, <5>2
          <6> QED BY <3>3, <4>1, <6>1 DEF TaskOf
        <5> QED BY <5>1, <5>2
      <4> QED BY <4>2, <4>3 DEF TaskOf
    <3>9. \A r \in rebuilt' : Committed(r.from, "verify")' \/ Committed(r.from, "level1")'
      BY <2>1, <3>3 DEF TaskInv
    <3> QED BY <3>8, <3>9 DEF TaskInv
  <2> QED BY <2>3, <2>4
<1>6. ASSUME NEW b \in Blocks, RebuildNothing(b) PROVE TaskInv'
  BY <1>4, <1>6 DEF RebuildNothing
<1>7. ASSUME NEW b \in Blocks, NEW new \in Blocks, NEW late \in SUBSET Txs,
             Rebuild(b, new, late)
      PROVE  TaskInv'
  BY <1>4, <1>7 DEF Rebuild
<1>8. ASSUME UNCHANGED <<commits, pending, rebuilt>> PROVE TaskInv'
  BY <1>4, <1>8
<1> QED
  BY <1>5, <1>6, <1>7, <1>8
     DEF Next, Peers, Network, Timer, RebuildTask, AddBlock, AddVerifyStatus,
         PeerSigns, PeerRejects, UpdateBlock, RefuseStatus, Compose,
         AddLevel1Status, FlowTimeout, CheckExpiredDelete, Tick, vars

\* A block that was broadcast is rebuilt only if three quarters, rounded down,
\* of the first-level nodes rejected it, or if every verify node did, those it
\* was broadcast with after they had signed it, as first-level nodes: a task
\* takes a full quorum of the nodes its phase asks, and the list starts again
\* from nothing when the block is broadcast.
THEOREM BroadcastThenRebuilt ==
  ASSUME QuorumOfAll
  PROVE  Spec => []RebuiltAfterBroadcast
<1> DEFINE Inv == /\ TypeOK /\ OnceInv /\ CommitInv /\ ListInv /\ SignersInv
                  /\ PhaseListInv /\ TaskInv
<1>1. Init => Inv
  BY TypeInit, OnceInit, CommitInit, ListInit, SignersInit, PhaseListInit, TaskInit
<1>2. Inv /\ [Next]_vars => Inv'
  <2>1. (\A b \in Blocks : CountsNodes(b))'
    BY ListCountsNodes, PTL
  <2> QED
    BY <2>1, TypeStep, OnceStep, CommitStep, ListStep, SignersStep,
       PhaseListStep, TaskStep
<1>3. Inv => RebuiltAfterBroadcast
  <2> SUFFICES ASSUME Inv, NEW r \in rebuilt, ~Level1Lost(r.from)
               PROVE  VerifyNodesAgainst(r.from)
    BY DEF RebuiltAfterBroadcast, Level1Lost
  <2>1. r.from \in Blocks
    BY DEF TypeOK
  <2>2. VerifyLost(r.from) /\ SignersOf(r.from)
    BY <2>1 DEF TaskInv, TaskOf, SignersInv
  <2>3. ASSUME NEW n \in BroadcastSigners(r.from)
        PROVE  HasRejected(r.from, n, "level1")
    <3>1. n \in VerifyNodes
      BY <2>1, <2>2 DEF SignersOf, TypeOK
    <3>2. PICK m \in statuses : m.block = r.from /\ m.node = n
      BY <2>2, <3>1 DEF VerifyLost, HasRejectedAny
    <3>3. m.phase # "verify"
      BY <2>2, <3>2 DEF SignersOf, HasRejected
    <3> QED BY <3>2, <3>3 DEF TypeOK, Phases, HasRejected
  <2> QED BY <2>2, <2>3 DEF VerifyNodesAgainst, VerifyLost
<1> QED BY <1>1, <1>2, <1>3, PTL DEF Spec

=============================================================================
