----------------------- MODULE ContractPackingProofs -----------------------
(***************************************************************************)
(* Theorems about ContractPacking for every set of transactions, every     *)
(* load and every relation of transactions to contracts.                   *)
(*                                                                         *)
(* The argument: the executions somebody waits for are those of the call   *)
(* under way, one for each group, and each has recorded the part of its    *)
(* group that is behind it.  Unless the groups overlap, nobody else        *)
(* records a transaction of theirs but an execution that was abandoned,    *)
(* whose records are marked late: so that when all of them have ended, the *)
(* records of a group that no failure took out of the block are those of   *)
(* its execution, which ran it alone and in the order of the hashes.       *)
(***************************************************************************)
EXTENDS ContractPacking, SequenceTheorems, FiniteSetTheorems, WellFoundedInduction, TLAPS

-----------------------------------------------------------------------------
\* The least and the greatest of a set of transactions.

LEMMA LeastIsIn ==
  ASSUME NEW S, S \subseteq Nat, S # {}
  PROVE  Least(S) \in S /\ \A u \in S : Least(S) <= u
<1> DEFINE R == OpToRel(<, Nat)
<1>1. IsWellFoundedOn(R, Nat)
  BY NatLessThanWellFounded
<1>2. PICK x \in S : \A y \in S : ~ (<<y, x>> \in R)
  <2> HIDE DEF R
  <2> QED BY <1>1, WFMin
<1>3. ASSUME NEW y \in S PROVE x <= y
  <2>1. x \in Nat /\ y \in Nat
    OBVIOUS
  <2>2. <<y, x>> \in Nat \X Nat => ~ (y < x)
    BY <1>2 DEF OpToRel
  <2> QED BY <2>1, <2>2
<1> QED BY <1>3 DEF Least

LEMMA GreatestIsIn ==
  ASSUME NEW S, S \subseteq Nat, S # {}, NEW b \in Nat, \A u \in S : u <= b
  PROVE  Greatest(S) \in S /\ \A u \in S : u <= Greatest(S)
<1> DEFINE D == {b - u : u \in S}
<1>1. D \subseteq Nat /\ D # {}
  <2>1. \A u \in S : b - u \in Nat
    OBVIOUS
  <2> QED BY <2>1
<1>2. Least(D) \in D /\ \A d \in D : Least(D) <= d
  <2> HIDE DEF D
  <2> QED BY <1>1, LeastIsIn
<1>3. PICK x \in S : Least(D) = b - x
  BY <1>2
<1>4. ASSUME NEW u \in S PROVE u <= x
  <2>1. b - x <= b - u
    BY <1>2, <1>3
  <2>2. b \in Int /\ x \in Int /\ u \in Int
    OBVIOUS
  <2> QED BY <2>1, <2>2
<1> QED BY <1>4 DEF Greatest

\* Sets of transactions are sets of numbers, none of them zero.
LEMMA TxsAreNumbers == Txs \subseteq Nat /\ 0 \notin Txs
BY ContractPackingAssumption

-----------------------------------------------------------------------------
\* What the operators on the groups and on the queue return.

LEMMA JoinGrows ==
  ASSUME NEW B, NEW gs \in Seq(SUBSET B), NEW keys \in SUBSET B
  PROVE  /\ Join(gs, keys) \in Seq(SUBSET B)
         /\ DOMAIN gs \subseteq DOMAIN Join(gs, keys)
         /\ \A i \in DOMAIN gs : gs[i] \subseteq Join(gs, keys)[i]
         /\ \E i \in DOMAIN Join(gs, keys) : keys \subseteq Join(gs, keys)[i]
<1> DEFINE meets == {i \in DOMAIN gs : gs[i] \cap keys # {}}
           first == CHOOSE i \in meets : \A j \in meets : i <= j
<1>1. CASE meets = {}
  <2>1. Join(gs, keys) = Append(gs, keys)
    BY <1>1 DEF Join
  <2> QED BY <2>1
<1>2. CASE meets # {}
  <2>1. first \in meets
    <3>1. meets \subseteq Nat
      OBVIOUS
    <3>2. first = Least(meets)
      BY DEF Least
    <3> HIDE DEF meets, first
    <3> QED BY <3>1, <3>2, <1>2, LeastIsIn
  <2>2. Join(gs, keys) = [gs EXCEPT ![first] = @ \union keys]
    BY <1>2 DEF Join
  <2> HIDE DEF first
  <2> QED BY <2>1, <2>2
<1> QED BY <1>1, <1>2

\* The tasks of the executions whose ids differ in their groups.
LEMMA TasksType ==
  ASSUME NEW ids \in SUBSET Ids, IsFiniteSet(ids), NEW q \in Tasks(ids)
  PROVE  /\ q \in Seq([kind : {"run"}, what : ids])
         /\ \A j, k \in DOMAIN q : j # k => q[j].what # q[k].what
<1>1. Cardinality(ids) \in Nat
  BY FS_CardinalityType
<1>2. q \in [1 .. Cardinality(ids) -> [kind : {"run"}, what : ids]]
  BY DEF Tasks
<1>3. \A j, k \in DOMAIN q : j < k => q[j].what[3] < q[k].what[3]
  BY DEF Tasks
<1>4. ASSUME NEW j \in DOMAIN q, NEW k \in DOMAIN q, j # k PROVE q[j].what # q[k].what
  <2>1. j \in Int /\ k \in Int
    BY <1>1, <1>2
  <2>2. j < k \/ k < j
    BY <2>1, <1>4
  <2>3. q[j].what[3] \in Nat /\ q[k].what[3] \in Nat
    BY <1>2 DEF Ids
  <2>4. q[j].what[3] # q[k].what[3]
    BY <2>2, <2>3, <1>3
  <2> QED BY <2>4
<1>5. q \in Seq([kind : {"run"}, what : ids])
  <2> DEFINE n == Cardinality(ids)
             S == [kind : {"run"}, what : ids]
  <2> HIDE DEF n, S
  <2>1. n \in Nat /\ q \in [1 .. n -> S]
    BY <1>1, <1>2 DEF n, S
  <2>2. q \in Seq(S)
    BY <2>1
  <2> QED BY <2>2 DEF S
<1> QED BY <1>4, <1>5

-----------------------------------------------------------------------------
\* The inductive invariant.

Grouping == {m \in Msgs : stage[m] = "grouping"}
Running == {m \in Msgs : stage[m] \in {"verifying", "executing"}}
Busy == Grouping \union Running

\* One message at a time is handled, and its call is for the first of its
\* batches.
HoldInv ==
  /\ \A a, b \in Holding : a = b
  /\ \A m \in Busy : todo[m] # <<>>

\* What the call under way has verified is in the cache.
CallInv ==
  /\ Busy = {} => groups = <<>> /\ \A t \in Txs : verdict[t] = "none"
  /\ Busy # {} =>
       /\ cache = batch.old \union {t \in Txs : verdict[t] = "ok"}
       /\ \A t \in Txs : verdict[t] # "none" <=> t \in batch.txs
       /\ \A c \in Contracts : batch.latest[c] = -1 => latest[c] = -1
  /\ \A m \in Msgs : stage[m] = "executing" => \A t \in batch.txs : verdict[t] # "pending"

\* A transaction that has been visited, and has not failed, is in a group with
\* all that share a contract with it and have not failed either.
GroupInv ==
  /\ \A i \in DOMAIN groups : groups[i] \subseteq batch.txs
  /\ unseen \subseteq batch.txs
  /\ Grouping = {} => unseen = {}
  /\ \A t \in batch.txs \ (unseen \union Failed) :
       \E i \in DOMAIN groups : CommonKeys(batch.txs, t) \ Failed \subseteq groups[i]

\* The groups of a call whose executions have begun.
RunningInv ==
  /\ Running # {} => batch.alone \subseteq DOMAIN groups
  /\ \A i \in DOMAIN groups : Running # {} /\ i \in batch.alone => \E t \in Txs : groups[i] = {t}
  /\ Running # {} /\ ~batch.twice =>
       \A i, j \in DOMAIN groups : i # j => groups[i] \cap groups[j] = {}
  /\ \A m \in Msgs : stage[m] = "executing" =>
       \A i \in DOMAIN groups \ batch.alone : groups[i] \cap Failed = {}

\* An execution has recorded the lesser part of its group, each transaction on
\* top of those of them that share a contract with it.
InOrder(run) ==
  /\ \A u \in DOMAIN run.rests : u \in run.rests[u] /\ run.rests[u] \subseteq DOMAIN run.rests
  /\ \A u, v \in DOMAIN run.rests : u < v /\ Share(u, v) => u \in run.rests[v]
  /\ \A u \in DOMAIN run.rests, v \in run.left : u < v
  /\ run.state = "running" => run.left # {}

OrderInv == \A id \in DOMAIN runs : InOrder(runs[id])

\* The ids of the calls and attempts to come are free.
IdInv ==
  \A id \in DOMAIN runs :
    /\ id[2] >= Len(todo[id[1]])
    /\ id[2] = Len(todo[id[1]]) => stage[id[1]] \in {"verifying", "executing"}
    /\ id[2] = Len(todo[id[1]]) /\ stage[id[1]] = "verifying" => id[4] = 1

\* The handler waits for one execution of each group.
WantedInv ==
  /\ \A id \in DOMAIN runs : runs[id].wanted =>
       /\ id[1] \in Running /\ id[2] = Len(todo[id[1]]) /\ id[3] \in DOMAIN groups
       /\ runs[id].left \union DOMAIN runs[id].rests = groups[id[3]]
  /\ \A a, b \in DOMAIN runs : runs[a].wanted /\ runs[b].wanted /\ a[3] = b[3] => a = b
  /\ Running # {} =>
       \A i \in DOMAIN groups : \E id \in DOMAIN runs : runs[id].wanted /\ id[3] = i

\* What is in the queue is there once, and has not been started.
QueueInv ==
  /\ \A k \in DOMAIN queue :
       /\ queue[k].kind = "run" => runs[queue[k].what].state = "queued"
       /\ queue[k].kind = "msg" => stage[queue[k].what] = "queued"
  /\ \A j, k \in DOMAIN queue : queue[j] = queue[k] => j = k

\* The record of u is that of run, which it followed inside, or else u followed
\* what was stored.
RecordedIn(records, before, now, run, u) ==
  /\ u \in DOMAIN records
  /\ \/ records[u].late
     \/ /\ records[u].rests = run.rests[u]
        /\ \A c \in Calls[u] : \/ records[u].pre[c] \in DOMAIN run.rests
                               \/ records[u].pre[c] = before[c]
                               \/ now # before

\* Groups that do not overlap keep each other's records.
RecordInv ==
  Running # {} /\ ~batch.twice =>
    \A id \in DOMAIN runs : runs[id].wanted =>
      \A u \in DOMAIN runs[id].rests :
        verdict[u] = "failed" \/ RecordedIn(info, batch.latest, latest, runs[id], u)

IInv ==
  /\ TypeOK /\ HoldInv /\ CallInv /\ GroupInv /\ RunningInv
  /\ OrderInv /\ IdInv /\ WantedInv /\ QueueInv /\ RecordInv

-----------------------------------------------------------------------------
\* What an execution is when it is made and after each of its turns.

LEMMA NewRunShape ==
  ASSUME NEW txs \in SUBSET Txs, NEW pool \in {"tx", "block"}, pool = "block" => txs # {}
  PROVE  /\ NewRun(txs, pool) \in Runs
         /\ InOrder(NewRun(txs, pool))
         /\ NewRun(txs, pool).left = txs
         /\ DOMAIN NewRun(txs, pool).rests = {}
         /\ NewRun(txs, pool).wanted = TRUE
         /\ NewRun(txs, pool).pool = pool
         /\ pool = "tx" => NewRun(txs, pool).state = "queued"
<1> DEFINE run == NewRun(txs, pool)
<1>1. /\ run.left = txs /\ run.rests = <<>> /\ run.wanted = TRUE /\ run.pool = pool
      /\ run.state = IF pool = "tx" THEN "queued" ELSE "running"
  BY DEF NewRun
<1>2. DOMAIN <<>> = {} /\ <<>> \in [{} -> SUBSET Txs]
  OBVIOUS
<1>3. <<>> \in UNION {[S -> SUBSET Txs] : S \in SUBSET Txs}
  <2>1. {} \in SUBSET Txs
    OBVIOUS
  <2> QED BY <1>2, <2>1
<1>4. run \in Runs
  BY <1>3 DEF NewRun, Runs
<1>5. InOrder(run)
  <2> HIDE DEF run
  <2> QED BY <1>1, <1>2 DEF InOrder
<1> QED BY <1>1, <1>2, <1>4, <1>5

\* One turn: the record of the least transaction left, on top of every one
\* behind it that shares a contract with it.
LEMMA TurnShape ==
  ASSUME NEW run \in Runs, InOrder(run), run.state = "running", latest \in [Contracts -> {0, -1}]
  PROVE  /\ Turn(run) \in run.left /\ Turn(run) \in Txs
         /\ Turn(run) \notin DOMAIN run.rests
         /\ Follows(run) \in [Calls[Turn(run)] -> Txs \union {0, -1}]
         /\ \A c \in Calls[Turn(run)] : Follows(run)[c] \in DOMAIN run.rests \union {latest[c]}
         /\ RestsOn(run) \subseteq DOMAIN run.rests \union {Turn(run)}
         /\ After(run) \in Runs
         /\ InOrder(After(run))
         /\ After(run).left = run.left \ {Turn(run)}
         /\ DOMAIN After(run).rests = DOMAIN run.rests \union {Turn(run)}
         /\ \A u \in DOMAIN run.rests : After(run).rests[u] = run.rests[u]
         /\ After(run).rests[Turn(run)] = RestsOn(run)
         /\ After(run).wanted = run.wanted
         /\ After(run).state # "queued"
<1> DEFINE t == Turn(run)
           D == DOMAIN run.rests
           f == Follows(run)
           before(c) == {u \in D : c \in Calls[u]}
<1> USE TxsAreNumbers
<1>1. /\ run.left \in SUBSET Txs /\ D \in SUBSET Txs
      /\ run.rests \in [D -> SUBSET Txs]
  BY DEF Runs
<1>2. /\ \A u \in D : u \in run.rests[u] /\ run.rests[u] \subseteq D
      /\ \A u, v \in D : u < v /\ Share(u, v) => u \in run.rests[v]
      /\ \A u \in D, v \in run.left : u < v
      /\ run.left # {}
  BY DEF InOrder
<1>3. t \in run.left /\ \A u \in run.left : t <= u
  <2>1. run.left \subseteq Nat
    BY <1>1
  <2> QED BY <2>1, <1>2, LeastIsIn DEF Turn
<1>4. t \in Txs /\ t \in Nat /\ t \notin D /\ \A u \in D : u < t /\ u \in Nat
  <2>1. t \in Txs /\ t \in Nat /\ D \subseteq Nat
    BY <1>1, <1>3
  <2>2. \A u \in D : u < t
    BY <1>2, <1>3
  <2> QED BY <2>1, <2>2
<1>5. ASSUME NEW c \in Contracts, before(c) # {}
      PROVE  /\ Greatest(before(c)) \in before(c)
             /\ \A u \in before(c) : u <= Greatest(before(c))
  <2>1. before(c) \subseteq Nat /\ \A u \in before(c) : u <= t
    BY <1>4
  <2> HIDE DEF before, t
  <2> QED BY <1>4, <1>5, <2>1, GreatestIsIn
<1>6. Calls[t] \subseteq Contracts
  BY <1>4, ContractPackingAssumption
<1>7. \A c \in Calls[t] :
        f[c] = IF before(c) = {} THEN latest[c] ELSE Greatest(before(c))
  BY DEF Follows, PreHash
<1>8. ASSUME NEW c \in Calls[t]
      PROVE  /\ f[c] \in D \union {latest[c]}
             /\ f[c] \in Txs \union {0, -1}
  <2>1. c \in Contracts /\ latest[c] \in {0, -1}
    BY <1>6
  <2> HIDE DEF f, t
  <2>2. CASE before(c) = {}
    BY <2>1, <2>2, <1>7
  <2>3. CASE before(c) # {}
    BY <2>1, <2>3, <1>7, <1>5, <1>1
  <2> QED BY <2>2, <2>3
<1>9. f \in [Calls[t] -> Txs \union {0, -1}]
  <2>1. f = [c \in Calls[t] |-> f[c]]
    BY DEF Follows
  <2> HIDE DEF f, t
  <2> QED BY <2>1, <1>8
<1>10. RestsOn(run) \subseteq D \union {t} /\ t \in RestsOn(run)
  <2>1. \A u \in Range(f) \cap D : run.rests[u] \subseteq D
    BY <1>2
  <2> QED BY <2>1 DEF RestsOn
<1>11. ASSUME NEW u \in D, Share(u, t) PROVE u \in RestsOn(run)
  <2>1. PICK c \in Calls[u] \cap Calls[t] : TRUE
    BY <1>11 DEF Share
  <2>2. u \in before(c) /\ c \in Contracts
    BY <2>1, <1>6
  <2> DEFINE g == Greatest(before(c))
  <2>3. f[c] = g /\ g \in D /\ c \in Calls[g] /\ u <= g
    <3> HIDE DEF g, f, t
    <3>1. f[c] = g
      BY <2>1, <2>2, <1>7 DEF g
    <3> QED BY <3>1, <2>2, <1>5 DEF g
  <2>4. u \in run.rests[g]
    <3> HIDE DEF g
    <3>1. u \in Nat /\ g \in Nat
      BY <2>3, <1>4
    <3>2. CASE u = g
      BY <3>2, <1>2
    <3>3. CASE u < g
      <4>1. Share(u, g)
        BY <2>1, <2>3 DEF Share
      <4> QED BY <4>1, <3>3, <2>3, <1>2
    <3> QED BY <3>1, <3>2, <3>3, <2>3
  <2>5. g \in Range(f)
    <3>1. DOMAIN f = Calls[t]
      BY DEF Follows
    <3> HIDE DEF g, f, t
    <3> QED BY <3>1, <2>1, <2>3 DEF Range
  <2> QED BY <2>3, <2>4, <2>5 DEF RestsOn
<1> DEFINE a == After(run)
           add == [u \in {t} |-> RestsOn(run)]
<1>12. /\ a.left = run.left \ {t}
       /\ a.rests = With(run.rests, add)
       /\ a.state = IF run.left = {t} THEN "ended" ELSE "running"
       /\ a.wanted = run.wanted
       /\ a.pool = run.pool
       /\ a = [left |-> a.left, rests |-> a.rests, pool |-> a.pool, wanted |-> a.wanted, state |-> a.state]
  <2> DEFINE Rests == UNION {[S -> SUBSET Txs] : S \in SUBSET Txs}
  <2> HIDE DEF Rests
  <2>1. run \in [left : SUBSET Txs, rests : Rests, pool : {"tx", "block"}, wanted : BOOLEAN,
                 state : {"queued", "running", "ended"}]
    BY DEF Runs, Rests
  <2> HIDE DEF t, add
  <2>2. a = [run EXCEPT !.left = run.left \ {t}, !.rests = With(run.rests, add),
                        !.state = IF run.left = {t} THEN "ended" ELSE "running"]
    BY <2>1 DEF After, t, add
  <2> HIDE DEF a
  <2> QED BY <2>1, <2>2
<1>13. /\ DOMAIN a.rests = D \union {t}
       /\ \A u \in D : a.rests[u] = run.rests[u]
       /\ a.rests[t] = RestsOn(run)
       /\ a.rests = [u \in D \union {t} |-> a.rests[u]]
  <2> HIDE DEF a, t
  <2> QED BY <1>12, <1>4 DEF With
<1>14. a.rests \in [D \union {t} -> SUBSET Txs]
  <2>1. \A u \in D \union {t} : a.rests[u] \in SUBSET Txs
    <3>1. \A u \in D : a.rests[u] \in SUBSET Txs
      <4>1. \A u \in D : run.rests[u] \in SUBSET Txs
        BY <1>1
      <4> HIDE DEF a, t
      <4> QED BY <4>1, <1>13
    <3>2. a.rests[t] \in SUBSET Txs
      <4> HIDE DEF a, t
      <4> QED BY <1>1, <1>4, <1>10, <1>13
    <3> HIDE DEF a, t
    <3> QED BY <3>1, <3>2
  <2> HIDE DEF a, t
  <2> QED BY <2>1, <1>13
<1>15. a \in Runs
  <2>1. D \union {t} \in SUBSET Txs
    BY <1>1, <1>4
  <2>2. a.rests \in UNION {[S -> SUBSET Txs] : S \in SUBSET Txs}
    <3> HIDE DEF a, t
    <3> QED BY <2>1, <1>14
  <2>3. run.pool \in {"tx", "block"} /\ run.wanted \in BOOLEAN
    BY DEF Runs
  <2> HIDE DEF a, t
  <2> QED BY <1>1, <1>12, <2>2, <2>3 DEF Runs
<1>16. InOrder(a)
  <2>1. \A u \in D \union {t} : u \in a.rests[u] /\ a.rests[u] \subseteq D \union {t}
    <3>1. \A u \in D : u \in a.rests[u] /\ a.rests[u] \subseteq D
      <4> HIDE DEF a, t
      <4> QED BY <1>2, <1>13
    <3>2. t \in a.rests[t] /\ a.rests[t] \subseteq D \union {t}
      <4> HIDE DEF a, t
      <4> QED BY <1>10, <1>13
    <3> HIDE DEF a, t
    <3> QED BY <3>1, <3>2
  <2>2. ASSUME NEW u \in D \union {t}, NEW v \in D \union {t}, u < v, Share(u, v)
        PROVE  u \in a.rests[v]
    <3>1. CASE v = t
      <4>1. u \in D
        BY <3>1, <2>2, <1>4
      <4> QED BY <3>1, <4>1, <2>2, <1>11, <1>13
    <3>2. CASE v # t
      <4>1. v \in D /\ u # t
        <5> HIDE DEF t
        <5> QED BY <3>2, <2>2, <1>4
      <4> QED BY <4>1, <2>2, <1>2, <1>13
    <3> QED BY <3>1, <3>2
  <2>3. ASSUME NEW u \in D \union {t}, NEW v \in run.left \ {t} PROVE u < v
    <3>1. v \in Nat /\ t <= v /\ v # t
      BY <1>1, <1>3
    <3> HIDE DEF t
    <3> QED BY <3>1, <1>2, <1>4
  <2>4. a.state = "running" => a.left # {}
    <3> HIDE DEF a, t
    <3> QED BY <1>12, <1>3
  <2> HIDE DEF a, t
  <2> QED BY <1>12, <1>13, <2>1, <2>2, <2>3, <2>4 DEF InOrder
<1>17. a.state # "queued"
  BY <1>12
<1> HIDE DEF a
<1> QED BY <1>3, <1>4, <1>8, <1>9, <1>10, <1>12, <1>13, <1>15, <1>16, <1>17 DEF a

-----------------------------------------------------------------------------
\* What the two actions that make executions make of runs and of the queue.

Items(ids) == [kind : {"msg"}, what : Msgs] \union [kind : {"run"}, what : ids]

LEMMA SeqInto ==
  ASSUME NEW S, NEW T, NEW s \in Seq(S), \A k \in DOMAIN s : s[k] \in T
  PROVE  s \in Seq(T)
<1>1. Len(s) \in Nat /\ DOMAIN s = 1 .. Len(s) /\ s = [k \in 1 .. Len(s) |-> s[k]]
  BY LenProperties
<1>2. \A k \in 1 .. Len(s) : s[k] \in T
  BY <1>1
<1>3. [k \in 1 .. Len(s) |-> s[k]] \in Seq(T)
  BY <1>1, <1>2, IsASeq
<1> QED BY <1>1, <1>3

LEMMA RunIds ==
  ASSUME TypeOK, NEW m \in Msgs, NEW I \in SUBSET DOMAIN groups, NEW attempt \in {1, 2}
  PROVE  /\ {RunId(m, i, attempt) : i \in I} \in SUBSET Ids
         /\ IsFiniteSet({RunId(m, i, attempt) : i \in I})
<1> DEFINE ids == {RunId(m, i, attempt) : i \in I}
           f == [i \in I |-> RunId(m, i, attempt)]
<1>1. groups \in Seq(SUBSET Txs) /\ todo[m] \in Seq(SUBSET Txs)
  BY DEF TypeOK
<1>2. /\ DOMAIN groups = 1 .. Len(groups) /\ Len(groups) \in Nat
      /\ Len(todo[m]) \in Nat
  BY <1>1, LenProperties
<1>3. ids \in SUBSET Ids
  BY <1>2 DEF RunId, Ids
<1>4. IsFiniteSet(1 .. Len(groups))
  BY <1>2, FS_Interval
<1>5. IsFiniteSet(I)
  BY <1>2, <1>4, FS_Subset
<1>6. f \in Surjection(I, ids)
  BY DEF Surjection
<1>7. IsFiniteSet(ids)
  <2> HIDE DEF f, ids
  <2> QED BY <1>5, <1>6, FS_Surjection
<1> QED BY <1>3, <1>7

\* The first executions: ids nobody has used yet, one for each group.
LEMMA BegunRuns ==
  ASSUME TypeOK, IdInv, NEW m \in Msgs, BeginRuns(m)
  PROVE  /\ \A i \in DOMAIN groups :
              LET id == RunId(m, i, 1)
              IN  /\ id \in DOMAIN runs' /\ id \notin DOMAIN runs /\ id \in Ids
                  /\ runs'[id] = NewRun(groups[i], IF i \in Alone(groups) THEN "block" ELSE "tx")
         /\ \A id \in DOMAIN runs : id \in DOMAIN runs' /\ runs'[id] = runs[id]
         /\ \A id \in DOMAIN runs' \ DOMAIN runs : \E i \in DOMAIN groups : id = RunId(m, i, 1)
         /\ \E q \in Seq([kind : {"run"}, what : DOMAIN runs' \ DOMAIN runs]) :
              /\ queue' = queue \o q
              /\ \A k \in DOMAIN q : runs'[q[k].what].state = "queued"
              /\ \A j, k \in DOMAIN q : q[j].what = q[k].what => j = k
<1> DEFINE alone == Alone(groups)
           pool(i) == IF i \in alone THEN "block" ELSE "tx"
           ids == {RunId(m, i, 1) : i \in DOMAIN groups}
           new == [id \in ids |-> NewRun(groups[id[3]], pool(id[3]))]
           queued == {id \in DOMAIN new : new[id].pool = "tx"}
<1>1. PICK q \in Tasks(queued) : queue' = queue \o q
  BY DEF BeginRuns
<1>2. runs' = With(runs, new)
  BY DEF BeginRuns
<1>3. ids \in SUBSET Ids /\ IsFiniteSet(ids)
  BY RunIds
<1>4. ids \cap DOMAIN runs = {}
  <2> SUFFICES ASSUME NEW i \in DOMAIN groups, RunId(m, i, 1) \in DOMAIN runs PROVE FALSE
    OBVIOUS
  <2>1. stage[m] = "grouping"
    BY DEF BeginRuns
  <2>2. RunId(m, i, 1)[1] = m /\ RunId(m, i, 1)[2] = Len(todo[m])
    BY DEF RunId
  <2> QED BY <2>1, <2>2 DEF IdInv
<1>5. /\ DOMAIN runs' = DOMAIN runs \union ids
      /\ \A id \in ids : runs'[id] = new[id]
      /\ \A id \in DOMAIN runs : runs'[id] = runs[id]
  <2>1. DOMAIN new = ids
    OBVIOUS
  <2> HIDE DEF new, ids
  <2> QED BY <1>2, <1>4, <2>1 DEF With
<1>6. \A i \in DOMAIN groups :
        /\ RunId(m, i, 1) \in ids
        /\ new[RunId(m, i, 1)] = NewRun(groups[i], pool(i))
  BY DEF RunId
<1>7. queued \subseteq ids /\ \A id \in queued : new[id].state = "queued"
  <2>1. queued \subseteq ids
    OBVIOUS
  <2>2. ASSUME NEW id \in queued PROVE new[id].state = "queued"
    <3>1. new[id] = NewRun(groups[id[3]], pool(id[3])) /\ new[id].pool = "tx"
      OBVIOUS
    <3> QED BY <3>1 DEF NewRun
  <2> QED BY <2>1, <2>2
<1>8. /\ q \in Seq([kind : {"run"}, what : queued])
      /\ \A j, k \in DOMAIN q : j # k => q[j].what # q[k].what
  <2>1. IsFiniteSet(queued) /\ queued \in SUBSET Ids
    <3> HIDE DEF queued, ids
    <3> QED BY <1>3, <1>7, FS_Subset
  <2> HIDE DEF queued
  <2> QED BY <1>1, <2>1, TasksType
<1>9. \A k \in DOMAIN q : q[k] \in [kind : {"run"}, what : queued]
  <2> HIDE DEF queued
  <2> QED BY <1>8, ElementOfSeq, LenProperties
<1>10. q \in Seq([kind : {"run"}, what : DOMAIN runs' \ DOMAIN runs])
  <2>1. queued \subseteq DOMAIN runs' \ DOMAIN runs
    <3> HIDE DEF queued, ids
    <3> QED BY <1>4, <1>5, <1>7
  <2>2. \A k \in DOMAIN q : q[k] \in [kind : {"run"}, what : DOMAIN runs' \ DOMAIN runs]
    <3> HIDE DEF queued
    <3> QED BY <1>9, <2>1
  <2> HIDE DEF queued
  <2> QED BY <1>8, <2>2, SeqInto
<1>11. \A k \in DOMAIN q : runs'[q[k].what].state = "queued"
  <2> HIDE DEF queued, new, ids
  <2> QED BY <1>5, <1>7, <1>9
<1>12. \A i \in DOMAIN groups : RunId(m, i, 1) \in Ids /\ RunId(m, i, 1) \notin DOMAIN runs
  BY <1>3, <1>4
<1>13. \A id \in DOMAIN runs' \ DOMAIN runs : \E i \in DOMAIN groups : id = RunId(m, i, 1)
  BY <1>5
<1>14. \A i \in DOMAIN groups :
         /\ RunId(m, i, 1) \in DOMAIN runs'
         /\ runs'[RunId(m, i, 1)] = NewRun(groups[i], pool(i))
  <2> HIDE DEF new, ids
  <2> QED BY <1>5, <1>6
<1>15. \A id \in DOMAIN runs : id \in DOMAIN runs' /\ runs'[id] = runs[id]
  <2> HIDE DEF new, ids
  <2> QED BY <1>5
<1>16. \A j, k \in DOMAIN q : q[j].what = q[k].what => j = k
  BY <1>8
<1> HIDE DEF new, ids, queued
<1> QED BY <1>1, <1>10, <1>11, <1>12, <1>13, <1>14, <1>15, <1>16

\* While its transactions are verified, a call waits for its first executions.
LEMMA FirstRuns ==
  ASSUME TypeOK, HoldInv, IdInv, WantedInv, NEW m \in Msgs, stage[m] = "verifying"
  PROVE  /\ \A i \in DOMAIN groups :
              RunId(m, i, 1) \in DOMAIN runs /\ runs[RunId(m, i, 1)].wanted
         /\ \A id \in DOMAIN runs : runs[id].wanted => id = RunId(m, id[3], 1)
<1>1. ASSUME NEW id \in DOMAIN runs, runs[id].wanted PROVE id = RunId(m, id[3], 1)
  <2>1. /\ id \in Ids /\ id[1] \in Running /\ id[2] = Len(todo[id[1]])
    BY <1>1 DEF TypeOK, WantedInv
  <2>2. id[1] = m
    BY <2>1 DEF HoldInv, Holding, Running
  <2>3. id[4] = 1
    BY <2>1, <2>2 DEF IdInv
  <2> QED BY <2>1, <2>2, <2>3 DEF Ids, RunId
<1>2. ASSUME NEW i \in DOMAIN groups
      PROVE  RunId(m, i, 1) \in DOMAIN runs /\ runs[RunId(m, i, 1)].wanted
  <2>1. PICK id \in DOMAIN runs : runs[id].wanted /\ id[3] = i
    BY DEF WantedInv, Running
  <2> QED BY <2>1, <1>1
<1> QED BY <1>1, <1>2

\* The second executions; the first ones of their groups have ended, or are
\* abandoned.
LEMMA JudgedRuns ==
  ASSUME TypeOK, HoldInv, IdInv, WantedInv, NEW m \in Msgs, Judge(m)
  PROVE  /\ \A i \in ToRedo :
              LET id == RunId(m, i, 2)
              IN  /\ id \in DOMAIN runs' /\ id \notin DOMAIN runs /\ id \in Ids
                  /\ runs'[id] = NewRun(groups[i] \ Failed, "tx")
         /\ \A i \in ToRedo :
              LET id == RunId(m, i, 1)
              IN  IF runs[id].state = "ended" THEN id \notin DOMAIN runs'
                  ELSE id \in DOMAIN runs' /\ runs'[id] = Abandoned(runs[id])
         /\ \A id \in DOMAIN runs :
              (\A i \in ToRedo : id # RunId(m, i, 1)) => id \in DOMAIN runs' /\ runs'[id] = runs[id]
         /\ \A id \in DOMAIN runs' \ DOMAIN runs : \E i \in ToRedo : id = RunId(m, i, 2)
         /\ \E q \in Seq([kind : {"run"}, what : DOMAIN runs' \ DOMAIN runs]) :
              /\ queue' = queue \o q
              /\ \A k \in DOMAIN q : runs'[q[k].what].state = "queued"
              /\ \A j, k \in DOMAIN q : q[j].what = q[k].what => j = k
<1> DEFINE firsts == {RunId(m, i, 1) : i \in ToRedo}
           ids == {RunId(m, i, 2) : i \in ToRedo}
           seconds == [id \in ids |-> NewRun(groups[id[3]] \ Failed, "tx")]
           ended == {id \in firsts : runs[id].state = "ended"}
           kept == [id \in DOMAIN runs \ ended |->
                      IF id \in firsts THEN Abandoned(runs[id]) ELSE runs[id]]
<1>0. stage[m] = "verifying" /\ ToRedo \subseteq DOMAIN groups
  BY DEF Judge, ToRedo
<1>1. PICK q \in Tasks(DOMAIN seconds) : queue' = queue \o q
  BY DEF Judge
<1>2. runs' = With(kept, seconds)
  BY DEF Judge
<1>3. ids \in SUBSET Ids /\ IsFiniteSet(ids)
  BY <1>0, RunIds
<1>4. ids \cap DOMAIN runs = {}
  <2> SUFFICES ASSUME NEW i \in ToRedo, RunId(m, i, 2) \in DOMAIN runs PROVE FALSE
    OBVIOUS
  <2>1. /\ RunId(m, i, 2)[1] = m /\ RunId(m, i, 2)[2] = Len(todo[m])
        /\ RunId(m, i, 2)[4] = 2
    BY DEF RunId
  <2> QED BY <1>0, <2>1 DEF IdInv
<1>5. firsts \subseteq DOMAIN runs
  BY <1>0, FirstRuns
<1>6. /\ DOMAIN runs' = (DOMAIN runs \ ended) \union ids
      /\ \A id \in ids : runs'[id] = seconds[id]
      /\ \A id \in DOMAIN runs \ ended : runs'[id] = IF id \in firsts THEN Abandoned(runs[id]) ELSE runs[id]
  <2>1. DOMAIN seconds = ids /\ DOMAIN kept = DOMAIN runs \ ended
    OBVIOUS
  <2>2. \A id \in DOMAIN runs \ ended : kept[id] = IF id \in firsts THEN Abandoned(runs[id]) ELSE runs[id]
    OBVIOUS
  <2> HIDE DEF seconds, ids, kept, ended, firsts
  <2> QED BY <1>2, <1>4, <2>1, <2>2 DEF With
<1>7. \A i \in ToRedo :
        /\ RunId(m, i, 2) \in ids
        /\ seconds[RunId(m, i, 2)] = NewRun(groups[i] \ Failed, "tx")
  BY DEF RunId
<1>8. \A id \in ids : seconds[id].state = "queued"
  BY DEF NewRun
<1>9. /\ q \in Seq([kind : {"run"}, what : ids])
      /\ \A j, k \in DOMAIN q : j # k => q[j].what # q[k].what
  <2>1. DOMAIN seconds = ids
    OBVIOUS
  <2> HIDE DEF ids, seconds
  <2> QED BY <1>1, <1>3, <2>1, TasksType
<1>10. \A k \in DOMAIN q : q[k] \in [kind : {"run"}, what : ids]
  <2> HIDE DEF ids
  <2> QED BY <1>9, ElementOfSeq, LenProperties
<1>11. q \in Seq([kind : {"run"}, what : DOMAIN runs' \ DOMAIN runs])
  <2>1. ids \subseteq DOMAIN runs' \ DOMAIN runs
    <3> HIDE DEF ids
    <3> QED BY <1>4, <1>6
  <2>2. \A k \in DOMAIN q : q[k] \in [kind : {"run"}, what : DOMAIN runs' \ DOMAIN runs]
    <3> HIDE DEF ids
    <3> QED BY <1>10, <2>1
  <2> HIDE DEF ids
  <2> QED BY <1>9, <2>2, SeqInto
<1>12. \A k \in DOMAIN q : runs'[q[k].what].state = "queued"
  <2> HIDE DEF seconds, ids
  <2> QED BY <1>6, <1>8, <1>10
<1>13. \A i \in ToRedo : RunId(m, i, 2) \in Ids /\ RunId(m, i, 2) \notin DOMAIN runs
  BY <1>3, <1>4
<1>14. \A id \in DOMAIN runs' \ DOMAIN runs : \E i \in ToRedo : id = RunId(m, i, 2)
  <2>1. \A id \in DOMAIN runs' \ DOMAIN runs : id \in ids
    <3> HIDE DEF ids, ended
    <3> QED BY <1>6
  <2> QED BY <2>1
<1>15. \A i \in ToRedo :
         /\ RunId(m, i, 2) \in DOMAIN runs'
         /\ runs'[RunId(m, i, 2)] = NewRun(groups[i] \ Failed, "tx")
  <2> HIDE DEF seconds, ids
  <2> QED BY <1>6, <1>7
<1>16. ASSUME NEW i \in ToRedo
       PROVE  IF runs[RunId(m, i, 1)].state = "ended" THEN RunId(m, i, 1) \notin DOMAIN runs'
              ELSE RunId(m, i, 1) \in DOMAIN runs' /\ runs'[RunId(m, i, 1)] = Abandoned(runs[RunId(m, i, 1)])
  <2>1. RunId(m, i, 1) \in firsts /\ (RunId(m, i, 1) \in ended <=> runs[RunId(m, i, 1)].state = "ended")
    OBVIOUS
  <2> HIDE DEF firsts, ended, ids
  <2> QED BY <2>1, <1>4, <1>5, <1>6
<1>17. ASSUME NEW id \in DOMAIN runs, \A i \in ToRedo : id # RunId(m, i, 1)
       PROVE  id \in DOMAIN runs' /\ runs'[id] = runs[id]
  <2>1. id \notin firsts /\ id \notin ended
    BY <1>17
  <2> HIDE DEF firsts, ended, ids
  <2> QED BY <2>1, <1>6
<1>18. \A j, k \in DOMAIN q : q[j].what = q[k].what => j = k
  BY <1>9
<1> HIDE DEF firsts, ids, seconds, ended, kept
<1> QED BY <1>1, <1>11, <1>12, <1>13, <1>14, <1>15, <1>16, <1>17, <1>18

LEMMA BegunShape ==
  ASSUME NEW txs, NEW pool, NEW r, r = NewRun(txs, pool)
  PROVE  r.wanted = TRUE /\ r.left = txs /\ DOMAIN r.rests = {}
<1>1. r.wanted = TRUE /\ r.left = txs /\ r.rests = <<>>
  BY DEF NewRun
<1>2. DOMAIN <<>> = {}
  OBVIOUS
<1> QED BY <1>1, <1>2

\* What the judgement leaves of the records.
LEMMA JudgedRecords ==
  ASSUME NEW m \in Msgs, Judge(m), NEW u \in DOMAIN info, u \notin Failed,
         \A i \in ToRedo : u \notin groups[i]
  PROVE  u \in DOMAIN info' /\ info'[u] = info[u]
<1>1. info' = Without(info, (UNION {groups[i] : i \in ToRedo})
                            \union (Failed \cap UNION {groups[i] : i \in batch.alone}))
  BY DEF Judge
<1>2. u \notin (UNION {groups[i] : i \in ToRedo})
               \union (Failed \cap UNION {groups[i] : i \in batch.alone})
  OBVIOUS
<1> QED BY <1>1, <1>2 DEF Without, Restrict

LEMMA ExecutedRuns ==
  ASSUME TypeOK, OrderInv, NEW id \in DOMAIN runs, Execute(id)
  PROVE  /\ runs[id] \in Runs /\ InOrder(runs[id]) /\ runs[id].state = "running"
         /\ DOMAIN runs' \subseteq DOMAIN runs
         /\ \A o \in DOMAIN runs \ {id} : o \in DOMAIN runs' /\ runs'[o] = runs[o]
         /\ runs[id].wanted => id \in DOMAIN runs'
         /\ \/ /\ info' = With(info, [u \in {Turn(runs[id])} |->
                            [pre |-> Follows(runs[id]), rests |-> RestsOn(runs[id]),
                             late |-> ~runs[id].wanted]])
               /\ id \in DOMAIN runs' => runs'[id] = After(runs[id])
            \/ /\ info' = info
               /\ id \in DOMAIN runs' => runs'[id] = [runs[id] EXCEPT !.state = "ended"]
BY DEF TypeOK, OrderInv, Execute, Without, Restrict

LEMMA PackedRuns ==
  ASSUME NEW m, Pack(m)
  PROVE  /\ DOMAIN runs' = DOMAIN runs \ Waited(m)
         /\ \A id \in DOMAIN runs' : runs'[id] = runs[id]
BY DEF Pack, Without, Restrict

\* What one step may make of an execution.
LEMMA RunsStep ==
  ASSUME TypeOK, HoldInv, GroupInv, OrderInv, IdInv, WantedInv, [Next]_vars, NEW id \in DOMAIN runs'
  PROVE  \/ /\ id \in DOMAIN runs
            /\ \/ runs'[id] = runs[id]
               \/ runs'[id] = Abandoned(runs[id])
               \/ runs[id].state = "running" /\ runs'[id] = After(runs[id])
               \/ runs'[id] = [runs[id] EXCEPT !.state = "ended"]
               \/ runs[id].left # {} /\ runs'[id] = [runs[id] EXCEPT !.state = "running"]
         \/ /\ id \in Ids
            /\ \E txs \in SUBSET Txs : \E pool \in {"tx", "block"} :
                 (pool = "block" => txs # {}) /\ runs'[id] = NewRun(txs, pool)
<1>1. CASE UNCHANGED runs
  BY <1>1
<1>2. CASE StartRun
  BY <1>2 DEF StartRun
<1>3. ASSUME NEW m \in Msgs, BeginRuns(m) PROVE id \notin DOMAIN runs =>
         id \in Ids /\ \E txs \in SUBSET Txs : \E pool \in {"tx", "block"} :
                         (pool = "block" => txs # {}) /\ runs'[id] = NewRun(txs, pool)
  <2> SUFFICES ASSUME id \notin DOMAIN runs PROVE
         id \in Ids /\ \E txs \in SUBSET Txs : \E pool \in {"tx", "block"} :
                         (pool = "block" => txs # {}) /\ runs'[id] = NewRun(txs, pool)
    OBVIOUS
  <2>1. PICK i \in DOMAIN groups : id = RunId(m, i, 1)
    BY <1>3, BegunRuns
  <2>2. id \in Ids /\ runs'[id] = NewRun(groups[i], IF i \in Alone(groups) THEN "block" ELSE "tx")
    BY <1>3, <2>1, BegunRuns
  <2>3. groups[i] \in SUBSET Txs
    BY ElementOfSeq DEF TypeOK
  <2>4. i \in Alone(groups) => groups[i] # {}
    BY DEF Alone
  <2> QED BY <2>2, <2>3, <2>4
<1>4. ASSUME NEW m \in Msgs, Judge(m) PROVE
         IF id \in DOMAIN runs THEN runs'[id] \in {runs[id], Abandoned(runs[id])}
         ELSE id \in Ids /\ \E txs \in SUBSET Txs : runs'[id] = NewRun(txs, "tx")
  <2>1. CASE id \in DOMAIN runs
    BY <1>4, <2>1, JudgedRuns
  <2>2. CASE id \notin DOMAIN runs
    <3>1. PICK i \in ToRedo : id = RunId(m, i, 2)
      BY <1>4, <2>2, JudgedRuns
    <3>2. id \in Ids /\ runs'[id] = NewRun(groups[i] \ Failed, "tx")
      BY <1>4, <3>1, JudgedRuns
    <3>3. groups[i] \ Failed \in SUBSET Txs
      BY ElementOfSeq DEF TypeOK, ToRedo
    <3> QED BY <2>2, <3>2, <3>3
  <2> QED BY <2>1, <2>2
<1>5. ASSUME NEW o \in DOMAIN runs, Execute(o) PROVE
         id \in DOMAIN runs /\ runs'[id] \in {runs[id], After(runs[id]), [runs[id] EXCEPT !.state = "ended"]}
                            /\ (runs'[id] = runs[id] \/ runs[id].state = "running")
  BY <1>5, ExecutedRuns
<1>6. ASSUME NEW m \in Msgs, Pack(m) PROVE id \in DOMAIN runs /\ runs'[id] = runs[id]
  BY <1>6, PackedRuns
<1>7. \/ UNCHANGED runs
      \/ StartRun
      \/ \E m \in Msgs : BeginRuns(m) \/ Judge(m) \/ Pack(m)
      \/ \E o \in DOMAIN runs : Execute(o)
  BY DEF Next, Working, vars, Arrive, StartHandler, Lock, Begin, Group, Verify, Finish, Stored
<1>8. CASE \E m \in Msgs : BeginRuns(m)
  <2>1. PICK m \in Msgs : BeginRuns(m)
    BY <1>8
  <2>2. id \in DOMAIN runs => runs'[id] = runs[id]
    BY <2>1, BegunRuns
  <2> QED BY <2>1, <2>2, <1>3
<1>9. CASE \E m \in Msgs : Judge(m)
  BY <1>9, <1>4
<1> QED BY <1>1, <1>2, <1>5, <1>6, <1>7, <1>8, <1>9

RunTypes ==
  /\ DOMAIN runs \subseteq Ids
  /\ \A id \in DOMAIN runs : runs[id] \in Runs

LEMMA ChangedRun ==
  ASSUME NEW run \in Runs, NEW s \in {"queued", "running", "ended"}
  PROVE  LET r == [run EXCEPT !.state = s]
         IN  /\ r \in Runs /\ r.left = run.left /\ r.rests = run.rests /\ r.state = s
             /\ r.wanted = run.wanted /\ r.pool = run.pool
             /\ InOrder(run) /\ (s = "running" => run.left # {}) => InOrder(r)
<1> DEFINE r == [run EXCEPT !.state = s]
<1>1. /\ r \in Runs /\ r.left = run.left /\ r.rests = run.rests /\ r.state = s
      /\ r.wanted = run.wanted /\ r.pool = run.pool
  BY DEF Runs
<1> HIDE DEF r
<1>2. InOrder(run) /\ (s = "running" => run.left # {}) => InOrder(r)
  BY <1>1 DEF InOrder
<1> QED BY <1>1, <1>2 DEF r

LEMMA AbandonedRun ==
  ASSUME NEW run \in Runs
  PROVE  LET r == Abandoned(run)
         IN  /\ r \in Runs /\ r.left = run.left /\ r.rests = run.rests /\ r.state = run.state
             /\ r.wanted = FALSE /\ r.pool = run.pool
             /\ InOrder(run) => InOrder(r)
<1> DEFINE r == Abandoned(run)
<1>1. /\ r \in Runs /\ r.left = run.left /\ r.rests = run.rests /\ r.state = run.state
      /\ r.wanted = FALSE /\ r.pool = run.pool
  BY DEF Runs, Abandoned
<1> HIDE DEF r
<1>2. InOrder(run) => InOrder(r)
  BY <1>1 DEF InOrder
<1> QED BY <1>1, <1>2 DEF r

LEMMA OrderStep ==
  ASSUME TypeOK, HoldInv, GroupInv, OrderInv, IdInv, WantedInv, [Next]_vars
  PROVE  RunTypes' /\ OrderInv'
<1> SUFFICES ASSUME NEW id \in DOMAIN runs'
             PROVE  id \in Ids /\ runs'[id] \in Runs /\ InOrder(runs'[id])
  BY DEF RunTypes, OrderInv
<1>1. id \in DOMAIN runs => id \in Ids /\ runs[id] \in Runs /\ InOrder(runs[id])
  BY DEF TypeOK, OrderInv
<1>2. CASE id \in DOMAIN runs /\ runs'[id] = runs[id]
  BY <1>1, <1>2
<1>3. CASE id \in DOMAIN runs /\ runs'[id] = Abandoned(runs[id])
  BY <1>1, <1>3, AbandonedRun
<1>4. CASE id \in DOMAIN runs /\ runs[id].state = "running" /\ runs'[id] = After(runs[id])
  <2>1. latest \in [Contracts -> {0, -1}]
    BY DEF TypeOK
  <2> QED BY <1>1, <1>4, <2>1, TurnShape
<1>5. CASE id \in DOMAIN runs /\ runs'[id] = [runs[id] EXCEPT !.state = "ended"]
  BY <1>1, <1>5, ChangedRun
<1>6. CASE id \in DOMAIN runs /\ runs[id].left # {} /\ runs'[id] = [runs[id] EXCEPT !.state = "running"]
  <2> DEFINE r == [runs[id] EXCEPT !.state = "running"]
  <2>1. r \in Runs /\ (InOrder(runs[id]) /\ runs[id].left # {} => InOrder(r))
    BY <1>1, <1>6, ChangedRun
  <2> HIDE DEF r
  <2>2. runs'[id] = r
    BY <1>6 DEF r
  <2> QED BY <1>1, <1>6, <2>1, <2>2
<1>7. ASSUME NEW txs \in SUBSET Txs, NEW pool \in {"tx", "block"},
             pool = "block" => txs # {}, id \in Ids, runs'[id] = NewRun(txs, pool)
      PROVE  id \in Ids /\ runs'[id] \in Runs /\ InOrder(runs'[id])
  <2> DEFINE r == NewRun(txs, pool)
  <2>1. r \in Runs /\ InOrder(r)
    BY <1>7, NewRunShape
  <2> HIDE DEF r
  <2>2. runs'[id] = r
    BY <1>7 DEF r
  <2> QED BY <1>7, <2>1, <2>2
<1> QED BY <1>2, <1>3, <1>4, <1>5, <1>6, <1>7, RunsStep

-----------------------------------------------------------------------------
\* One step keeps the other parts of the invariant.

\* The three ways in which the handlers go on.
LEMMA HoldStep ==
  ASSUME TypeOK, HoldInv, [Next]_vars
  PROVE  HoldInv'
<1> USE DEF HoldInv, Holding, Busy, Grouping, Running
<1>0. stage \in [Msgs -> {"away", "queued", "waiting", "locked", "grouping", "verifying",
                         "executing", "done"}]
  BY DEF TypeOK
<1>1. ASSUME NEW m \in Msgs, Arrive(m) PROVE HoldInv'
  BY <1>0, <1>1 DEF Arrive
<1>2. CASE StartHandler
  <2>1. stage' = [stage EXCEPT ![Head(queue).what] = "waiting"] /\ todo' = todo
    BY <1>2 DEF StartHandler
  <2> QED BY <1>0, <2>1
<1>3. ASSUME NEW m \in Msgs, Lock(m) PROVE HoldInv'
  BY <1>0, <1>3 DEF Lock
<1>4. ASSUME NEW m \in Msgs, Begin(m) PROVE HoldInv'
  BY <1>0, <1>4 DEF Begin
<1>5. ASSUME NEW m \in Msgs, BeginRuns(m) PROVE HoldInv'
  BY <1>0, <1>5 DEF BeginRuns
<1>6. ASSUME NEW m \in Msgs, Judge(m) PROVE HoldInv'
  BY <1>0, <1>6 DEF Judge
<1>7. ASSUME NEW m \in Msgs, Pack(m) PROVE HoldInv'
  <2>1. /\ stage[m] = "executing" /\ stage' = [stage EXCEPT ![m] = "locked"]
        /\ todo' = [todo EXCEPT ![m] = Tail(@)]
    BY <1>7 DEF Pack
  <2> QED BY <1>0, <2>1
<1>8. ASSUME NEW m \in Msgs, Finish(m) PROVE HoldInv'
  BY <1>0, <1>8 DEF Finish
<1>9. CASE UNCHANGED <<stage, todo>>
  BY <1>9
<1> QED
  BY <1>1, <1>2, <1>3, <1>4, <1>5, <1>6, <1>7, <1>8, <1>9
  DEF Next, Working, vars, StartRun, Group, Verify, Execute, Stored, handlerVars

\* The first task of the queue, and the others.
LEMMA QueueHead ==
  ASSUME TypeOK, QueueInv, queue # <<>>
  PROVE  /\ Head(queue) \in Items(DOMAIN runs)
         /\ Head(queue).kind = "run" => Head(queue).what \in DOMAIN runs /\ runs[Head(queue).what].state = "queued"
         /\ Head(queue).kind = "msg" => Head(queue).what \in Msgs /\ stage[Head(queue).what] = "queued"
         /\ Tail(queue) \in Seq(Items(DOMAIN runs))
         /\ \A k \in DOMAIN Tail(queue) : k + 1 \in DOMAIN queue /\ Tail(queue)[k] = queue[k + 1]
         /\ \A k \in DOMAIN Tail(queue) : Tail(queue)[k] # Head(queue)
<1>1. queue \in Seq(Items(DOMAIN runs))
  BY DEF TypeOK, Items
<1> DEFINE I == Items(DOMAIN runs)
<1>2. /\ Head(queue) \in I /\ Tail(queue) \in Seq(I)
      /\ 1 \in DOMAIN queue /\ Head(queue) = queue[1]
      /\ \A k \in DOMAIN Tail(queue) : k \in Nat /\ k # 0 /\ k + 1 \in DOMAIN queue /\ Tail(queue)[k] = queue[k + 1]
  <2> HIDE DEF I
  <2> QED BY <1>1, HeadTailProperties, LenProperties, EmptySeq DEF I
<1>3. \A k \in DOMAIN Tail(queue) : Tail(queue)[k] # Head(queue)
  <2>1. ASSUME NEW k \in DOMAIN Tail(queue), Tail(queue)[k] = Head(queue) PROVE FALSE
    <3>1. k + 1 = 1
      BY <1>2, <2>1 DEF QueueInv
    <3> QED BY <3>1, <1>2
  <2> QED BY <2>1
<1>4. /\ Head(queue).kind = "run" => Head(queue).what \in DOMAIN runs /\ runs[Head(queue).what].state = "queued"
      /\ Head(queue).kind = "msg" => Head(queue).what \in Msgs /\ stage[Head(queue).what] = "queued"
  <2>1. /\ Head(queue).kind = "run" => Head(queue).what \in DOMAIN runs
        /\ Head(queue).kind = "msg" => Head(queue).what \in Msgs
    BY <1>2 DEF Items
  <2> QED BY <1>2, <2>1 DEF QueueInv
<1> QED BY <1>2, <1>3, <1>4

LEMMA IdStep ==
  ASSUME TypeOK, HoldInv, GroupInv, OrderInv, IdInv, WantedInv, QueueInv, [Next]_vars
  PROVE  IdInv'
<1>0. /\ stage \in [Msgs -> {"away", "queued", "waiting", "locked", "grouping", "verifying",
                            "executing", "done"}]
      /\ todo \in [Msgs -> Seq(SUBSET Txs)]
      /\ \A id \in DOMAIN runs : id \in Ids /\ id[1] \in Msgs /\ id[2] \in Nat
  BY DEF TypeOK, Ids
<1>1. \A m \in Msgs : Len(todo[m]) \in Nat
  BY <1>0, LenProperties
<1>2. ASSUME DOMAIN runs' \subseteq DOMAIN runs, UNCHANGED <<stage, todo>> PROVE IdInv'
  BY <1>2 DEF IdInv
<1>3. ASSUME NEW m \in Msgs, NEW s, stage[m] \notin {"verifying", "executing"},
             stage' = [stage EXCEPT ![m] = s], UNCHANGED <<todo, runs>>
      PROVE  IdInv'
  BY <1>0, <1>3 DEF IdInv
<1>4. CASE StartHandler
  <2>1. /\ stage' = [stage EXCEPT ![Head(queue).what] = "waiting"] /\ UNCHANGED <<todo, runs>>
        /\ Head(queue).what \in Msgs /\ stage[Head(queue).what] = "queued"
    BY <1>4, QueueHead DEF StartHandler
  <2> QED BY <2>1, <1>3
<1>5. CASE StartRun
  <2>1. DOMAIN runs' = DOMAIN runs /\ UNCHANGED <<stage, todo>>
    BY <1>5 DEF StartRun, handlerVars
  <2> QED BY <2>1, <1>2
<1>6. ASSUME NEW id \in DOMAIN runs, Execute(id) PROVE IdInv'
  <2>1. UNCHANGED <<stage, todo>>
    BY <1>6 DEF Execute, handlerVars
  <2> QED BY <1>6, <2>1, <1>2, ExecutedRuns
<1>7. ASSUME NEW m \in Msgs, BeginRuns(m) PROVE IdInv'
  <2>1. /\ stage[m] = "grouping" /\ stage' = [stage EXCEPT ![m] = "verifying"] /\ todo' = todo
    BY <1>7 DEF BeginRuns
  <2>2. \A id \in DOMAIN runs' \ DOMAIN runs : id[1] = m /\ id[2] = Len(todo[m]) /\ id[4] = 1
    BY <1>7, BegunRuns DEF RunId
  <2>3. \A id \in DOMAIN runs : id[1] = m => id[2] # Len(todo[m])
    BY <2>1 DEF IdInv
  <2> QED BY <1>0, <1>1, <2>1, <2>2, <2>3 DEF IdInv
<1>8. ASSUME NEW m \in Msgs, Judge(m) PROVE IdInv'
  <2>1. /\ stage[m] = "verifying" /\ stage' = [stage EXCEPT ![m] = "executing"] /\ todo' = todo
    BY <1>8 DEF Judge
  <2>2. \A id \in DOMAIN runs' \ DOMAIN runs : id[1] = m /\ id[2] = Len(todo[m])
    BY <1>8, JudgedRuns DEF RunId
  <2> QED BY <1>0, <1>1, <2>1, <2>2 DEF IdInv
<1>9. ASSUME NEW m \in Msgs, Pack(m) PROVE IdInv'
  <2>1. /\ stage[m] = "executing" /\ stage' = [stage EXCEPT ![m] = "locked"]
        /\ todo' = [todo EXCEPT ![m] = Tail(@)]
    BY <1>9 DEF Pack
  <2>2. todo[m] # <<>> /\ todo[m] \in Seq(SUBSET Txs)
    BY <2>1, <1>0 DEF HoldInv, Busy, Running
  <2>3. Len(Tail(todo[m])) = Len(todo[m]) - 1
    BY <2>2, HeadTailProperties, EmptySeq
  <2>4. DOMAIN runs' \subseteq DOMAIN runs
    BY <1>9, PackedRuns
  <2>5. \A id \in DOMAIN runs : id[2] >= Len(todo[id[1]])
    BY DEF IdInv
  <2>6. \A id \in DOMAIN runs : id[1] = m => id[2] > Len(todo'[m])
    <3>1. Len(todo'[m]) = Len(todo[m]) - 1
      BY <1>0, <2>1, <2>3
    <3>2. \A id \in DOMAIN runs : id[1] = m => id[2] >= Len(todo[m]) /\ id[2] \in Nat
      BY <1>0, <2>5
    <3> QED BY <1>1, <3>1, <3>2
  <2>7. \A id \in DOMAIN runs : id[1] # m => todo'[id[1]] = todo[id[1]] /\ stage'[id[1]] = stage[id[1]]
    BY <1>0, <2>1
  <2>8. Len(todo'[m]) \in Nat
    BY <1>0, <1>1, <2>1, <2>2, HeadTailProperties, EmptySeq, LenProperties
  <2>9. ASSUME NEW id \in DOMAIN runs'
        PROVE  /\ id[2] >= Len(todo'[id[1]])
               /\ id[2] = Len(todo'[id[1]]) => stage'[id[1]] \in {"verifying", "executing"}
               /\ id[2] = Len(todo'[id[1]]) /\ stage'[id[1]] = "verifying" => id[4] = 1
    <3>1. CASE id[1] = m
      BY <3>1, <1>0, <2>4, <2>6, <2>8
    <3>2. CASE id[1] # m
      BY <3>2, <2>4, <2>7 DEF IdInv
    <3> QED BY <3>1, <3>2
  <2> QED BY <2>9 DEF IdInv
<1>10. ASSUME NEW m \in Msgs, Arrive(m) \/ Lock(m) \/ Begin(m) \/ Finish(m) PROVE IdInv'
  <2>1. /\ stage[m] \notin {"verifying", "executing"} /\ UNCHANGED <<todo, runs>>
        /\ \E s : stage' = [stage EXCEPT ![m] = s]
    BY <1>10 DEF Arrive, Lock, Begin, Finish
  <2> QED BY <2>1, <1>3
<1>11. CASE UNCHANGED <<stage, todo, runs>>
  BY <1>11, <1>2
<1> QED
  BY <1>4, <1>5, <1>6, <1>7, <1>8, <1>9, <1>10, <1>11
  DEF Next, Working, vars, Group, Verify, Stored, handlerVars

\* Tasks may be appended, if they are new and wait to be started.
LEMMA QueueGrows ==
  ASSUME NEW S, NEW s \in Seq(S), NEW T, NEW q \in Seq(T),
         \A j, k \in DOMAIN s : s[j] = s[k] => j = k,
         \A j, k \in DOMAIN q : q[j] = q[k] => j = k,
         S \cap T = {}
  PROVE  /\ s \o q \in Seq(S \union T)
         /\ \A k \in DOMAIN (s \o q) : \/ k \in DOMAIN s /\ (s \o q)[k] = s[k]
                                       \/ \E j \in DOMAIN q : (s \o q)[k] = q[j]
         /\ \A j, k \in DOMAIN (s \o q) : (s \o q)[j] = (s \o q)[k] => j = k
<1> DEFINE U == S \union T
<1>1. /\ Len(s) \in Nat /\ DOMAIN s = 1 .. Len(s)
      /\ Len(q) \in Nat /\ DOMAIN q = 1 .. Len(q)
      /\ \A k \in DOMAIN s : s[k] \in S
      /\ \A k \in DOMAIN q : q[k] \in T
  BY LenProperties, ElementOfSeq
<1>2. s \in Seq(U) /\ q \in Seq(U)
  <2>1. /\ \A k \in DOMAIN s : s[k] \in U
        /\ \A k \in DOMAIN q : q[k] \in U
    BY <1>1
  <2> HIDE DEF U
  <2> QED BY <2>1, SeqInto
<1>3. /\ s \o q \in Seq(U)
      /\ Len(s \o q) = Len(s) + Len(q)
      /\ \A k \in 1 .. Len(s) + Len(q) :
           (s \o q)[k] = IF k <= Len(s) THEN s[k] ELSE q[k - Len(s)]
  <2> HIDE DEF U
  <2> QED BY <1>2, ConcatProperties
<1>4. DOMAIN (s \o q) = 1 .. Len(s) + Len(q)
  <2> HIDE DEF U
  <2> QED BY <1>3, LenProperties
<1>5. ASSUME NEW k \in 1 .. Len(s) + Len(q)
      PROVE  \/ k \in DOMAIN s /\ (s \o q)[k] = s[k] /\ (s \o q)[k] \in S
             \/ /\ k \notin DOMAIN s /\ k - Len(s) \in DOMAIN q
                /\ (s \o q)[k] = q[k - Len(s)] /\ (s \o q)[k] \in T
  <2>1. CASE k <= Len(s)
    <3>1. k \in DOMAIN s
      BY <1>1, <2>1
    <3> QED BY <1>1, <1>3, <2>1, <3>1
  <2>2. CASE ~(k <= Len(s))
    <3>1. k \notin DOMAIN s /\ k - Len(s) \in DOMAIN q
      BY <1>1, <2>2
    <3> QED BY <1>1, <1>3, <2>2, <3>1
  <2> QED BY <2>1, <2>2
<1>6. ASSUME NEW j \in 1 .. Len(s) + Len(q), NEW k \in 1 .. Len(s) + Len(q), (s \o q)[j] = (s \o q)[k]
      PROVE  j = k
  <2>1. CASE j \in DOMAIN s
    <3>1. k \in DOMAIN s
      BY <1>5, <1>6, <2>1
    <3> QED BY <1>5, <1>6, <2>1, <3>1
  <2>2. CASE j \notin DOMAIN s
    <3>1. k \notin DOMAIN s
      BY <1>5, <1>6, <2>2
    <3>2. j - Len(s) = k - Len(s)
      BY <1>5, <1>6, <2>2, <3>1
    <3> QED BY <1>1, <3>2
  <2> QED BY <2>1, <2>2
<1> QED BY <1>3, <1>4, <1>5, <1>6

QueueTypes == queue \in Seq(Items(DOMAIN runs))

LEMMA QueueKept ==
  ASSUME TypeOK, QueueInv, NEW s \in Seq(Items(DOMAIN runs)),
         \A j, k \in DOMAIN s : s[j] = s[k] => j = k,
         \A k \in DOMAIN s :
           /\ s[k].kind = "run" => s[k].what \in DOMAIN runs' /\ runs'[s[k].what].state = "queued"
           /\ s[k].kind = "msg" => stage'[s[k].what] = "queued"
  PROVE  /\ s \in Seq(Items(DOMAIN runs'))
         /\ queue' = s => QueueTypes' /\ QueueInv'
<1>1. \A k \in DOMAIN s : s[k] \in Items(DOMAIN runs)
  BY ElementOfSeq, LenProperties
<1>2. \A k \in DOMAIN s : s[k] \in Items(DOMAIN runs')
  BY <1>1 DEF Items
<1>3. s \in Seq(Items(DOMAIN runs'))
  <2> DEFINE I == Items(DOMAIN runs)
             J == Items(DOMAIN runs')
  <2>1. s \in Seq(I) /\ \A k \in DOMAIN s : s[k] \in J
    BY <1>2
  <2> HIDE DEF I, J
  <2>2. s \in Seq(J)
    BY <2>1, SeqInto
  <2> QED BY <2>2 DEF J
<1>4. ASSUME queue' = s PROVE QueueTypes' /\ QueueInv'
  <2>1. QueueTypes'
    BY <1>3, <1>4 DEF QueueTypes, Items
  <2>2. QueueInv'
    BY <1>4 DEF QueueInv
  <2> QED BY <2>1, <2>2
<1> QED BY <1>3, <1>4

LEMMA QueueStep ==
  ASSUME TypeOK, HoldInv, GroupInv, OrderInv, IdInv, WantedInv, QueueInv, [Next]_vars
  PROVE  QueueTypes' /\ QueueInv'
<1>0. /\ stage \in [Msgs -> {"away", "queued", "waiting", "locked", "grouping", "verifying",
                            "executing", "done"}]
      /\ queue \in Seq(Items(DOMAIN runs))
      /\ \A j, k \in DOMAIN queue : queue[j] = queue[k] => j = k
      /\ \A id \in DOMAIN runs : runs[id] \in Runs
  BY DEF TypeOK, QueueInv, Items
<1>1. ASSUME NEW k \in DOMAIN queue
      PROVE  /\ queue[k] \in Items(DOMAIN runs)
             /\ queue[k].kind = "run" =>
                  queue[k].what \in DOMAIN runs /\ runs[queue[k].what].state = "queued"
             /\ queue[k].kind = "msg" => queue[k].what \in Msgs /\ stage[queue[k].what] = "queued"
  <2>1. queue[k] \in Items(DOMAIN runs)
    BY <1>0, ElementOfSeq, LenProperties
  <2> QED BY <2>1 DEF Items, QueueInv
<1>2. ASSUME UNCHANGED <<queue, runs>>, NEW m \in Msgs, NEW s,
             stage[m] # "queued", stage' = [stage EXCEPT ![m] = s]
      PROVE  QueueTypes' /\ QueueInv'
  <2>1. \A k \in DOMAIN queue :
          /\ queue[k].kind = "run" => queue[k].what \in DOMAIN runs' /\ runs'[queue[k].what].state = "queued"
          /\ queue[k].kind = "msg" => stage'[queue[k].what] = "queued"
    BY <1>0, <1>1, <1>2
  <2> QED BY <1>0, <1>2, <2>1, QueueKept
<1>3. ASSUME NEW m \in Msgs, Arrive(m) PROVE QueueTypes' /\ QueueInv'
  <2>1. stage[m] = "away" /\ UNCHANGED runs
    BY <1>3 DEF Arrive
  <2>2. CASE m \in Own
    <3>1. stage' = [stage EXCEPT ![m] = "waiting"] /\ UNCHANGED queue
      BY <1>3, <2>2 DEF Arrive
    <3> QED BY <1>2, <2>1, <3>1
  <2>3. CASE m \notin Own
    <3> DEFINE e == [kind |-> "msg", what |-> m]
               S == Items(DOMAIN runs) \ {e}
    <3>1. stage' = [stage EXCEPT ![m] = "queued"] /\ queue' = Append(queue, e)
      BY <1>3, <2>3 DEF Arrive
    <3>2. \A k \in DOMAIN queue : queue[k] # e
      BY <1>1, <2>1
    <3>3. queue \in Seq(S) /\ <<e>> \in Seq({e})
      <4>1. \A k \in DOMAIN queue : queue[k] \in S
        BY <1>1, <3>2
      <4>2. queue \in Seq(S)
        <5> HIDE DEF S
        <5> QED BY <1>0, <4>1, SeqInto
      <4> QED BY <4>2
    <3>4. queue' = queue \o <<e>>
      <4> HIDE DEF e
      <4> QED BY <1>0, <3>1, AppendIsConcat
    <3>5. /\ \A k \in DOMAIN queue' : \/ k \in DOMAIN queue /\ queue'[k] = queue[k]
                                      \/ queue'[k] = e
          /\ \A j, k \in DOMAIN queue' : queue'[j] = queue'[k] => j = k
          /\ queue' \in Seq(S \union {e})
      <4>1. S \cap {e} = {} /\ \A j, k \in DOMAIN <<e>> : <<e>>[j] = <<e>>[k] => j = k
        OBVIOUS
      <4>2. \A j \in DOMAIN <<e>> : <<e>>[j] = e
        OBVIOUS
      <4> HIDE DEF S, e
      <4> QED BY <1>0, <3>3, <3>4, <4>1, <4>2, QueueGrows
    <3>6. queue' \in Seq(Items(DOMAIN runs))
      <4>1. S \union {e} = Items(DOMAIN runs)
        BY DEF Items
      <4> HIDE DEF S
      <4> QED BY <3>5, <4>1
    <3>7. \A k \in DOMAIN queue' :
            /\ queue'[k].kind = "run" => queue'[k].what \in DOMAIN runs' /\ runs'[queue'[k].what].state = "queued"
            /\ queue'[k].kind = "msg" => stage'[queue'[k].what] = "queued"
      BY <1>0, <1>1, <2>1, <3>1, <3>5
    <3> HIDE DEF S, e
    <3> QED BY <3>5, <3>6, <3>7, QueueKept
  <2> QED BY <2>2, <2>3
<1>4. ASSUME queue # <<>>, queue' = Tail(queue), DOMAIN runs' = DOMAIN runs,
             \A id \in DOMAIN runs : \/ runs'[id].state = runs[id].state
                                     \/ Head(queue).kind = "run" /\ id = Head(queue).what,
             \A m \in Msgs : \/ stage'[m] = stage[m]
                             \/ Head(queue).kind = "msg" /\ m = Head(queue).what
      PROVE  QueueTypes' /\ QueueInv'
  <2>1. /\ Head(queue) \in Items(DOMAIN runs)
        /\ Tail(queue) \in Seq(Items(DOMAIN runs))
        /\ \A k \in DOMAIN Tail(queue) : k + 1 \in DOMAIN queue /\ Tail(queue)[k] = queue[k + 1]
        /\ \A k \in DOMAIN Tail(queue) : Tail(queue)[k] # Head(queue)
    BY <1>4, QueueHead
  <2>2. \A k \in DOMAIN Tail(queue) : k \in Nat
    BY <2>1, LenProperties
  <2>3. \A j, k \in DOMAIN Tail(queue) : Tail(queue)[j] = Tail(queue)[k] => j = k
    <3>1. SUFFICES ASSUME NEW j \in DOMAIN Tail(queue), NEW k \in DOMAIN Tail(queue),
                          Tail(queue)[j] = Tail(queue)[k]
                   PROVE  j = k
      OBVIOUS
    <3>2. j + 1 = k + 1
      BY <1>0, <2>1, <3>1
    <3> QED BY <2>2, <3>2
  <2>4. ASSUME NEW k \in DOMAIN Tail(queue)
        PROVE  /\ Tail(queue)[k].kind = "run" =>
                    Tail(queue)[k].what \in DOMAIN runs' /\ runs'[Tail(queue)[k].what].state = "queued"
               /\ Tail(queue)[k].kind = "msg" => stage'[Tail(queue)[k].what] = "queued"
    <3> DEFINE e == Tail(queue)[k]
    <3>1. /\ e \in Items(DOMAIN runs) /\ e # Head(queue)
          /\ e.kind = "run" => e.what \in DOMAIN runs /\ runs[e.what].state = "queued"
          /\ e.kind = "msg" => e.what \in Msgs /\ stage[e.what] = "queued"
      BY <1>1, <2>1
    <3>2. e.kind = Head(queue).kind => e.what # Head(queue).what
      BY <2>1, <3>1 DEF Items
    <3> HIDE DEF e
    <3>3. /\ e.kind = "run" => e.what \in DOMAIN runs' /\ runs'[e.what].state = "queued"
          /\ e.kind = "msg" => stage'[e.what] = "queued"
      BY <1>4, <3>1, <3>2
    <3> QED BY <3>3 DEF e
  <2> QED BY <1>4, <2>1, <2>3, <2>4, QueueKept
<1>5. CASE StartHandler
  <2>1. /\ queue # <<>> /\ Head(queue).kind = "msg" /\ queue' = Tail(queue) /\ runs' = runs
        /\ stage' = [stage EXCEPT ![Head(queue).what] = "waiting"]
    BY <1>5 DEF StartHandler
  <2> QED BY <1>0, <1>4, <2>1
<1>6. CASE StartRun
  <2>1. /\ queue # <<>> /\ Head(queue).kind = "run" /\ queue' = Tail(queue) /\ stage' = stage
        /\ \E s \in {"ended", "running"} : runs' = [runs EXCEPT ![Head(queue).what].state = s]
    BY <1>6 DEF StartRun, handlerVars
  <2> QED BY <1>0, <1>4, <2>1
<1>7. ASSUME UNCHANGED <<queue, stage>>,
             \A id \in DOMAIN runs : runs[id].state = "queued" => id \in DOMAIN runs' /\ runs'[id].state = "queued"
      PROVE  QueueTypes' /\ QueueInv'
  <2>1. \A k \in DOMAIN queue :
          /\ queue[k].kind = "run" => queue[k].what \in DOMAIN runs' /\ runs'[queue[k].what].state = "queued"
          /\ queue[k].kind = "msg" => stage'[queue[k].what] = "queued"
    BY <1>1, <1>7
  <2> QED BY <1>0, <1>7, <2>1, QueueKept
<1>8. ASSUME NEW id \in DOMAIN runs, Execute(id) PROVE QueueTypes' /\ QueueInv'
  <2>1. UNCHANGED <<queue, stage>>
    BY <1>8 DEF Execute, handlerVars
  <2>2. runs[id].state = "running" /\ \A o \in DOMAIN runs \ {id} : o \in DOMAIN runs' /\ runs'[o] = runs[o]
    BY <1>8, ExecutedRuns
  <2> QED BY <2>1, <2>2, <1>7
<1>9. ASSUME NEW q \in Seq([kind : {"run"}, what : DOMAIN runs' \ DOMAIN runs]),
             queue' = queue \o q,
             \A k \in DOMAIN q : runs'[q[k].what].state = "queued",
             \A j, k \in DOMAIN q : q[j].what = q[k].what => j = k,
             \A id \in DOMAIN runs : runs[id].state = "queued" => id \in DOMAIN runs' /\ runs'[id].state = "queued",
             \A m \in Msgs : stage[m] = "queued" => stage'[m] = "queued"
      PROVE  QueueTypes' /\ QueueInv'
  <2> DEFINE T == [kind : {"run"}, what : DOMAIN runs' \ DOMAIN runs]
             I == Items(DOMAIN runs)
             J == Items(DOMAIN runs')
             s == queue \o q
  <2>1. I \cap T = {}
    BY DEF Items
  <2>2. \A j, k \in DOMAIN q : q[j] = q[k] => j = k
    BY <1>9
  <2>3. \A k \in DOMAIN q : q[k] \in T
    <3>1. q \in Seq(T)
      BY <1>9
    <3> HIDE DEF T
    <3> QED BY <3>1, ElementOfSeq, LenProperties
  <2>4. /\ s \in Seq(I \union T)
        /\ \A k \in DOMAIN s : \/ k \in DOMAIN queue /\ s[k] = queue[k]
                               \/ \E j \in DOMAIN q : s[k] = q[j]
        /\ \A j, k \in DOMAIN s : s[j] = s[k] => j = k
    <3>1. queue \in Seq(I) /\ q \in Seq(T)
      BY <1>0, <1>9
    <3> HIDE DEF I, T
    <3> QED BY <1>0, <2>1, <2>2, <3>1, QueueGrows
  <2>5. ASSUME NEW k \in DOMAIN s
        PROVE  /\ s[k] \in J
               /\ s[k].kind = "run" => s[k].what \in DOMAIN runs' /\ runs'[s[k].what].state = "queued"
               /\ s[k].kind = "msg" => stage'[s[k].what] = "queued"
    <3>1. CASE k \in DOMAIN queue /\ s[k] = queue[k]
      <4>1. /\ queue[k] \in Items(DOMAIN runs)
            /\ queue[k].kind = "run" => queue[k].what \in DOMAIN runs' /\ runs'[queue[k].what].state = "queued"
            /\ queue[k].kind = "msg" => stage'[queue[k].what] = "queued"
        BY <1>1, <1>9, <3>1
      <4> HIDE DEF s
      <4> QED BY <3>1, <4>1 DEF Items
    <3>2. ASSUME NEW j \in DOMAIN q, s[k] = q[j] PROVE
               /\ s[k] \in J
               /\ s[k].kind = "run" => s[k].what \in DOMAIN runs' /\ runs'[s[k].what].state = "queued"
               /\ s[k].kind = "msg" => stage'[s[k].what] = "queued"
      <4>1. q[j] \in T /\ runs'[q[j].what].state = "queued"
        BY <1>9, <2>3
      <4> HIDE DEF s
      <4> QED BY <3>2, <4>1 DEF Items
    <3> QED BY <2>4, <3>1, <3>2
  <2>6. s \in Seq(J)
    <3> HIDE DEF s, J, I, T
    <3> QED BY <2>4, <2>5, SeqInto
  <2>7. QueueTypes'
    BY <1>9, <2>6 DEF QueueTypes, Items
  <2>8. QueueInv'
    <3>1. queue' = s
      BY <1>9
    <3> HIDE DEF s
    <3> QED BY <2>4, <2>5, <3>1 DEF QueueInv
  <2> QED BY <2>7, <2>8
<1>10. ASSUME NEW m \in Msgs, BeginRuns(m) PROVE QueueTypes' /\ QueueInv'
  <2>1. stage' = [stage EXCEPT ![m] = "verifying"] /\ stage[m] = "grouping"
    BY <1>10 DEF BeginRuns
  <2>2. \A id \in DOMAIN runs : id \in DOMAIN runs' /\ runs'[id] = runs[id]
    BY <1>10, BegunRuns
  <2>3. PICK q \in Seq([kind : {"run"}, what : DOMAIN runs' \ DOMAIN runs]) :
              /\ queue' = queue \o q
              /\ \A k \in DOMAIN q : runs'[q[k].what].state = "queued"
              /\ \A j, k \in DOMAIN q : q[j].what = q[k].what => j = k
    BY <1>10, BegunRuns
  <2>4. \A n \in Msgs : stage[n] = "queued" => stage'[n] = "queued"
    BY <1>0, <2>1
  <2>5. \A id \in DOMAIN runs : runs[id].state = "queued" => id \in DOMAIN runs' /\ runs'[id].state = "queued"
    BY <2>2
  <2> QED BY <2>3, <2>4, <2>5, <1>9
<1>11. ASSUME NEW m \in Msgs, Judge(m) PROVE QueueTypes' /\ QueueInv'
  <2>1. stage' = [stage EXCEPT ![m] = "executing"] /\ stage[m] = "verifying"
    BY <1>11 DEF Judge
  <2>2. ASSUME NEW id \in DOMAIN runs, runs[id].state = "queued"
        PROVE  id \in DOMAIN runs' /\ runs'[id].state = "queued"
    <3>1. CASE \A i \in ToRedo : id # RunId(m, i, 1)
      BY <1>11, <2>2, <3>1, JudgedRuns
    <3>2. ASSUME NEW i \in ToRedo, id = RunId(m, i, 1) PROVE id \in DOMAIN runs' /\ runs'[id].state = "queued"
      <4>1. id \in DOMAIN runs' /\ runs'[id] = Abandoned(runs[id])
        BY <1>11, <2>2, <3>2, JudgedRuns
      <4>2. Abandoned(runs[id]).state = runs[id].state
        BY <1>0, AbandonedRun
      <4> QED BY <2>2, <4>1, <4>2
    <3> QED BY <3>1, <3>2
  <2>3. PICK q \in Seq([kind : {"run"}, what : DOMAIN runs' \ DOMAIN runs]) :
              /\ queue' = queue \o q
              /\ \A k \in DOMAIN q : runs'[q[k].what].state = "queued"
              /\ \A j, k \in DOMAIN q : q[j].what = q[k].what => j = k
    BY <1>11, JudgedRuns
  <2>4. \A n \in Msgs : stage[n] = "queued" => stage'[n] = "queued"
    BY <1>0, <2>1
  <2> QED BY <2>2, <2>3, <2>4, <1>9
<1>12. ASSUME NEW m \in Msgs, Pack(m) PROVE QueueTypes' /\ QueueInv'
  <2>1. /\ stage[m] = "executing" /\ stage' = [stage EXCEPT ![m] = "locked"] /\ queue' = queue
        /\ \A id \in Waited(m) : runs[id].state = "ended"
    BY <1>12 DEF Pack
  <2>2. \A id \in DOMAIN runs : runs[id].state = "queued" => id \in DOMAIN runs' /\ runs'[id] = runs[id]
    BY <1>12, <2>1, PackedRuns
  <2>3. \A k \in DOMAIN queue :
          /\ queue[k].kind = "run" => queue[k].what \in DOMAIN runs' /\ runs'[queue[k].what].state = "queued"
          /\ queue[k].kind = "msg" => stage'[queue[k].what] = "queued"
    BY <1>0, <1>1, <2>1, <2>2
  <2> QED BY <1>0, <2>1, <2>3, QueueKept
<1>13. ASSUME NEW m \in Msgs, Lock(m) \/ Begin(m) \/ Finish(m) PROVE QueueTypes' /\ QueueInv'
  <2>1. /\ stage[m] # "queued" /\ UNCHANGED <<queue, runs>>
        /\ \E s : stage' = [stage EXCEPT ![m] = s]
    BY <1>13 DEF Lock, Begin, Finish
  <2> QED BY <2>1, <1>2
<1>14. CASE UNCHANGED <<queue, runs, stage>>
  BY <1>14, <1>7
<1> QED
  BY <1>3, <1>5, <1>6, <1>8, <1>10, <1>11, <1>12, <1>13, <1>14
  DEF Next, Working, vars, Group, Verify, Stored, handlerVars

\* Which handlers are at work after a step.
LEMMA OneBusy ==
  ASSUME HoldInv, NEW m \in Msgs, m \in Holding
  PROVE  /\ Busy = IF stage[m] = "locked" THEN {} ELSE {m}
         /\ Grouping = IF stage[m] = "grouping" THEN {m} ELSE {}
         /\ Running = IF stage[m] \in {"verifying", "executing"} THEN {m} ELSE {}
<1>1. \A n \in Msgs : stage[n] \in {"grouping", "verifying", "executing"} => n = m
  BY DEF HoldInv, Holding
<1>2. stage[m] \in {"locked", "grouping", "verifying", "executing"}
  BY DEF Holding
<1> QED BY <1>1, <1>2 DEF Busy, Grouping, Running

\* The steps that leave the call under way as it is.
Idle ==
  /\ UNCHANGED <<batch, groups, verdict, unseen, cache, latest, todo>>
  /\ \A m \in Msgs : \/ stage'[m] = stage[m]
                     \/ /\ stage[m] \notin {"grouping", "verifying", "executing"}
                        /\ stage'[m] \notin {"grouping", "verifying", "executing"}

LEMMA IdleSame ==
  ASSUME Idle
  PROVE  /\ Busy' = Busy /\ Grouping' = Grouping /\ Running' = Running
         /\ \A m \in Msgs : stage'[m] = "executing" <=> stage[m] = "executing"
         /\ \A m \in Msgs : stage'[m] = "verifying" <=> stage[m] = "verifying"
BY DEF Idle, Busy, Grouping, Running

LEMMA IdleSteps ==
  ASSUME TypeOK, QueueInv,
         \/ \E m \in Msgs : Arrive(m) \/ Lock(m) \/ Finish(m)
         \/ StartHandler
         \/ StartRun
         \/ \E id \in DOMAIN runs : Execute(id)
         \/ UNCHANGED vars
  PROVE  Idle
<1>0. stage \in [Msgs -> {"away", "queued", "waiting", "locked", "grouping", "verifying",
                         "executing", "done"}]
  BY DEF TypeOK
<1>1. ASSUME NEW m \in Msgs, Arrive(m) \/ Lock(m) \/ Finish(m) PROVE Idle
  BY <1>0, <1>1 DEF Idle, Arrive, Lock, Finish, cacheVars
<1>2. CASE StartHandler
  <2>1. /\ stage' = [stage EXCEPT ![Head(queue).what] = "waiting"]
        /\ stage[Head(queue).what] = "queued"
        /\ UNCHANGED <<batch, groups, verdict, unseen, cache, latest, todo>>
    BY <1>2, QueueHead DEF StartHandler, cacheVars
  <2> QED BY <1>0, <2>1 DEF Idle
<1>3. CASE StartRun
  BY <1>3 DEF StartRun, Idle, handlerVars, cacheVars
<1>4. ASSUME NEW id \in DOMAIN runs, Execute(id) PROVE Idle
  BY <1>4 DEF Execute, Idle, handlerVars, cacheVars
<1>5. CASE UNCHANGED vars
  BY <1>5 DEF Idle, vars
<1> QED BY <1>1, <1>2, <1>3, <1>4, <1>5

\* The others.
LEMMA Steps ==
  ASSUME TypeOK, QueueInv, [Next]_vars
  PROVE  \/ Idle
         \/ \E m \in Msgs : Begin(m) \/ Group(m) \/ BeginRuns(m) \/ Judge(m) \/ Pack(m)
         \/ \E t \in Txs : Verify(t)
         \/ \E c \in Contracts : Stored(c)
BY IdleSteps DEF Next, Working

\* How far each of the others brings its handler.
LEMMA StageSteps ==
  ASSUME TypeOK, HoldInv, NEW m \in Msgs
  PROVE  /\ Begin(m) => Busy = {} /\ Busy' = {m} /\ Grouping' = {m} /\ Running' = {} /\ stage[m] = "locked"
         /\ Group(m) => Busy = {m} /\ Busy' = {m} /\ Grouping = {m} /\ Grouping' = {m} /\ Running' = {}
         /\ BeginRuns(m) => Busy = {m} /\ Busy' = {m} /\ Grouping = {m} /\ Grouping' = {} /\ Running' = {m}
         /\ Judge(m) => Busy = {m} /\ Busy' = {m} /\ Grouping = {} /\ Grouping' = {} /\ Running = {m} /\ Running' = {m}
         /\ Pack(m) => Busy = {m} /\ Busy' = {} /\ Grouping' = {} /\ Running = {m} /\ Running' = {}
<1>0. stage \in [Msgs -> {"away", "queued", "waiting", "locked", "grouping", "verifying",
                         "executing", "done"}]
  BY DEF TypeOK
<1>1. m \in Holding => \A n \in Msgs : n # m => stage[n] \notin {"locked", "grouping", "verifying", "executing"}
  BY DEF HoldInv, Holding
<1> USE <1>0, <1>1 DEF Holding, Busy, Grouping, Running
<1>2. Begin(m) => Busy = {} /\ Busy' = {m} /\ Grouping' = {m} /\ Running' = {} /\ stage[m] = "locked"
  BY DEF Begin
<1>3. Group(m) => Busy = {m} /\ Busy' = {m} /\ Grouping = {m} /\ Grouping' = {m} /\ Running' = {}
  BY DEF Group
<1>4. BeginRuns(m) => Busy = {m} /\ Busy' = {m} /\ Grouping = {m} /\ Grouping' = {} /\ Running' = {m}
  BY DEF BeginRuns
<1>5. Judge(m) => Busy = {m} /\ Busy' = {m} /\ Grouping = {} /\ Grouping' = {} /\ Running = {m} /\ Running' = {m}
  BY DEF Judge
<1>6. Pack(m) => Busy = {m} /\ Busy' = {} /\ Grouping' = {} /\ Running = {m} /\ Running' = {}
  <2>1. Pack(m) => stage[m] = "executing" /\ stage' = [stage EXCEPT ![m] = "locked"]
    BY DEF Pack
  <2> QED BY <2>1
<1> QED BY <1>2, <1>3, <1>4, <1>5, <1>6

LEMMA CallStep ==
  ASSUME TypeOK, HoldInv, CallInv, QueueInv, [Next]_vars
  PROVE  CallInv'
<1>0. /\ stage \in [Msgs -> {"away", "queued", "waiting", "locked", "grouping", "verifying",
                            "executing", "done"}]
      /\ batch \in Batches
      /\ verdict \in [Txs -> {"none", "pending", "ok", "failed"}]
      /\ latest \in [Contracts -> {0, -1}]
  BY DEF TypeOK
<1>1. CASE Idle
  BY <1>1, IdleSame DEF CallInv, Idle
<1>2. ASSUME NEW m \in Msgs, Begin(m) PROVE CallInv'
  <2>1. /\ Busy = {} /\ Busy' = {m}
        /\ stage' = [stage EXCEPT ![m] = "grouping"]
        /\ batch' = [NoBatch EXCEPT !.txs = Head(todo[m]), !.old = cache, !.latest = latest]
        /\ verdict' = [t \in Txs |-> IF t \in Head(todo[m]) THEN "pending" ELSE "none"]
        /\ UNCHANGED <<cache, latest>>
    BY <1>2, StageSteps DEF Begin, cacheVars
  <2>2. batch'.txs = Head(todo[m]) /\ batch'.old = cache /\ batch'.latest = latest
    BY <2>1 DEF NoBatch
  <2>3. \A n \in Msgs : stage'[n] # "executing"
    BY <1>0, <2>1 DEF Busy, Running
  <2> QED BY <2>1, <2>2, <2>3 DEF CallInv
<1>3. ASSUME NEW m \in Msgs, Group(m) PROVE CallInv'
  <2>1. Busy = {m} /\ Busy' = {m} /\ UNCHANGED <<stage, batch, verdict, cache, latest>>
    BY <1>3, StageSteps DEF Group, cacheVars
  <2> QED BY <2>1 DEF CallInv
<1>4. ASSUME NEW m \in Msgs, BeginRuns(m) PROVE CallInv'
  <2>1. /\ Busy = {m} /\ Busy' = {m} /\ UNCHANGED <<verdict, cache, latest>>
        /\ stage' = [stage EXCEPT ![m] = "verifying"]
        /\ batch' = [batch EXCEPT !.alone = Alone(groups), !.twice = Twice(groups)]
    BY <1>4, StageSteps DEF BeginRuns, cacheVars
  <2>2. batch'.txs = batch.txs /\ batch'.old = batch.old /\ batch'.latest = batch.latest
    BY <1>0, <2>1 DEF Batches
  <2>3. \A n \in Msgs : stage'[n] = "executing" => stage[n] = "executing"
    BY <1>0, <2>1
  <2> QED BY <2>1, <2>2, <2>3 DEF CallInv
<1>5. ASSUME NEW m \in Msgs, Judge(m) PROVE CallInv'
  <2>1. /\ Busy = {m} /\ Busy' = {m} /\ UNCHANGED <<batch, verdict, cache, latest>>
        /\ \A t \in batch.txs : verdict[t] # "pending"
    BY <1>5, StageSteps DEF Judge
  <2> QED BY <2>1 DEF CallInv
<1>6. ASSUME NEW m \in Msgs, Pack(m) PROVE CallInv'
  <2>1. /\ Busy' = {} /\ groups' = <<>> /\ verdict' = [t \in Txs |-> "none"] /\ batch' = NoBatch
    BY <1>6, StageSteps DEF Pack
  <2> QED BY <2>1 DEF CallInv, NoBatch
<1>7. ASSUME NEW t \in Txs, Verify(t) PROVE CallInv'
  <2>1. /\ verdict[t] = "pending" /\ UNCHANGED <<stage, todo, batch, groups, latest>>
        /\ \/ verdict' = [verdict EXCEPT ![t] = "ok"] /\ cache' = cache \union {t}
           \/ verdict' = [verdict EXCEPT ![t] = "failed"] /\ cache' = cache
    BY <1>7 DEF Verify, handlerVars
  <2>2. Busy' = Busy /\ Busy # {}
    BY <2>1 DEF CallInv, Busy, Grouping, Running
  <2>3. \A m \in Msgs : stage[m] = "executing" => \A u \in batch.txs : verdict'[u] # "pending"
    BY <1>0, <2>1 DEF CallInv, Batches
  <2>4. cache' = batch.old \union {u \in Txs : verdict'[u] = "ok"}
    BY <1>0, <2>1, <2>2 DEF CallInv
  <2> QED BY <1>0, <2>1, <2>2, <2>3, <2>4 DEF CallInv
<1>8. ASSUME NEW c \in Contracts, Stored(c) PROVE CallInv'
  <2>1. /\ latest' = [latest EXCEPT ![c] = -1] /\ UNCHANGED <<stage, batch, groups, verdict, cache>>
    BY <1>8 DEF Stored, handlerVars, cacheVars
  <2>2. Busy' = Busy
    BY <2>1 DEF Busy, Grouping, Running
  <2> QED BY <1>0, <2>1, <2>2 DEF CallInv
<1> QED BY <1>1, <1>2, <1>3, <1>4, <1>5, <1>6, <1>7, <1>8, Steps

LEMMA GroupStep ==
  ASSUME TypeOK, HoldInv, CallInv, GroupInv, QueueInv, [Next]_vars
  PROVE  GroupInv'
<1>0. /\ batch \in Batches /\ groups \in Seq(SUBSET Txs)
      /\ verdict \in [Txs -> {"none", "pending", "ok", "failed"}]
      /\ todo \in [Msgs -> Seq(SUBSET Txs)]
      /\ DOMAIN groups = 1 .. Len(groups)
  BY LenProperties DEF TypeOK
<1>1. CASE Idle
  <2>1. UNCHANGED <<batch, groups, verdict, unseen>> /\ Grouping' = Grouping
    BY <1>1, IdleSame DEF Idle
  <2> QED BY <2>1 DEF GroupInv, Failed
<1>2. ASSUME NEW m \in Msgs, Begin(m) PROVE GroupInv'
  <2>1. /\ Busy = {} /\ Grouping' = {m} /\ groups' = groups
        /\ batch' = [NoBatch EXCEPT !.txs = Head(todo[m]), !.old = cache, !.latest = latest]
        /\ unseen' = Head(todo[m])
    BY <1>2, StageSteps DEF Begin
  <2>2. batch'.txs = Head(todo[m])
    BY <2>1 DEF NoBatch
  <2>3. groups' = <<>>
    BY <2>1 DEF CallInv
  <2> QED BY <2>1, <2>2, <2>3 DEF GroupInv
<1>3. ASSUME NEW m \in Msgs, Group(m) PROVE GroupInv'
  <2>1. PICK t \in unseen : unseen' = unseen \ {t} /\ groups' = Join(groups, CommonKeys(batch.txs, t))
    BY <1>3 DEF Group
  <2>2. Grouping' = {m} /\ UNCHANGED <<batch, verdict>>
    BY <1>3, StageSteps DEF Group
  <2> DEFINE B == batch.txs
             keys == CommonKeys(batch.txs, t)
  <2>3. keys \in SUBSET B
    BY DEF CommonKeys, GroupInv
  <2>4. groups \in Seq(SUBSET B)
    <3>1. \A i \in DOMAIN groups : groups[i] \in SUBSET B
      BY DEF GroupInv
    <3> HIDE DEF B
    <3> QED BY <1>0, <3>1, SeqInto
  <2>5. /\ groups' \in Seq(SUBSET B)
        /\ DOMAIN groups \subseteq DOMAIN groups'
        /\ \A i \in DOMAIN groups : groups[i] \subseteq groups'[i]
        /\ \E i \in DOMAIN groups' : keys \subseteq groups'[i]
    <3> HIDE DEF B, keys
    <3> QED BY <2>1, <2>3, <2>4, JoinGrows DEF keys
  <2>6. \A i \in DOMAIN groups' : groups'[i] \subseteq B
    <3> HIDE DEF B
    <3> QED BY <2>5, ElementOfSeq, LenProperties
  <2>7. ASSUME NEW u \in B \ (unseen' \union Failed)
        PROVE  \E i \in DOMAIN groups' : CommonKeys(B, u) \ Failed \subseteq groups'[i]
    <3>1. CASE u = t
      BY <2>5, <3>1
    <3>2. CASE u # t
      <4>1. u \in B \ (unseen \union Failed)
        BY <2>1, <2>7, <3>2
      <4>2. PICK i \in DOMAIN groups : CommonKeys(B, u) \ Failed \subseteq groups[i]
        BY <4>1 DEF GroupInv
      <4> QED BY <2>5, <4>2
    <3> QED BY <3>1, <3>2
  <2>8. Failed' = Failed
    BY <2>2 DEF Failed
  <2> QED BY <2>1, <2>2, <2>6, <2>7, <2>8 DEF GroupInv
<1>4. ASSUME NEW m \in Msgs, BeginRuns(m) PROVE GroupInv'
  <2>1. /\ unseen = {} /\ Grouping' = {} /\ UNCHANGED <<verdict, unseen, groups>>
        /\ batch' = [batch EXCEPT !.alone = Alone(groups), !.twice = Twice(groups)]
    BY <1>4, StageSteps DEF BeginRuns
  <2>2. batch'.txs = batch.txs
    BY <1>0, <2>1 DEF Batches
  <2> QED BY <2>1, <2>2 DEF GroupInv, Failed
<1>5. ASSUME NEW m \in Msgs, Judge(m) PROVE GroupInv'
  <2>1. /\ Grouping = {} /\ Grouping' = {} /\ UNCHANGED <<batch, verdict, unseen>>
        /\ groups' = [i \in DOMAIN groups |-> IF i \in ToRedo THEN groups[i] \ Failed ELSE groups[i]]
    BY <1>5, StageSteps DEF Judge
  <2>2. Failed' = Failed
    BY <2>1 DEF Failed
  <2>3. \A i \in DOMAIN groups : groups[i] \ Failed \subseteq groups'[i] /\ groups'[i] \subseteq groups[i]
    BY <2>1
  <2>4. DOMAIN groups' = DOMAIN groups
    BY <2>1
  <2>5. ASSUME NEW t \in batch.txs \ (unseen \union Failed)
        PROVE  \E i \in DOMAIN groups' : CommonKeys(batch.txs, t) \ Failed \subseteq groups'[i]
    <3>1. PICK i \in DOMAIN groups : CommonKeys(batch.txs, t) \ Failed \subseteq groups[i]
      BY DEF GroupInv
    <3> QED BY <2>3, <2>4, <3>1
  <2> QED BY <2>1, <2>2, <2>3, <2>4, <2>5 DEF GroupInv
<1>6. ASSUME NEW m \in Msgs, Pack(m) PROVE GroupInv'
  <2>1. /\ Running = {m} /\ Busy = {m} /\ Grouping' = {} /\ groups' = <<>> /\ batch' = NoBatch /\ unseen' = unseen
        /\ stage[m] = "executing"
    BY <1>6, StageSteps DEF Pack
  <2>2. Grouping = {}
    BY <2>1 DEF Busy, Grouping
  <2>3. batch'.txs = {}
    BY <2>1 DEF NoBatch
  <2> QED BY <2>1, <2>2, <2>3 DEF GroupInv
<1>7. ASSUME NEW t \in Txs, Verify(t) PROVE GroupInv'
  <2>1. /\ UNCHANGED <<stage, batch, groups, unseen>>
        /\ verdict[t] = "pending"
        /\ \/ verdict' = [verdict EXCEPT ![t] = "ok"]
           \/ verdict' = [verdict EXCEPT ![t] = "failed"]
    BY <1>7 DEF Verify, handlerVars
  <2>2. Failed \subseteq Failed'
    <3>1. batch.txs \subseteq Txs /\ batch' = batch
      BY <1>0, <2>1 DEF Batches
    <3>2. \A u \in Txs : verdict[u] = "failed" => verdict'[u] = "failed"
      BY <1>0, <2>1
    <3> QED BY <3>1, <3>2 DEF Failed
  <2>3. Grouping' = Grouping
    BY <2>1 DEF Grouping
  <2>4. ASSUME NEW u \in batch.txs \ (unseen \union Failed')
        PROVE  \E i \in DOMAIN groups : CommonKeys(batch.txs, u) \ Failed' \subseteq groups[i]
    <3>1. PICK i \in DOMAIN groups : CommonKeys(batch.txs, u) \ Failed \subseteq groups[i]
      BY <2>2 DEF GroupInv
    <3> QED BY <2>2, <3>1
  <2> QED BY <2>1, <2>3, <2>4 DEF GroupInv
<1>8. ASSUME NEW c \in Contracts, Stored(c) PROVE GroupInv'
  <2>1. UNCHANGED <<stage, batch, groups, verdict, unseen>>
    BY <1>8 DEF Stored, handlerVars
  <2> QED BY <2>1 DEF GroupInv, Failed, Grouping
<1> QED BY <1>1, <1>2, <1>3, <1>4, <1>5, <1>6, <1>7, <1>8, Steps

LEMMA RunningStep ==
  ASSUME TypeOK, HoldInv, CallInv, GroupInv, RunningInv, QueueInv, [Next]_vars
  PROVE  RunningInv'
<1>0. /\ stage \in [Msgs -> {"away", "queued", "waiting", "locked", "grouping", "verifying",
                            "executing", "done"}]
      /\ batch \in Batches /\ groups \in Seq(SUBSET Txs)
      /\ verdict \in [Txs -> {"none", "pending", "ok", "failed"}]
      /\ DOMAIN groups = 1 .. Len(groups)
      /\ \A i \in DOMAIN groups : groups[i] \subseteq Txs
  BY LenProperties, ElementOfSeq DEF TypeOK
<1>1. CASE Idle
  <2>1. UNCHANGED <<batch, groups, verdict>> /\ Running' = Running
    BY <1>1, IdleSame DEF Idle
  <2>2. \A m \in Msgs : stage'[m] = "executing" <=> stage[m] = "executing"
    BY <1>1, IdleSame
  <2> QED BY <2>1, <2>2 DEF RunningInv, Failed
<1>2. ASSUME NEW m \in Msgs, Begin(m) \/ Group(m) \/ Pack(m) PROVE RunningInv'
  <2>1. Running' = {}
    BY <1>2, StageSteps
  <2>2. \A n \in Msgs : stage'[n] # "executing"
    BY <2>1 DEF Running
  <2> QED BY <2>1, <2>2 DEF RunningInv
<1>3. ASSUME NEW m \in Msgs, BeginRuns(m) PROVE RunningInv'
  <2>1. /\ Grouping = {m} /\ Busy = {m} /\ groups' = groups
        /\ stage' = [stage EXCEPT ![m] = "verifying"]
        /\ batch' = [batch EXCEPT !.alone = Alone(groups), !.twice = Twice(groups)]
    BY <1>3, StageSteps DEF BeginRuns
  <2>2. batch'.alone = Alone(groups) /\ batch'.twice = Twice(groups)
    BY <1>0, <2>1 DEF Batches
  <2>3. \A n \in Msgs : stage'[n] # "executing"
    BY <1>0, <2>1 DEF Busy, Running
  <2>4. \A i \in Alone(groups) : i \in DOMAIN groups /\ \E t \in Txs : groups[i] = {t}
    BY <1>0 DEF Alone
  <2>5. ~Twice(groups) => \A i, j \in DOMAIN groups : i # j => groups[i] \cap groups[j] = {}
    BY DEF Twice
  <2> QED BY <2>1, <2>2, <2>3, <2>4, <2>5 DEF RunningInv
<1>4. ASSUME NEW m \in Msgs, Judge(m) PROVE RunningInv'
  <2>1. /\ Running = {m} /\ Running' = {m} /\ UNCHANGED <<batch, verdict>>
        /\ groups' = [i \in DOMAIN groups |-> IF i \in ToRedo THEN groups[i] \ Failed ELSE groups[i]]
    BY <1>4, StageSteps DEF Judge
  <2>2. Failed' = Failed /\ DOMAIN groups' = DOMAIN groups
    BY <2>1 DEF Failed
  <2>3. \A i \in DOMAIN groups : groups'[i] \subseteq groups[i]
    BY <2>1
  <2>4. \A i \in DOMAIN groups : i \in batch.alone => groups'[i] = groups[i]
    BY <2>1 DEF ToRedo
  <2>5. \A i \in DOMAIN groups \ batch.alone : groups'[i] \cap Failed = {}
    BY <2>1 DEF ToRedo
  <2>6. batch.alone \subseteq DOMAIN groups'
    BY <2>1, <2>2 DEF RunningInv
  <2>7. \A i \in DOMAIN groups : i \in batch.alone => \E t \in Txs : groups'[i] = {t}
    BY <2>1, <2>4 DEF RunningInv
  <2>8. ~batch.twice => \A i, j \in DOMAIN groups : i # j => groups'[i] \cap groups'[j] = {}
    BY <2>1, <2>3 DEF RunningInv
  <2> QED BY <2>1, <2>2, <2>5, <2>6, <2>7, <2>8 DEF RunningInv
<1>5. ASSUME NEW t \in Txs, Verify(t) PROVE RunningInv'
  <2>1. /\ UNCHANGED <<stage, batch, groups>>
        /\ verdict[t] = "pending"
    BY <1>5 DEF Verify, handlerVars
  <2>2. Running' = Running
    BY <2>1 DEF Running
  <2>3. \A m \in Msgs : stage[m] # "executing"
    <3>1. SUFFICES ASSUME NEW m \in Msgs, stage[m] = "executing" PROVE FALSE
      OBVIOUS
    <3>2. Busy # {}
      BY <3>1 DEF Busy, Running
    <3>3. t \in batch.txs
      BY <2>1, <3>2 DEF CallInv
    <3> QED BY <2>1, <3>1, <3>3 DEF CallInv
  <2> QED BY <2>1, <2>2, <2>3 DEF RunningInv
<1>6. ASSUME NEW c \in Contracts, Stored(c) PROVE RunningInv'
  <2>1. UNCHANGED <<stage, batch, groups, verdict>>
    BY <1>6 DEF Stored, handlerVars
  <2> QED BY <2>1 DEF RunningInv, Failed, Running
<1> QED BY <1>1, <1>2, <1>3, <1>4, <1>5, <1>6, Steps

\* The executions waited for are the same, and so are their groups.
SameWanted ==
  /\ \A id \in DOMAIN runs' : runs'[id].wanted =>
       /\ id \in DOMAIN runs /\ runs[id].wanted
       /\ runs'[id].left \union DOMAIN runs'[id].rests = runs[id].left \union DOMAIN runs[id].rests
  /\ \A id \in DOMAIN runs : runs[id].wanted => id \in DOMAIN runs' /\ runs'[id].wanted

LEMMA StartedSame ==
  ASSUME TypeOK, QueueInv, StartRun
  PROVE  /\ DOMAIN runs' = DOMAIN runs
         /\ \A id \in DOMAIN runs : runs'[id].wanted = runs[id].wanted /\ runs'[id].rests = runs[id].rests
                                    /\ runs'[id].left = runs[id].left
<1> DEFINE h == Head(queue).what
<1>1. h \in DOMAIN runs
  BY QueueHead DEF StartRun
<1>2. PICK s \in {"ended", "running"} : runs' = [runs EXCEPT ![h].state = s]
  BY DEF StartRun
<1> DEFINE r == [runs[h] EXCEPT !.state = s]
<1>3. r.wanted = runs[h].wanted /\ r.rests = runs[h].rests /\ r.left = runs[h].left
  <2>1. runs[h] \in Runs
    BY <1>1 DEF TypeOK
  <2> HIDE DEF h
  <2> QED BY <2>1, ChangedRun
<1>4. DOMAIN runs' = DOMAIN runs /\ runs'[h] = r /\ \A id \in DOMAIN runs : id # h => runs'[id] = runs[id]
  BY <1>1, <1>2
<1> HIDE DEF r, h
<1> QED BY <1>3, <1>4

LEMMA ExecutedSame ==
  ASSUME TypeOK, OrderInv, NEW id \in DOMAIN runs, Execute(id)
  PROVE  SameWanted
<1>1. runs[id] \in Runs /\ InOrder(runs[id]) /\ runs[id].state = "running"
  BY ExecutedRuns
<1>2. /\ DOMAIN runs' \subseteq DOMAIN runs
      /\ \A o \in DOMAIN runs \ {id} : o \in DOMAIN runs' /\ runs'[o] = runs[o]
      /\ runs[id].wanted => id \in DOMAIN runs'
      /\ id \in DOMAIN runs' => runs'[id] \in {After(runs[id]), [runs[id] EXCEPT !.state = "ended"]}
  BY ExecutedRuns
<1> DEFINE Same(r) == /\ r.wanted = runs[id].wanted
                      /\ r.left \union DOMAIN r.rests = runs[id].left \union DOMAIN runs[id].rests
<1>3. Same(After(runs[id]))
  <2> DEFINE r == After(runs[id])
             t == Turn(runs[id])
  <2>1. /\ r.wanted = runs[id].wanted /\ t \in runs[id].left
        /\ r.left = runs[id].left \ {t} /\ DOMAIN r.rests = DOMAIN runs[id].rests \union {t}
    <3>1. latest \in [Contracts -> {0, -1}]
      BY DEF TypeOK
    <3> QED BY <1>1, <3>1, TurnShape
  <2> HIDE DEF r, t
  <2>2. Same(r)
    BY <2>1
  <2> QED BY <2>2 DEF r
<1>4. Same([runs[id] EXCEPT !.state = "ended"])
  BY <1>1, ChangedRun
<1>5. id \in DOMAIN runs' => Same(runs'[id])
  <2> HIDE DEF Same
  <2> QED BY <1>2, <1>3, <1>4
<1> QED BY <1>2, <1>5 DEF SameWanted

LEMMA WantedStep ==
  ASSUME TypeOK, HoldInv, CallInv, GroupInv, RunningInv, OrderInv, IdInv, WantedInv, QueueInv, [Next]_vars
  PROVE  WantedInv'
<1>0. /\ groups \in Seq(SUBSET Txs) /\ DOMAIN groups = 1 .. Len(groups)
      /\ \A i \in DOMAIN groups : groups[i] \in SUBSET Txs
      /\ \A id \in DOMAIN runs : runs[id] \in Runs
  BY LenProperties, ElementOfSeq DEF TypeOK
<1>1. ASSUME SameWanted, UNCHANGED <<groups, todo>>, Running' = Running PROVE WantedInv'
  <2>1. ASSUME NEW id \in DOMAIN runs', runs'[id].wanted
        PROVE  /\ id[1] \in Running' /\ id[2] = Len(todo'[id[1]]) /\ id[3] \in DOMAIN groups'
               /\ runs'[id].left \union DOMAIN runs'[id].rests = groups'[id[3]]
    <3>1. /\ id \in DOMAIN runs /\ runs[id].wanted
          /\ runs'[id].left \union DOMAIN runs'[id].rests = runs[id].left \union DOMAIN runs[id].rests
      BY <1>1, <2>1 DEF SameWanted
    <3>2. /\ id[1] \in Running /\ id[2] = Len(todo[id[1]]) /\ id[3] \in DOMAIN groups
          /\ runs[id].left \union DOMAIN runs[id].rests = groups[id[3]]
      BY <3>1 DEF WantedInv
    <3> QED BY <1>1, <3>1, <3>2
  <2>2. \A a, b \in DOMAIN runs' : runs'[a].wanted /\ runs'[b].wanted /\ a[3] = b[3] => a = b
    BY <1>1 DEF SameWanted, WantedInv
  <2>3. ASSUME Running' # {}, NEW i \in DOMAIN groups' PROVE \E id \in DOMAIN runs' : runs'[id].wanted /\ id[3] = i
    <3>1. PICK id \in DOMAIN runs : runs[id].wanted /\ id[3] = i
      BY <1>1, <2>3 DEF WantedInv
    <3> QED BY <1>1, <3>1 DEF SameWanted
  <2> QED BY <2>1, <2>2, <2>3 DEF WantedInv
<1>2. UNCHANGED runs => SameWanted
  BY DEF SameWanted
<1>3. CASE Idle /\ SameWanted
  BY <1>3, <1>1, IdleSame DEF Idle
<1>4. ASSUME Running' = {}, \A id \in DOMAIN runs' : ~runs'[id].wanted PROVE WantedInv'
  BY <1>4 DEF WantedInv
<1>5. ASSUME NEW m \in Msgs, Begin(m) \/ Group(m) PROVE WantedInv'
  <2>1. Running = {} /\ Running' = {} /\ runs' = runs
    BY <1>5, StageSteps DEF Begin, Group, Busy, Grouping, Running
  <2> QED BY <2>1, <1>4 DEF WantedInv
<1>6. ASSUME NEW m \in Msgs, BeginRuns(m) PROVE WantedInv'
  <2>1. Running = {} /\ Running' = {m} /\ UNCHANGED <<groups, todo>>
    BY <1>6, StageSteps DEF BeginRuns, Busy, Grouping, Running
  <2>2. \A id \in DOMAIN runs : id \in DOMAIN runs' /\ ~runs'[id].wanted
    BY <1>6, <2>1, BegunRuns DEF WantedInv
  <2>3. ASSUME NEW i \in DOMAIN groups
        PROVE  LET id == RunId(m, i, 1) IN
               /\ id \in DOMAIN runs' /\ runs'[id].wanted
               /\ runs'[id].left \union DOMAIN runs'[id].rests = groups[i]
               /\ id[1] = m /\ id[2] = Len(todo[m]) /\ id[3] = i
    <3> DEFINE id == RunId(m, i, 1)
               r == NewRun(groups[i], IF i \in Alone(groups) THEN "block" ELSE "tx")
    <3>1. id \in DOMAIN runs' /\ runs'[id] = r
      BY <1>6, BegunRuns
    <3>3. r.wanted = TRUE /\ r.left = groups[i] /\ DOMAIN r.rests = {}
      BY BegunShape
    <3>4. id[1] = m /\ id[2] = Len(todo[m]) /\ id[3] = i
      BY DEF RunId
    <3> HIDE DEF id, r
    <3>5. runs'[id].wanted /\ runs'[id].left \union DOMAIN runs'[id].rests = groups[i]
      BY <3>1, <3>3
    <3> QED BY <3>1, <3>4, <3>5 DEF id
  <2>4. \A id \in DOMAIN runs' : runs'[id].wanted => \E i \in DOMAIN groups : id = RunId(m, i, 1)
    BY <1>6, <2>2, BegunRuns
  <2>5. ASSUME NEW id \in DOMAIN runs', runs'[id].wanted
        PROVE  /\ id[1] \in Running' /\ id[2] = Len(todo'[id[1]]) /\ id[3] \in DOMAIN groups'
               /\ runs'[id].left \union DOMAIN runs'[id].rests = groups'[id[3]]
               /\ id = RunId(m, id[3], 1)
    <3>1. PICK i \in DOMAIN groups : id = RunId(m, i, 1)
      BY <2>4, <2>5
    <3> QED BY <2>1, <2>3, <3>1
  <2>6. \A a, b \in DOMAIN runs' : runs'[a].wanted /\ runs'[b].wanted /\ a[3] = b[3] => a = b
    BY <2>5
  <2>7. \A i \in DOMAIN groups' : \E id \in DOMAIN runs' : runs'[id].wanted /\ id[3] = i
    BY <2>1, <2>3
  <2> QED BY <2>5, <2>6, <2>7 DEF WantedInv
<1>7. ASSUME NEW m \in Msgs, Pack(m) PROVE WantedInv'
  <2>1. Running = {m} /\ Running' = {}
    BY <1>7, StageSteps
  <2>2. ASSUME NEW id \in DOMAIN runs' PROVE ~runs'[id].wanted
    <3>1. id \in DOMAIN runs /\ id \notin Waited(m) /\ runs'[id] = runs[id]
      BY <1>7, PackedRuns
    <3> QED BY <2>1, <3>1 DEF WantedInv, Waited
  <2> QED BY <2>1, <2>2, <1>4
<1>8. CASE StartRun
  <2>1. SameWanted
    BY <1>8, StartedSame DEF SameWanted
  <2> QED BY <1>8, <2>1, <1>3, IdleSteps
<1>9. ASSUME NEW id \in DOMAIN runs, Execute(id) PROVE WantedInv'
  BY <1>9, <1>3, ExecutedSame, IdleSteps
<1>10. CASE StartHandler \/ (\E m \in Msgs : Arrive(m) \/ Lock(m) \/ Finish(m)) \/ UNCHANGED vars
  <2>1. UNCHANGED runs
    BY <1>10 DEF StartHandler, Arrive, Lock, Finish, vars
  <2> QED BY <1>2, <1>3, <1>10, <2>1, IdleSteps
<1>11. CASE (\E t \in Txs : Verify(t)) \/ (\E c \in Contracts : Stored(c))
  <2>1. UNCHANGED <<runs, groups, todo, stage>>
    BY <1>11 DEF Verify, Stored, handlerVars
  <2>2. Running' = Running
    BY <2>1 DEF Running
  <2> QED BY <1>1, <1>2, <2>1, <2>2
<1>12. ASSUME NEW m \in Msgs, Judge(m) PROVE WantedInv'
  <2>1. /\ stage[m] = "verifying" /\ Running = {m} /\ Running' = {m} /\ todo' = todo
        /\ groups' = [i \in DOMAIN groups |-> IF i \in ToRedo THEN groups[i] \ Failed ELSE groups[i]]
    BY <1>12, StageSteps DEF Judge
  <2>2. ASSUME NEW i \in ToRedo
        PROVE  LET id == RunId(m, i, 2) IN
               /\ id \in DOMAIN runs' /\ runs'[id].wanted
               /\ runs'[id].left \union DOMAIN runs'[id].rests = groups'[i]
               /\ id[1] = m /\ id[2] = Len(todo[m]) /\ id[3] = i
    <3> DEFINE id == RunId(m, i, 2)
               r == NewRun(groups[i] \ Failed, "tx")
    <3>1. id \in DOMAIN runs' /\ runs'[id] = r
      BY <1>12, JudgedRuns
    <3>2. i \in DOMAIN groups /\ groups[i] \ Failed \in SUBSET Txs /\ groups'[i] = groups[i] \ Failed
      BY <1>0, <2>1 DEF ToRedo
    <3>3. r.wanted = TRUE /\ r.left = groups[i] \ Failed /\ DOMAIN r.rests = {}
      BY <3>2, NewRunShape
    <3>4. id[1] = m /\ id[2] = Len(todo[m]) /\ id[3] = i
      BY DEF RunId
    <3> HIDE DEF id, r
    <3>5. runs'[id].wanted /\ runs'[id].left \union DOMAIN runs'[id].rests = groups'[i]
      BY <3>1, <3>2, <3>3
    <3> QED BY <3>1, <3>4, <3>5 DEF id
  <2>3. ASSUME NEW i \in DOMAIN groups \ ToRedo
        PROVE  LET id == RunId(m, i, 1) IN
               /\ id \in DOMAIN runs' /\ runs'[id].wanted
               /\ runs'[id].left \union DOMAIN runs'[id].rests = groups'[i]
               /\ id[1] = m /\ id[2] = Len(todo[m]) /\ id[3] = i
    <3> DEFINE id == RunId(m, i, 1)
    <3>1. id \in DOMAIN runs /\ runs[id].wanted
      BY <2>1, FirstRuns
    <3>2. id[1] = m /\ id[2] = Len(todo[m]) /\ id[3] = i
      BY DEF RunId
    <3>3. \A j \in ToRedo : id # RunId(m, j, 1)
      BY <2>3 DEF RunId
    <3>4. id \in DOMAIN runs' /\ runs'[id] = runs[id]
      <4> HIDE DEF id
      <4> QED BY <1>12, <3>1, <3>3, JudgedRuns
    <3>5. groups'[i] = groups[i]
      BY <2>1, <2>3
    <3> HIDE DEF id
    <3>6. runs[id].left \union DOMAIN runs[id].rests = groups[i]
      BY <3>1, <3>2 DEF WantedInv
    <3> QED BY <3>1, <3>2, <3>4, <3>5, <3>6 DEF id
  <2>4. ASSUME NEW id \in DOMAIN runs', runs'[id].wanted
        PROVE  \E i \in DOMAIN groups : id = RunId(m, i, IF i \in ToRedo THEN 2 ELSE 1)
    <3>1. CASE id \notin DOMAIN runs
      <4>1. PICK i \in ToRedo : id = RunId(m, i, 2)
        BY <1>12, <3>1, JudgedRuns
      <4> QED BY <4>1 DEF ToRedo
    <3>2. CASE id \in DOMAIN runs
      <4>1. CASE \E i \in ToRedo : id = RunId(m, i, 1)
        <5>1. PICK i \in ToRedo : id = RunId(m, i, 1)
          BY <4>1
        <5>2. runs'[id] = Abandoned(runs[id])
          BY <1>12, <5>1, JudgedRuns
        <5>3. Abandoned(runs[id]).wanted = FALSE
          BY <1>0, <3>2, AbandonedRun
        <5> QED BY <2>4, <5>2, <5>3
      <4>2. CASE \A i \in ToRedo : id # RunId(m, i, 1)
        <5>1. runs'[id] = runs[id]
          BY <1>12, <3>2, <4>2, JudgedRuns
        <5>2. id = RunId(m, id[3], 1) /\ id[3] \in DOMAIN groups
          BY <2>1, <2>4, <3>2, <5>1, FirstRuns DEF WantedInv
        <5> QED BY <4>2, <5>2
      <4> QED BY <4>1, <4>2
    <3> QED BY <3>1, <3>2
  <2>5. ASSUME NEW id \in DOMAIN runs', runs'[id].wanted
        PROVE  /\ id[1] \in Running' /\ id[2] = Len(todo'[id[1]]) /\ id[3] \in DOMAIN groups'
               /\ runs'[id].left \union DOMAIN runs'[id].rests = groups'[id[3]]
               /\ id = RunId(m, id[3], IF id[3] \in ToRedo THEN 2 ELSE 1)
    <3>1. PICK i \in DOMAIN groups : id = RunId(m, i, IF i \in ToRedo THEN 2 ELSE 1)
      BY <2>4, <2>5
    <3>2. DOMAIN groups' = DOMAIN groups
      BY <2>1
    <3>3. CASE i \in ToRedo
      BY <2>1, <2>2, <3>1, <3>2, <3>3
    <3>4. CASE i \notin ToRedo
      BY <2>1, <2>3, <3>1, <3>2, <3>4
    <3> QED BY <3>3, <3>4
  <2>6. \A a, b \in DOMAIN runs' : runs'[a].wanted /\ runs'[b].wanted /\ a[3] = b[3] => a = b
    BY <2>5
  <2>7. \A i \in DOMAIN groups' : \E id \in DOMAIN runs' : runs'[id].wanted /\ id[3] = i
    BY <2>1, <2>2, <2>3
  <2> QED BY <2>5, <2>6, <2>7 DEF WantedInv
<1> QED
  BY <1>5, <1>6, <1>7, <1>8, <1>9, <1>10, <1>11, <1>12
  DEF Next, Working

\* The records of the executions waited for.
LEMMA RecordStep ==
  ASSUME TypeOK, HoldInv, CallInv, GroupInv, RunningInv, OrderInv, IdInv, WantedInv, QueueInv, RecordInv,
         [Next]_vars
  PROVE  RecordInv'
<1>0. /\ groups \in Seq(SUBSET Txs) /\ DOMAIN groups = 1 .. Len(groups)
      /\ \A i \in DOMAIN groups : groups[i] \in SUBSET Txs
      /\ \A id \in DOMAIN runs : runs[id] \in Runs
      /\ batch \in Batches /\ latest \in [Contracts -> {0, -1}]
      /\ verdict \in [Txs -> {"none", "pending", "ok", "failed"}]
  BY LenProperties, ElementOfSeq DEF TypeOK
<1>1. ASSUME UNCHANGED <<info, latest, batch>>, Running' = Running,
             \A u \in Txs : verdict[u] = "failed" => verdict'[u] = "failed",
             \A id \in DOMAIN runs' : runs'[id].wanted =>
               id \in DOMAIN runs /\ runs[id].wanted /\ runs'[id].rests = runs[id].rests
      PROVE  RecordInv'
  <2>1. SUFFICES ASSUME Running # {}, ~batch.twice, NEW id \in DOMAIN runs', runs'[id].wanted,
                        NEW u \in DOMAIN runs'[id].rests
                 PROVE  verdict'[u] = "failed" \/ RecordedIn(info', batch.latest, latest', runs'[id], u)
    BY <1>1 DEF RecordInv
  <2>2. /\ id \in DOMAIN runs /\ runs[id].wanted /\ runs'[id].rests = runs[id].rests
        /\ runs[id] \in Runs
    BY <1>0, <1>1, <2>1
  <2>3. verdict[u] = "failed" \/ RecordedIn(info, batch.latest, latest, runs[id], u)
    BY <2>1, <2>2 DEF RecordInv
  <2>4. u \in Txs
    BY <2>1, <2>2 DEF Runs
  <2> QED BY <1>1, <2>2, <2>3, <2>4 DEF RecordedIn
<1>2. ASSUME NEW m \in Msgs, Begin(m) \/ Group(m) \/ Pack(m) PROVE RecordInv'
  BY <1>2, StageSteps DEF RecordInv
<1>3. ASSUME NEW m \in Msgs, BeginRuns(m) PROVE RecordInv'
  <2>1. Running = {}
    BY <1>3, StageSteps DEF Busy, Grouping, Running, BeginRuns
  <2>2. \A id \in DOMAIN runs : ~runs[id].wanted
    BY <2>1 DEF WantedInv
  <2>3. ASSUME NEW id \in DOMAIN runs', runs'[id].wanted PROVE DOMAIN runs'[id].rests = {}
    <3>1. id \notin DOMAIN runs
      BY <1>3, <2>2, <2>3, BegunRuns
    <3>2. PICK i \in DOMAIN groups : id = RunId(m, i, 1)
      BY <1>3, <3>1, BegunRuns
    <3> DEFINE pool == IF i \in Alone(groups) THEN "block" ELSE "tx"
               r == NewRun(groups[i], pool)
    <3>3. runs'[id] = r
      BY <1>3, <3>2, BegunRuns
    <3> HIDE DEF pool
    <3>4. DOMAIN r.rests = {}
      BY BegunShape
    <3> HIDE DEF r
    <3> QED BY <3>3, <3>4
  <2> QED BY <2>3 DEF RecordInv
<1>4. ASSUME NEW m \in Msgs, Judge(m) PROVE RecordInv'
  <2>1. stage[m] = "verifying" /\ Running = {m} /\ UNCHANGED <<batch, verdict, latest>>
    <3>1. Running = {m}
      BY <1>4, StageSteps
    <3> QED BY <1>4, <3>1 DEF Judge
  <2>2. SUFFICES ASSUME ~batch.twice, NEW id \in DOMAIN runs', runs'[id].wanted,
                        NEW u \in DOMAIN runs'[id].rests
                 PROVE  verdict[u] = "failed" \/ RecordedIn(info', batch.latest, latest', runs'[id], u)
    BY <2>1 DEF RecordInv
  <2>3. CASE id \notin DOMAIN runs
    <3>1. PICK i \in ToRedo : id = RunId(m, i, 2)
      BY <1>4, <2>3, JudgedRuns
    <3>2. runs'[id] = NewRun(groups[i] \ Failed, "tx")
      BY <1>4, <3>1, JudgedRuns
    <3>3. groups[i] \ Failed \in SUBSET Txs
      BY <1>0 DEF ToRedo
    <3>4. DOMAIN runs'[id].rests = {}
      BY <3>2, <3>3, NewRunShape
    <3> QED BY <2>2, <3>4
  <2>4. CASE id \in DOMAIN runs
    <3>1. \A i \in ToRedo : id # RunId(m, i, 1)
      <4>1. SUFFICES ASSUME NEW i \in ToRedo, id = RunId(m, i, 1) PROVE FALSE
        OBVIOUS
      <4>2. runs'[id] = Abandoned(runs[id])
        BY <1>4, <4>1, JudgedRuns
      <4>3. Abandoned(runs[id]).wanted = FALSE
        BY <1>0, <2>4, AbandonedRun
      <4> QED BY <2>2, <4>2, <4>3
    <3>2. runs'[id] = runs[id]
      BY <1>4, <2>4, <3>1, JudgedRuns
    <3>3. id = RunId(m, id[3], 1) /\ id[3] \in DOMAIN groups
      BY <2>1, <2>2, <2>4, <3>2, FirstRuns DEF WantedInv
    <3>4. u \in groups[id[3]] /\ id[3] \notin ToRedo
      BY <2>2, <2>4, <3>1, <3>2, <3>3 DEF WantedInv
    <3>5. \A j \in ToRedo : u \notin groups[j]
      <4>1. \A j \in ToRedo : groups[j] \cap groups[id[3]] = {}
        BY <2>1, <2>2, <3>3, <3>4 DEF RunningInv, ToRedo
      <4> QED BY <3>4, <4>1
    <3>6. verdict[u] = "failed" \/ RecordedIn(info, batch.latest, latest, runs[id], u)
      BY <2>1, <2>2, <2>4, <3>2 DEF RecordInv
    <3>7. u \in Failed => verdict[u] = "failed"
      BY DEF Failed
    <3>8. ASSUME u \notin Failed, RecordedIn(info, batch.latest, latest, runs[id], u) PROVE RecordedIn(info', batch.latest, latest', runs'[id], u)
      <4>1. u \in DOMAIN info' /\ info'[u] = info[u]
        <5>1. u \in DOMAIN info
          BY <3>8 DEF RecordedIn
        <5> QED BY <1>4, <3>5, <3>8, <5>1, JudgedRecords
      <4> QED BY <2>1, <3>2, <3>8, <4>1 DEF RecordedIn
    <3> QED BY <3>6, <3>7, <3>8
  <2> QED BY <2>3, <2>4
<1>5. ASSUME NEW t \in Txs, Verify(t) PROVE RecordInv'
  <2>1. /\ verdict[t] = "pending" /\ UNCHANGED <<stage, batch, runs, info, latest>>
        /\ \/ verdict' = [verdict EXCEPT ![t] = "ok"]
           \/ verdict' = [verdict EXCEPT ![t] = "failed"]
    BY <1>5 DEF Verify, handlerVars
  <2>2. Running' = Running /\ \A u \in Txs : verdict[u] = "failed" => verdict'[u] = "failed"
    BY <1>0, <2>1 DEF Running
  <2> QED BY <2>1, <2>2, <1>1
<1>6. ASSUME NEW c \in Contracts, Stored(c) PROVE RecordInv'
  <2>1. /\ latest[c] = 0 /\ latest' = [latest EXCEPT ![c] = -1]
        /\ UNCHANGED <<stage, batch, runs, info, verdict>>
    BY <1>6 DEF Stored, handlerVars, cacheVars
  <2>2. Running' = Running /\ (Running # {} => Busy # {})
    BY <2>1 DEF Running, Busy
  <2>3. Running # {} => latest' # batch.latest
    <3>1. Running # {} => batch.latest[c] # -1
      BY <2>1, <2>2 DEF CallInv
    <3> QED BY <1>0, <2>1, <3>1
  <2> QED BY <2>1, <2>2, <2>3 DEF RecordInv, RecordedIn
<1>7. CASE StartRun
  <2>1. UNCHANGED <<info, latest, batch, verdict, stage>>
    BY <1>7 DEF StartRun, handlerVars, cacheVars
  <2>2. Running' = Running
    BY <2>1 DEF Running
  <2> QED BY <1>1, <1>7, <2>1, <2>2, StartedSame
<1>8. CASE StartHandler \/ (\E m \in Msgs : Arrive(m) \/ Lock(m) \/ Finish(m)) \/ UNCHANGED vars
  <2>1. UNCHANGED <<runs, info, latest, batch, verdict>>
    BY <1>8 DEF StartHandler, Arrive, Lock, Finish, vars, cacheVars
  <2>2. Running' = Running
    BY <1>8, IdleSteps, IdleSame
  <2> QED BY <1>1, <2>1, <2>2
<1>9. ASSUME NEW id \in DOMAIN runs, Execute(id) PROVE RecordInv'
  <2>1. UNCHANGED <<stage, batch, groups, verdict, latest>>
    BY <1>9 DEF Execute, handlerVars
  <2>2. Running' = Running
    BY <2>1 DEF Running
  <2> DEFINE run == runs[id]
             t == Turn(runs[id])
             D == DOMAIN runs[id].rests
             record == [pre |-> Follows(run), rests |-> RestsOn(run), late |-> ~run.wanted]
  <2>3. /\ run \in Runs /\ InOrder(run) /\ run.state = "running"
        /\ DOMAIN runs' \subseteq DOMAIN runs
        /\ \A o \in DOMAIN runs \ {id} : o \in DOMAIN runs' /\ runs'[o] = runs[o]
        /\ \/ /\ info' = With(info, [u \in {t} |-> record])
              /\ id \in DOMAIN runs' => runs'[id] = After(run)
           \/ /\ info' = info
              /\ id \in DOMAIN runs' => runs'[id] = [run EXCEPT !.state = "ended"]
    BY <1>9, ExecutedRuns
  <2>4. CASE info' = info /\ (id \in DOMAIN runs' => runs'[id] = [run EXCEPT !.state = "ended"])
    <3>1. id \in DOMAIN runs' => runs'[id].wanted = run.wanted /\ runs'[id].rests = run.rests
      <4> DEFINE e == [run EXCEPT !.state = "ended"]
      <4>1. e.wanted = run.wanted /\ e.rests = run.rests
        BY <2>3, ChangedRun
      <4>2. id \in DOMAIN runs' => runs'[id] = e
        BY <2>4
      <4> HIDE DEF e, run
      <4> QED BY <4>1, <4>2
    <3>2. \A o \in DOMAIN runs' : runs'[o].wanted =>
            o \in DOMAIN runs /\ runs[o].wanted /\ runs'[o].rests = runs[o].rests
      BY <2>3, <3>1
    <3> QED BY <1>1, <2>1, <2>2, <2>4, <3>2
  <2>5. CASE info' = With(info, [u \in {t} |-> record]) /\ (id \in DOMAIN runs' => runs'[id] = After(run))
    <3>1. /\ t \in run.left /\ t \in Txs /\ t \notin D
          /\ \A c \in Calls[t] : Follows(run)[c] \in D \union {latest[c]}
          /\ DOMAIN After(run).rests = D \union {t}
          /\ \A u \in D : After(run).rests[u] = run.rests[u]
          /\ After(run).rests[t] = RestsOn(run)
          /\ After(run).wanted = run.wanted
      BY <1>0, <2>3, TurnShape
    <3>2. /\ t \in DOMAIN info' /\ info'[t] = record
          /\ \A u \in DOMAIN info : u \in DOMAIN info' /\ (u # t => info'[u] = info[u])
      <4> HIDE DEF t, record
      <4> QED BY <2>5 DEF With
    <3>3. record.pre = Follows(run) /\ record.rests = RestsOn(run) /\ record.late = ~run.wanted
      OBVIOUS
    <3>4. SUFFICES ASSUME Running # {}, ~batch.twice, NEW o \in DOMAIN runs', runs'[o].wanted,
                          NEW u \in DOMAIN runs'[o].rests
                   PROVE  verdict[u] = "failed" \/ RecordedIn(info', batch.latest, latest', runs'[o], u)
      BY <2>1, <2>2 DEF RecordInv
    <3>5. CASE o = id
      <4>1. runs'[o] = After(run) /\ run.wanted
        BY <2>5, <3>1, <3>4, <3>5
      <4>2. CASE u = t
        <5>1. \A c \in Calls[t] : \/ info'[t].pre[c] \in DOMAIN runs'[o].rests
                                  \/ info'[t].pre[c] = batch.latest[c]
                                  \/ latest # batch.latest
          <6> HIDE DEF t, record, run, D
          <6> QED BY <3>1, <3>2, <3>3, <4>1
        <5>2. info'[t].rests = runs'[o].rests[t]
          <6> HIDE DEF t, record, run, D
          <6> QED BY <3>1, <3>2, <3>3, <4>1
        <5> QED BY <2>1, <3>2, <4>2, <5>1, <5>2 DEF RecordedIn
      <4>3. CASE u # t
        <5>1. u \in D
          <6> HIDE DEF t, run, D
          <6> QED BY <3>1, <3>4, <4>1, <4>3
        <5>2. verdict[u] = "failed" \/ RecordedIn(info, batch.latest, latest, run, u)
          BY <3>4, <4>1, <5>1 DEF RecordInv
        <5>3. D \subseteq DOMAIN runs'[o].rests /\ runs'[o].rests[u] = run.rests[u]
          <6> HIDE DEF t, run, D
          <6> QED BY <3>1, <4>1, <5>1
        <5>4. RecordedIn(info, batch.latest, latest, run, u) => u \in DOMAIN info' /\ info'[u] = info[u]
          <6> HIDE DEF t, record, run
          <6> QED BY <3>2, <4>3 DEF RecordedIn
        <5>5. ASSUME RecordedIn(info, batch.latest, latest, run, u) PROVE RecordedIn(info', batch.latest, latest', runs'[o], u)
          <6> HIDE DEF t, record
          <6> QED BY <2>1, <5>3, <5>4, <5>5 DEF RecordedIn
        <5> QED BY <5>2, <5>5
      <4> QED BY <4>2, <4>3
    <3>6. CASE o # id
      <4>1. o \in DOMAIN runs /\ runs'[o] = runs[o] /\ runs[o].wanted
        BY <2>3, <3>4, <3>6
      <4>2. verdict[u] = "failed" \/ RecordedIn(info, batch.latest, latest, runs[o], u)
        BY <3>4, <4>1 DEF RecordInv
      <4>3. CASE u = t /\ ~run.wanted
        <5>1. info'[u].late
          BY <3>2, <3>3, <4>3
        <5> QED BY <3>2, <4>3, <5>1 DEF RecordedIn
      <4>4. CASE u = t /\ run.wanted
        <5>1. /\ o[3] \in DOMAIN groups /\ id[3] \in DOMAIN groups /\ o[3] # id[3]
              /\ runs[o].left \union DOMAIN runs[o].rests = groups[o[3]]
              /\ run.left \union D = groups[id[3]]
          BY <3>6, <4>1, <4>4 DEF WantedInv
        <5>2. groups[o[3]] \cap groups[id[3]] = {}
          BY <3>4, <5>1 DEF RunningInv
        <5>3. u \in groups[o[3]] /\ u \in groups[id[3]]
          BY <3>1, <3>4, <4>1, <4>4, <5>1
        <5> QED BY <5>2, <5>3
      <4>5. CASE u # t
        <5>1. RecordedIn(info, batch.latest, latest, runs[o], u) => u \in DOMAIN info' /\ info'[u] = info[u]
          <6> HIDE DEF t, record
          <6> QED BY <3>2, <4>5 DEF RecordedIn
        <5>2. ASSUME RecordedIn(info, batch.latest, latest, runs[o], u) PROVE RecordedIn(info', batch.latest, latest', runs'[o], u)
          <6> HIDE DEF t, record
          <6> QED BY <2>1, <4>1, <5>1, <5>2 DEF RecordedIn
        <5> QED BY <4>2, <5>2
      <4> QED BY <4>3, <4>4, <4>5
    <3> QED BY <3>5, <3>6
  <2> QED BY <2>3, <2>4, <2>5
<1> QED
  BY <1>2, <1>3, <1>4, <1>5, <1>6, <1>7, <1>8, <1>9
  DEF Next, Working

-----------------------------------------------------------------------------
\* Type correctness.

\* What an execution records.
LEMMA RecordType ==
  ASSUME TypeOK, OrderInv, NEW id \in DOMAIN runs, runs[id].state = "running"
  PROVE  /\ Turn(runs[id]) \in Txs
         /\ [pre |-> Follows(runs[id]), rests |-> RestsOn(runs[id]), late |-> ~runs[id].wanted] \in Infos
<1> DEFINE run == runs[id]
           t == Turn(run)
           f == Follows(run)
           R == RestsOn(run)
<1>1. run \in Runs /\ InOrder(run) /\ latest \in [Contracts -> {0, -1}]
  BY DEF TypeOK, OrderInv
<1>2. t \in Txs /\ f \in [Calls[t] -> Txs \union {0, -1}] /\ R \subseteq DOMAIN run.rests \union {t}
  BY <1>1, TurnShape
<1>3. DOMAIN run.rests \subseteq Txs /\ run.wanted \in BOOLEAN
  BY <1>1 DEF Runs
<1>4. Calls[t] \in SUBSET Contracts
  BY <1>2, ContractPackingAssumption
<1>5. f \in UNION {[C -> Txs \union {0, -1}] : C \in SUBSET Contracts}
  <2> HIDE DEF t, f
  <2> QED BY <1>2, <1>4
<1>6. R \in SUBSET Txs /\ (~run.wanted) \in BOOLEAN
  <2> HIDE DEF t, R, run
  <2> QED BY <1>2, <1>3
<1>7. [pre |-> f, rests |-> R, late |-> ~run.wanted] \in Infos
  <2> HIDE DEF f, R, run
  <2> QED BY <1>5, <1>6 DEF Infos
<1> QED BY <1>2, <1>7

LEMMA MoreInfos ==
  ASSUME NEW f, AreInfos(f), NEW t \in Txs, NEW r \in Infos
  PROVE  AreInfos(With(f, [u \in {t} |-> r]))
<1> DEFINE add == [u \in {t} |-> r]
<1>1. DOMAIN add = {t} /\ add[t] = r
  OBVIOUS
<1> HIDE DEF add
<1>2. AreInfos(With(f, add))
  BY <1>1 DEF AreInfos, With
<1> QED BY <1>2 DEF add

LEMMA FewerInfos ==
  ASSUME NEW f, AreInfos(f), NEW S
  PROVE  /\ AreInfos(Without(f, S))
         /\ S \subseteq DOMAIN f => AreInfos(Restrict(f, S))
BY DEF AreInfos, Without, Restrict

LEMMA InfoStep ==
  ASSUME TypeOK, OrderInv, [Next]_vars
  PROVE  AreInfos(info')
<1>0. AreInfos(info)
  BY DEF TypeOK
<1>1. ASSUME NEW id \in DOMAIN runs, Execute(id) PROVE AreInfos(info')
  <2> DEFINE r == [pre |-> Follows(runs[id]), rests |-> RestsOn(runs[id]), late |-> ~runs[id].wanted]
             t == Turn(runs[id])
  <2>1. runs[id].state = "running" /\ (info' = info \/ info' = With(info, [u \in {t} |-> r]))
    BY <1>1, ExecutedRuns
  <2>2. t \in Txs /\ r \in Infos
    BY <2>1, RecordType
  <2> HIDE DEF t, r
  <2> QED BY <1>0, <2>1, <2>2, MoreInfos
<1>2. ASSUME NEW m \in Msgs, Judge(m) PROVE AreInfos(info')
  <2> DEFINE gone == (UNION {groups[i] : i \in ToRedo})
                       \union (Failed \cap UNION {groups[i] : i \in batch.alone})
  <2>1. info' = Without(info, gone)
    BY <1>2 DEF Judge
  <2> HIDE DEF gone
  <2> QED BY <1>0, <2>1, FewerInfos
<1>3. ASSUME NEW m \in Msgs, Pack(m) PROVE AreInfos(info')
  <2>1. info' = info \/ info' = <<>>
    BY <1>3 DEF Pack
  <2>2. AreInfos(<<>>)
    BY DEF AreInfos
  <2> QED BY <1>0, <2>1, <2>2
<1>4. CASE UNCHANGED info
  BY <1>0, <1>4
<1> QED
  BY <1>1, <1>2, <1>3, <1>4
  DEF Next, Working, vars, cacheVars, Arrive, StartHandler, StartRun, Lock, Begin, Group, BeginRuns,
      Verify, Finish, Stored

LEMMA GroupsStep ==
  ASSUME TypeOK, [Next]_vars
  PROVE  groups' \in Seq(SUBSET Txs)
<1>0. groups \in Seq(SUBSET Txs) /\ unseen \subseteq Txs /\ batch.txs \subseteq Txs
  BY DEF TypeOK, Batches
<1>1. ASSUME NEW m \in Msgs, Group(m) PROVE groups' \in Seq(SUBSET Txs)
  <2>1. PICK t \in unseen : groups' = Join(groups, CommonKeys(batch.txs, t))
    BY <1>1 DEF Group
  <2>2. CommonKeys(batch.txs, t) \in SUBSET Txs
    BY <1>0 DEF CommonKeys
  <2> QED BY <1>0, <2>1, <2>2, JoinGrows
<1>2. ASSUME NEW m \in Msgs, Judge(m) PROVE groups' \in Seq(SUBSET Txs)
  <2>1. groups' = [i \in DOMAIN groups |-> IF i \in ToRedo THEN groups[i] \ Failed ELSE groups[i]]
    BY <1>2 DEF Judge
  <2>2. DOMAIN groups = 1 .. Len(groups) /\ Len(groups) \in Nat /\ \A i \in DOMAIN groups : groups[i] \in SUBSET Txs
    BY <1>0, LenProperties, ElementOfSeq
  <2>3. \A i \in DOMAIN groups : (IF i \in ToRedo THEN groups[i] \ Failed ELSE groups[i]) \in SUBSET Txs
    BY <2>2
  <2> DEFINE g(i) == IF i \in ToRedo THEN groups[i] \ Failed ELSE groups[i]
  <2>4. groups' = [i \in 1 .. Len(groups) |-> g(i)]
    BY <2>1, <2>2
  <2>5. \A i \in 1 .. Len(groups) : g(i) \in SUBSET Txs
    BY <2>2, <2>3
  <2> HIDE DEF g
  <2> QED BY <2>2, <2>4, <2>5, IsASeq
<1>3. ASSUME NEW m \in Msgs, Pack(m) PROVE groups' \in Seq(SUBSET Txs)
  BY <1>3 DEF Pack
<1>4. CASE UNCHANGED groups
  BY <1>0, <1>4
<1> QED
  BY <1>1, <1>2, <1>3, <1>4
  DEF Next, Working, vars, handlerVars, Arrive, StartHandler, StartRun, Lock, Begin, BeginRuns, Execute,
      Verify, Finish, Stored

LEMMA BatchStep ==
  ASSUME TypeOK, [Next]_vars
  PROVE  batch' \in Batches /\ NoBatch \in Batches
<1>0. /\ batch \in Batches /\ todo \in [Msgs -> Seq(SUBSET Txs)] /\ cache \in SUBSET Txs
      /\ latest \in [Contracts -> {0, -1}]
  BY DEF TypeOK
<1>1. NoBatch \in Batches
  <2>1. [c \in Contracts |-> 0] \in [Contracts -> {0, -1}]
    OBVIOUS
  <2> QED BY <2>1 DEF NoBatch, Batches
<1>2. ASSUME NEW m \in Msgs, Begin(m) PROVE batch' \in Batches
  <2>1. /\ todo[m] \in Seq(SUBSET Txs) /\ todo[m] # <<>>
        /\ batch' = [NoBatch EXCEPT !.txs = Head(todo[m]), !.old = cache, !.latest = latest]
    BY <1>0, <1>2 DEF Begin
  <2>2. Head(todo[m]) \in SUBSET Txs
    BY <2>1, HeadTailProperties, EmptySeq
  <2> DEFINE B == Head(todo[m])
  <2> HIDE DEF B
  <2>3. batch' = [NoBatch EXCEPT !.txs = B, !.old = cache, !.latest = latest] /\ B \in SUBSET Txs
    BY <2>1, <2>2 DEF B
  <2> HIDE DEF NoBatch
  <2> QED BY <1>0, <1>1, <2>3 DEF Batches
<1>3. ASSUME NEW m \in Msgs, BeginRuns(m) PROVE batch' \in Batches
  <2> DEFINE A == Alone(groups)
             T == Twice(groups)
  <2>1. batch' = [batch EXCEPT !.alone = A, !.twice = T]
    BY <1>3 DEF BeginRuns
  <2>2. A \in SUBSET Nat /\ T \in BOOLEAN
    <3>1. DOMAIN groups \subseteq Nat
      BY LenProperties DEF TypeOK
    <3> QED BY <3>1 DEF Alone, Twice
  <2> HIDE DEF A, T
  <2> QED BY <1>0, <2>1, <2>2 DEF Batches
<1>4. ASSUME NEW m \in Msgs, Pack(m) PROVE batch' \in Batches
  BY <1>1, <1>4 DEF Pack
<1>5. CASE UNCHANGED batch
  BY <1>0, <1>1, <1>5
<1>6. batch' \in Batches
  BY <1>2, <1>3, <1>4, <1>5
  DEF Next, Working, vars, handlerVars, Arrive, StartHandler, StartRun, Lock, Group, Judge, Execute,
      Verify, Finish, Stored
<1> QED BY <1>1, <1>6

LastTypes ==
  /\ last.outcome \in {"none", "refused", "failed", "built"}
  /\ last.txs \subseteq Txs /\ AreInfos(last.info) /\ last.batch \in Batches

\* What becomes of last: the block of a call, or nothing.
LEMMA LastSteps ==
  ASSUME [Next]_vars
  PROVE  \/ UNCHANGED last
         \/ last' = NoBlock
         \/ \E m \in Msgs : Pack(m) /\ \E o \in {"refused", "failed", "built"} :
              /\ Remaining(m) # {}
              /\ o = "refused" <=> ~Linked(Remaining(m))
              /\ last' = [outcome |-> o, txs |-> Remaining(m),
                          info |-> Restrict(info, Remaining(m) \intersect DOMAIN info),
                          batch |-> batch, owed |-> Owed(m), moved |-> latest # batch.latest]
<1>1. ASSUME NEW m \in Msgs, Pack(m)
      PROVE  \/ UNCHANGED last
             \/ \E o \in {"refused", "failed", "built"} :
              /\ Remaining(m) # {}
              /\ o = "refused" <=> ~Linked(Remaining(m))
              /\ last' = [outcome |-> o, txs |-> Remaining(m),
                          info |-> Restrict(info, Remaining(m) \intersect DOMAIN info),
                          batch |-> batch, owed |-> Owed(m), moved |-> latest # batch.latest]
  <2> DEFINE block(o) == [outcome |-> o, txs |-> Remaining(m),
                          info |-> Restrict(info, Remaining(m) \intersect DOMAIN info),
                          batch |-> batch, owed |-> Owed(m), moved |-> latest # batch.latest]
  <2>1. \/ UNCHANGED last
        \/ /\ Remaining(m) # {}
           /\ IF Linked(Remaining(m)) THEN \E o \in {"failed", "built"} : last' = block(o)
              ELSE last' = block("refused")
    BY <1>1 DEF Pack
  <2> HIDE DEF block
  <2>2. \/ UNCHANGED last
        \/ \E o \in {"refused", "failed", "built"} :
             /\ Remaining(m) # {}
             /\ o = "refused" <=> ~Linked(Remaining(m))
             /\ last' = block(o)
    BY <2>1
  <2> QED BY <2>2 DEF block
<1> QED
  BY <1>1
  DEF Next, Working, vars, Arrive, StartHandler, StartRun, Lock, Begin, Group, BeginRuns, Judge,
      Execute, Verify, Finish, Stored

LEMMA LastTypesStep ==
  ASSUME TypeOK, [Next]_vars
  PROVE  LastTypes'
<1>1. CASE UNCHANGED last
  BY <1>1 DEF TypeOK, LastTypes
<1>2. CASE last' = NoBlock
  <2>1. AreInfos(<<>>)
    BY DEF AreInfos
  <2> QED BY <1>2, <2>1, BatchStep DEF LastTypes, NoBlock
<1>3. ASSUME NEW m \in Msgs, NEW o \in {"refused", "failed", "built"},
             last' = [outcome |-> o, txs |-> Remaining(m),
                      info |-> Restrict(info, Remaining(m) \intersect DOMAIN info),
                      batch |-> batch, owed |-> Owed(m), moved |-> latest # batch.latest]
      PROVE  LastTypes'
  <2>1. Remaining(m) \subseteq Txs /\ AreInfos(info) /\ batch \in Batches
    BY DEF TypeOK, Remaining
  <2>2. AreInfos(Restrict(info, Remaining(m) \intersect DOMAIN info))
    BY <2>1, FewerInfos
  <2> DEFINE f == Restrict(info, Remaining(m) \intersect DOMAIN info)
  <2>3. /\ last'.outcome = o /\ last'.txs = Remaining(m) /\ last'.info = f /\ last'.batch = batch
    BY <1>3
  <2> HIDE DEF f
  <2> QED BY <2>1, <2>2, <2>3 DEF LastTypes, f
<1> QED BY <1>1, <1>2, <1>3, LastSteps

LEMMA TypeStep ==
  ASSUME TypeOK, HoldInv, GroupInv, OrderInv, IdInv, WantedInv, QueueInv, [Next]_vars
  PROVE  TypeOK'
<1>1. RunTypes' /\ QueueTypes' /\ AreInfos(info') /\ groups' \in Seq(SUBSET Txs) /\ batch' \in Batches /\ LastTypes'
  BY OrderStep, QueueStep, InfoStep, GroupsStep, BatchStep, LastTypesStep
<1>2. Cardinality(Holding') <= 1
  <2>1. \A a, b \in Holding' : a = b
    BY HoldStep DEF HoldInv
  <2>2. CASE Holding' = {}
    BY <2>2, FS_EmptySet
  <2>3. CASE Holding' # {}
    <3>1. PICK m \in Holding' : TRUE
      BY <2>3
    <3>2. Holding' = {m}
      BY <2>1, <3>1
    <3>3. Cardinality({m}) = 1
      BY FS_Singleton
    <3> QED BY <3>2, <3>3
  <2> QED BY <2>2, <2>3
<1>3. load' \in Loads
  BY DEF TypeOK, Next, Working, vars, Arrive, StartHandler, StartRun, Lock, Begin, Group, BeginRuns,
     Judge, Pack, Execute, Verify, Finish, Stored
<1>0. /\ stage \in [Msgs -> {"away", "queued", "waiting", "locked", "grouping", "verifying",
                            "executing", "done"}]
      /\ todo \in [Msgs -> Seq(SUBSET Txs)]
      /\ verdict \in [Txs -> {"none", "pending", "ok", "failed"}]
      /\ unseen \subseteq Txs /\ cache \subseteq Txs /\ latest \in [Contracts -> {0, -1}]
  BY DEF TypeOK
<1>4. stage' \in [Msgs -> {"away", "queued", "waiting", "locked", "grouping", "verifying",
                          "executing", "done"}]
  <2>1. \/ UNCHANGED stage
        \/ \E m, s : stage' = [stage EXCEPT ![m] = s]
             /\ s \in {"away", "queued", "waiting", "locked", "grouping", "verifying", "executing", "done"}
    <3>1. CASE StartHandler
      BY <3>1 DEF StartHandler
    <3>2. CASE UNCHANGED vars \/ StartRun \/ (\E m \in Msgs : Group(m)) \/ (\E t \in Txs : Verify(t))
               \/ (\E id \in DOMAIN runs : Execute(id)) \/ (\E c \in Contracts : Stored(c))
      BY <3>2 DEF vars, handlerVars, StartRun, Group, Verify, Execute, Stored
    <3>3. CASE \E m \in Msgs : Arrive(m) \/ Lock(m) \/ Begin(m) \/ BeginRuns(m) \/ Judge(m) \/ Pack(m) \/ Finish(m)
      BY <3>3 DEF Arrive, Lock, Begin, BeginRuns, Judge, Pack, Finish
    <3> QED BY <3>1, <3>2, <3>3 DEF Next, Working
  <2> QED BY <1>0, <2>1
<1>5. todo' \in [Msgs -> Seq(SUBSET Txs)]
  <2>1. ASSUME NEW m \in Msgs, Pack(m) PROVE todo' \in [Msgs -> Seq(SUBSET Txs)]
    <3>1. m \in Busy
      BY <2>1 DEF Pack, Busy, Running
    <3>2. todo[m] # <<>> /\ todo[m] \in Seq(SUBSET Txs) /\ todo' = [todo EXCEPT ![m] = Tail(todo[m])]
      BY <1>0, <2>1, <3>1 DEF HoldInv, Pack
    <3>3. Tail(todo[m]) \in Seq(SUBSET Txs)
      BY <3>2, HeadTailProperties, EmptySeq
    <3> QED BY <1>0, <3>2, <3>3
  <2>2. CASE UNCHANGED todo
    BY <1>0, <2>2
  <2> QED
    BY <2>1, <2>2
    DEF Next, Working, vars, handlerVars, Arrive, StartHandler, StartRun, Lock, Begin, Group, BeginRuns,
        Judge, Execute, Verify, Finish, Stored
<1>6. verdict' \in [Txs -> {"none", "pending", "ok", "failed"}]
  <2>1. ASSUME NEW t \in Txs, Verify(t) PROVE verdict' \in [Txs -> {"none", "pending", "ok", "failed"}]
    BY <1>0, <2>1 DEF Verify
  <2>2. ASSUME NEW m \in Msgs, Begin(m) \/ Pack(m) PROVE verdict' \in [Txs -> {"none", "pending", "ok", "failed"}]
    BY <2>2 DEF Begin, Pack
  <2>3. CASE UNCHANGED verdict
    BY <1>0, <2>3
  <2> QED
    BY <2>1, <2>2, <2>3
    DEF Next, Working, vars, Arrive, StartHandler, StartRun, Lock, Group, BeginRuns,
        Judge, Execute, Finish, Stored
<1>7. unseen' \subseteq Txs
  <2>1. ASSUME NEW m \in Msgs, Begin(m) PROVE unseen' \subseteq Txs
    <3>1. todo[m] \in Seq(SUBSET Txs) /\ todo[m] # <<>> /\ unseen' = Head(todo[m])
      BY <1>0, <2>1 DEF Begin
    <3>2. Head(todo[m]) \in SUBSET Txs
      BY <3>1, HeadTailProperties, EmptySeq
    <3> QED BY <3>1, <3>2
  <2>2. ASSUME NEW m \in Msgs, Group(m) PROVE unseen' \subseteq Txs
    BY <1>0, <2>2 DEF Group
  <2>3. CASE UNCHANGED unseen
    BY <1>0, <2>3
  <2> QED
    BY <2>1, <2>2, <2>3
    DEF Next, Working, vars, handlerVars, Arrive, StartHandler, StartRun, Lock, BeginRuns,
        Judge, Pack, Execute, Verify, Finish, Stored
<1>8. cache' \subseteq Txs
  <2>1. ASSUME NEW t \in Txs, Verify(t) PROVE cache' \subseteq Txs
    BY <1>0, <2>1 DEF Verify
  <2>2. ASSUME NEW m \in Msgs, Pack(m) PROVE cache' \subseteq Txs
    <3>1. cache' = Remaining(m) \/ cache' = {}
      BY <2>2 DEF Pack
    <3> QED BY <1>0, <3>1 DEF Remaining
  <2>3. CASE UNCHANGED cache
    BY <1>0, <2>3
  <2> QED
    BY <2>1, <2>2, <2>3
    DEF Next, Working, vars, cacheVars, Arrive, StartHandler, StartRun, Lock, Begin, Group, BeginRuns,
        Judge, Execute, Finish, Stored
<1>9. latest' \in [Contracts -> {0, -1}]
  <2>1. ASSUME NEW c \in Contracts, Stored(c) PROVE latest' \in [Contracts -> {0, -1}]
    BY <1>0, <2>1 DEF Stored
  <2>2. CASE UNCHANGED latest
    BY <1>0, <2>2
  <2> QED
    BY <2>1, <2>2
    DEF Next, Working, vars, Arrive, StartHandler, StartRun, Lock, Begin, Group, BeginRuns,
        Judge, Pack, Execute, Verify, Finish
<1> QED
  BY <1>1, <1>2, <1>3, <1>4, <1>5, <1>6, <1>7, <1>8, <1>9
  DEF TypeOK, RunTypes, QueueTypes, Items, LastTypes, AreInfos

-----------------------------------------------------------------------------
\* The invariant holds.

LEMMA InitInv ==
  ASSUME Init
  PROVE  IInv
<1>1. /\ stage = [m \in Msgs |-> "away"] /\ load \in Loads /\ todo = load.todo /\ queue = <<>>
      /\ batch = NoBatch /\ verdict = [t \in Txs |-> "none"] /\ unseen = {} /\ groups = <<>>
      /\ runs = <<>> /\ cache = {} /\ info = <<>> /\ latest = [c \in Contracts |-> 0] /\ last = NoBlock
  BY DEF Init
<1>2. DOMAIN <<>> = {}
  OBVIOUS
<1>3. Busy = {} /\ Grouping = {} /\ Running = {} /\ Holding = {}
  BY <1>1 DEF Busy, Grouping, Running, Holding
<1>4. TypeOK
  <2>1. load.todo \in [Msgs -> Seq(SUBSET Txs)]
    <3>1. load \in [threads : Nat \ {0}, todo : [Msgs -> Seq(SUBSET Txs)]]
      BY <1>1, ContractPackingAssumption
    <3> QED BY <3>1
  <2>2. NoBatch \in Batches
    <3>1. [c \in Contracts |-> 0] \in [Contracts -> {0, -1}]
      OBVIOUS
    <3> QED BY <3>1 DEF NoBatch, Batches
  <2>3. AreInfos(<<>>)
    BY DEF AreInfos
  <2>4. Cardinality(Holding) <= 1
    BY <1>3, FS_EmptySet
  <2>5. /\ stage \in [Msgs -> {"away", "queued", "waiting", "locked", "grouping", "verifying",
                              "executing", "done"}]
        /\ verdict \in [Txs -> {"none", "pending", "ok", "failed"}]
        /\ latest \in [Contracts -> {0, -1}]
    BY <1>1
  <2>6. <<>> \in Seq([kind : {"msg"}, what : Msgs] \union [kind : {"run"}, what : DOMAIN runs])
        /\ <<>> \in Seq(SUBSET Txs)
    OBVIOUS
  <2>7. /\ last.outcome = "none" /\ last.txs = {} /\ last.info = <<>> /\ last.batch = NoBatch
    BY <1>1 DEF NoBlock
  <2> HIDE DEF NoBatch
  <2> QED BY <1>1, <1>2, <2>1, <2>2, <2>3, <2>4, <2>5, <2>6, <2>7 DEF TypeOK
<1>5. HoldInv /\ CallInv
  BY <1>1, <1>3 DEF HoldInv, CallInv
<1>6. GroupInv
  BY <1>1, <1>2 DEF GroupInv, NoBatch
<1>7. RunningInv
  BY <1>1, <1>2, <1>3 DEF RunningInv
<1>8. OrderInv /\ IdInv /\ WantedInv
  BY <1>1, <1>2, <1>3 DEF OrderInv, IdInv, WantedInv
<1>9. QueueInv /\ RecordInv
  BY <1>1, <1>2, <1>3 DEF QueueInv, RecordInv
<1> QED BY <1>4, <1>5, <1>6, <1>7, <1>8, <1>9 DEF IInv

LEMMA InvStep ==
  ASSUME IInv, [Next]_vars
  PROVE  IInv'
BY TypeStep, HoldStep, CallStep, GroupStep, RunningStep, OrderStep, IdStep, WantedStep, QueueStep, RecordStep
   DEF IInv

LEMMA Invariance == Spec => []IInv
<1>1. Init => IInv
  BY InitInv
<1>2. IInv /\ [Next]_vars => IInv'
  BY InvStep
<1> QED BY <1>1, <1>2, PTL DEF Spec

\* The variables keep their types, one message is handled at a time (the
\* mutex _threadMutex of handleContractPackagerMessage), and what is in the
\* queue of the pool is there to be run.
THEOREM TypeCorrect == Spec => []TypeOK
<1>1. IInv => TypeOK
  BY DEF IInv
<1> QED BY <1>1, Invariance, PTL

-----------------------------------------------------------------------------
\* What the end of a call finds.

\* Every execution it waited for has ended, and one that did not reach its end
\* takes its group out of the block.
LEMMA PackFinds ==
  ASSUME IInv, NEW m \in Msgs, Pack(m)
  PROVE  /\ Running = {m} /\ Busy = {m} /\ unseen = {} /\ stage[m] = "executing"
         /\ \A id \in DOMAIN runs : runs[id].wanted => id \in Waited(m)
         /\ \A id \in DOMAIN runs : runs[id].wanted /\ runs[id].left # {} =>
              groups[id[3]] \cap Remaining(m) = {}
         /\ \A s \in Stopped(m) : \E id \in Waited(m) :
              runs[id].left # {} /\ s \in groups[id[3]] /\ id[3] \in DOMAIN groups
<1>1. /\ TypeOK /\ HoldInv /\ GroupInv /\ WantedInv
  BY DEF IInv
<1>2. Running = {m} /\ Busy = {m} /\ stage[m] = "executing"
  BY <1>1, StageSteps DEF Pack
<1>3. unseen = {}
  <2>1. Grouping = {}
    BY <1>1, <1>2, OneBusy DEF Holding
  <2> QED BY <1>1, <2>1 DEF GroupInv
<1>4. ASSUME NEW id \in DOMAIN runs, runs[id].wanted
      PROVE  /\ id \in Waited(m) /\ id[3] \in DOMAIN groups
             /\ runs[id].left \subseteq groups[id[3]] /\ runs[id].left \subseteq Nat
  <2>1. /\ id[1] \in Running /\ id[2] = Len(todo[id[1]]) /\ id[3] \in DOMAIN groups
        /\ runs[id].left \union DOMAIN runs[id].rests = groups[id[3]]
    BY <1>1, <1>4 DEF WantedInv
  <2>2. id[1] = m
    BY <1>2, <2>1
  <2>3. runs[id].left \subseteq Nat
    BY <1>1, TxsAreNumbers DEF TypeOK, Runs
  <2> QED BY <1>4, <2>1, <2>2, <2>3 DEF Waited
<1>5. ASSUME NEW id \in DOMAIN runs, runs[id].wanted, runs[id].left # {}
      PROVE  groups[id[3]] \cap Remaining(m) = {}
  <2> DEFINE s == Least(runs[id].left)
  <2>1. s \in runs[id].left
    BY <1>4, <1>5, LeastIsIn
  <2>2. s \in Stopped(m)
    BY <1>4, <1>5 DEF Stopped
  <2> HIDE DEF s
  <2>3. groups[id[3]] \cap Stopped(m) # {} /\ id[3] \in DOMAIN groups
    BY <1>4, <1>5, <2>1, <2>2
  <2> QED BY <2>3 DEF Remaining
<1>6. ASSUME NEW s \in Stopped(m)
      PROVE  \E id \in Waited(m) :
               runs[id].left # {} /\ s \in groups[id[3]] /\ id[3] \in DOMAIN groups
  <2>1. PICK id \in Waited(m) : runs[id].left # {} /\ s = Least(runs[id].left)
    BY <1>6 DEF Stopped
  <2>2. id \in DOMAIN runs /\ runs[id].wanted
    BY DEF Waited
  <2>3. s \in runs[id].left
    BY <1>4, <2>1, <2>2, LeastIsIn
  <2> QED BY <1>4, <2>1, <2>2, <2>3
<1> QED BY <1>2, <1>3, <1>4, <1>5, <1>6

\* A verified transaction that remains is in a group all of which remains,
\* unless the groups overlap, and whose execution has recorded it.
LEMMA PackKeeps ==
  ASSUME IInv, NEW m \in Msgs, Pack(m), ~batch.twice, batch.old = {}, NEW t \in Remaining(m)
  PROVE  \E id \in DOMAIN runs :
           /\ InOrder(runs[id]) /\ t \in DOMAIN runs[id].rests
           /\ DOMAIN runs[id].rests \subseteq Remaining(m)
           /\ \A u \in Remaining(m) : Share(t, u) => u \in DOMAIN runs[id].rests
           /\ RecordedIn(info, batch.latest, latest, runs[id], t)
<1>1. /\ TypeOK /\ CallInv /\ GroupInv /\ RunningInv /\ OrderInv /\ WantedInv /\ RecordInv
  BY DEF IInv
<1>2. /\ Running = {m} /\ Busy = {m} /\ unseen = {} /\ stage[m] = "executing"
  BY PackFinds
<1>3. ASSUME NEW u \in Remaining(m)
      PROVE  u \in Txs /\ u \in batch.txs /\ u \notin Failed /\ verdict[u] = "ok"
  <2>1. u \in cache
    BY DEF Remaining
  <2>2. u \in Txs /\ verdict[u] = "ok"
    BY <1>1, <1>2, <2>1 DEF CallInv
  <2> QED BY <1>1, <1>2, <2>2 DEF CallInv, Failed
<1>4. PICK i \in DOMAIN groups : CommonKeys(batch.txs, t) \ Failed \subseteq groups[i]
  BY <1>1, <1>2, <1>3 DEF GroupInv
<1>5. t \in groups[i] /\ \A u \in Remaining(m) : Share(t, u) => u \in groups[i]
  <2>1. t \in CommonKeys(batch.txs, t)
    BY DEF CommonKeys
  <2>2. ASSUME NEW u \in Remaining(m), Share(t, u) PROVE u \in CommonKeys(batch.txs, t)
    BY <1>3, <2>2 DEF CommonKeys, Share
  <2> QED BY <1>3, <1>4, <2>1, <2>2
<1>6. PICK id \in DOMAIN runs : runs[id].wanted /\ id[3] = i
  BY <1>1, <1>2 DEF WantedInv
<1>7. DOMAIN runs[id].rests = groups[i]
  <2>1. runs[id].left = {}
    BY <1>5, <1>6, PackFinds
  <2> QED BY <1>1, <1>6, <2>1 DEF WantedInv
<1>8. groups[i] \cap Failed = {}
  <2>1. CASE i \in batch.alone
    <3>1. groups[i] = {t}
      BY <1>1, <1>2, <1>5, <2>1 DEF RunningInv
    <3> QED BY <1>3, <3>1
  <2>2. CASE i \notin batch.alone
    BY <1>1, <1>2, <2>2 DEF RunningInv
  <2> QED BY <2>1, <2>2
<1>9. ASSUME NEW u \in groups[i] PROVE u \in Remaining(m)
  <2>1. u \in batch.txs /\ u \notin Failed
    BY <1>1, <1>8 DEF GroupInv
  <2>2. u \in Txs
    BY <1>1, <2>1 DEF TypeOK, Batches
  <2>3. verdict[u] = "ok"
    <3>1. verdict[u] \in {"none", "pending", "ok", "failed"}
      BY <1>1, <2>2 DEF TypeOK
    <3>2. verdict[u] # "none" /\ verdict[u] # "pending"
      BY <1>1, <1>2, <2>1, <2>2 DEF CallInv
    <3> QED BY <2>1, <3>1, <3>2 DEF Failed
  <2>4. u \in cache
    BY <1>1, <1>2, <2>2, <2>3 DEF CallInv
  <2>5. ASSUME NEW j \in DOMAIN groups, groups[j] \cap Stopped(m) # {} PROVE u \notin groups[j]
    <3>1. SUFFICES ASSUME u \in groups[j] PROVE FALSE
      OBVIOUS
    <3>2. i = j
      BY <1>1, <1>2, <3>1 DEF RunningInv
    <3>3. t \notin Remaining(m)
      BY <1>5, <2>5, <3>2 DEF Remaining
    <3> QED BY <3>3
  <2> QED BY <2>4, <2>5 DEF Remaining
<1>10. RecordedIn(info, batch.latest, latest, runs[id], t)
  BY <1>1, <1>2, <1>3, <1>5, <1>6, <1>7 DEF RecordInv
<1>11. InOrder(runs[id])
  BY <1>1 DEF OrderInv
<1> QED BY <1>5, <1>7, <1>9, <1>10, <1>11

\* A transaction of the call that remains keeps its record.
LEMMA KeptRecord ==
  ASSUME NEW S, NEW t \in S, t \in DOMAIN info
  PROVE  /\ t \in DOMAIN Restrict(info, S \intersect DOMAIN info)
         /\ Restrict(info, S \intersect DOMAIN info)[t] = info[t]
BY DEF Restrict

-----------------------------------------------------------------------------
\* The properties of the blocks.

LEMMA RestsOnBlockStep ==
  ASSUME IInv, RestsOnBlock, [Next]_vars
  PROVE  RestsOnBlock'
<1>1. CASE UNCHANGED last
  BY <1>1 DEF RestsOnBlock
<1>2. CASE last' = NoBlock
  BY <1>2 DEF RestsOnBlock, NoBlock
<1>3. ASSUME NEW m \in Msgs, Pack(m), NEW o \in {"refused", "failed", "built"},
             o = "refused" <=> ~Linked(Remaining(m)),
             last' = [outcome |-> o, txs |-> Remaining(m),
                      info |-> Restrict(info, Remaining(m) \intersect DOMAIN info),
                      batch |-> batch, owed |-> Owed(m), moved |-> latest # batch.latest]
      PROVE  RestsOnBlock'
  <2> DEFINE f == Restrict(info, Remaining(m) \intersect DOMAIN info)
  <2>1. /\ last'.outcome = o /\ last'.txs = Remaining(m) /\ last'.info = f /\ last'.batch = batch
    BY <1>3
  <2>2. SUFFICES ASSUME o = "built", ~batch.twice, batch.old = {}, NEW t \in Remaining(m)
                 PROVE  f[t].late \/ f[t].rests \subseteq Remaining(m)
    <3> HIDE DEF f
    <3> QED BY <2>1 DEF RestsOnBlock
  <2>3. PICK id \in DOMAIN runs :
          /\ InOrder(runs[id]) /\ t \in DOMAIN runs[id].rests
          /\ DOMAIN runs[id].rests \subseteq Remaining(m)
          /\ RecordedIn(info, batch.latest, latest, runs[id], t)
    BY <1>3, <2>2, PackKeeps
  <2>4. f[t] = info[t]
    BY <2>3, KeptRecord DEF RecordedIn
  <2>5. runs[id].rests[t] \subseteq DOMAIN runs[id].rests
    BY <2>3 DEF InOrder
  <2> HIDE DEF f
  <2> QED BY <2>3, <2>4, <2>5 DEF RecordedIn
<1> QED BY <1>1, <1>2, <1>3, LastSteps

\* No transaction of a block was executed on top of one that is not in it: an
\* execution runs a whole group, and a group whose execution failed leaves the
\* block as a whole (removeContractsCacheRequest).  The three exceptions of the
\* property are those of the code: records of an abandoned execution, groups
\* that overlap, transactions left behind by an earlier call.
THEOREM BlockRestsOnItself == Spec => []RestsOnBlock
<1>1. Init => RestsOnBlock
  BY DEF Init, NoBlock, RestsOnBlock
<1>2. IInv /\ RestsOnBlock /\ [Next]_vars => RestsOnBlock'
  BY RestsOnBlockStep
<1> QED BY <1>1, <1>2, Invariance, PTL DEF Spec

LEMMA OneAfterAnotherStep ==
  ASSUME IInv, OneAfterAnother, [Next]_vars
  PROVE  OneAfterAnother'
<1>1. CASE UNCHANGED last
  BY <1>1 DEF OneAfterAnother
<1>2. CASE last' = NoBlock
  BY <1>2 DEF OneAfterAnother, NoBlock
<1>3. ASSUME NEW m \in Msgs, Pack(m), NEW o \in {"refused", "failed", "built"},
             o = "refused" <=> ~Linked(Remaining(m)),
             last' = [outcome |-> o, txs |-> Remaining(m),
                      info |-> Restrict(info, Remaining(m) \intersect DOMAIN info),
                      batch |-> batch, owed |-> Owed(m), moved |-> latest # batch.latest]
      PROVE  OneAfterAnother'
  <2> DEFINE f == Restrict(info, Remaining(m) \intersect DOMAIN info)
  <2>1. /\ last'.outcome = o /\ last'.txs = Remaining(m) /\ last'.info = f /\ last'.batch = batch
    BY <1>3
  <2>2. SUFFICES ASSUME o = "built", ~batch.twice, batch.old = {},
                        NEW t \in Remaining(m), NEW u \in Remaining(m), t < u, Share(t, u)
                 PROVE  f[u].late \/ t \in f[u].rests
    <3> HIDE DEF f
    <3> QED BY <2>1 DEF OneAfterAnother
  <2>3. PICK id \in DOMAIN runs :
          /\ InOrder(runs[id]) /\ u \in DOMAIN runs[id].rests
          /\ \A v \in Remaining(m) : Share(u, v) => v \in DOMAIN runs[id].rests
          /\ RecordedIn(info, batch.latest, latest, runs[id], u)
    BY <1>3, <2>2, PackKeeps
  <2>4. f[u] = info[u]
    BY <2>3, KeptRecord DEF RecordedIn
  <2>5. t \in runs[id].rests[u]
    <3>1. t \in DOMAIN runs[id].rests
      BY <2>2, <2>3 DEF Share
    <3> QED BY <2>2, <2>3, <3>1 DEF InOrder
  <2> HIDE DEF f
  <2> QED BY <2>3, <2>4, <2>5 DEF RecordedIn
<1> QED BY <1>1, <1>2, <1>3, LastSteps

\* Two transactions of a block that share a contract were executed one on top
\* of the other, in the order of their hashes, with the same exceptions: what
\* shares a contract is in one group (GetDependentData), and executeContracts
\* runs a group from its least transaction on.
THEOREM SharersInOrder == Spec => []OneAfterAnother
<1>1. Init => OneAfterAnother
  BY DEF Init, NoBlock, OneAfterAnother
<1>2. IInv /\ OneAfterAnother /\ [Next]_vars => OneAfterAnother'
  BY OneAfterAnotherStep
<1> QED BY <1>1, <1>2, Invariance, PTL DEF Spec

\* Groups that do not overlap lose a transaction with their own execution only.
LEMMA OwedRemains ==
  ASSUME IInv, NEW m \in Msgs, Pack(m), ~batch.twice
  PROVE  Owed(m) \subseteq Remaining(m)
<1>1. CallInv /\ RunningInv /\ TypeOK
  BY DEF IInv
<1>2. Running = {m} /\ Busy = {m}
  BY PackFinds
<1> SUFFICES ASSUME NEW t \in Owed(m) PROVE t \in Remaining(m)
  OBVIOUS
<1>3. /\ t \in batch.txs /\ verdict[t] = "ok"
      /\ \A id \in Waited(m) : t \in groups[id[3]] => runs[id].left = {}
  BY DEF Owed
<1>4. t \in cache
  BY <1>1, <1>2, <1>3 DEF CallInv, TypeOK, Batches
<1>5. ASSUME NEW j \in DOMAIN groups, groups[j] \cap Stopped(m) # {}, t \in groups[j] PROVE FALSE
  <2>1. PICK s \in Stopped(m) : s \in groups[j]
    BY <1>5
  <2>2. PICK id \in Waited(m) : runs[id].left # {} /\ s \in groups[id[3]] /\ id[3] \in DOMAIN groups
    BY PackFinds
  <2>3. id[3] = j
    BY <1>1, <1>2, <2>1, <2>2 DEF RunningInv
  <2> QED BY <1>3, <1>5, <2>2, <2>3
<1> QED BY <1>4, <1>5 DEF Remaining

\* Where no record is late and nothing was stored since the call began, each
\* transaction follows one of the block or what is stored.
LEMMA RemainingLinked ==
  ASSUME IInv, NEW m \in Msgs, Pack(m), ~batch.twice, batch.old = {}, latest = batch.latest,
         \A t \in Remaining(m) \cap DOMAIN info : ~info[t].late
  PROVE  Linked(Remaining(m))
<1> SUFFICES ASSUME NEW t \in Remaining(m)
             PROVE  /\ t \in DOMAIN info
                    /\ \A c \in Calls[t] : info[t].pre[c] \in Remaining(m) \union {latest[c]}
  BY DEF Linked
<1>1. PICK id \in DOMAIN runs :
        /\ DOMAIN runs[id].rests \subseteq Remaining(m)
        /\ RecordedIn(info, batch.latest, latest, runs[id], t)
  BY PackKeeps
<1>2. t \in DOMAIN info
  BY <1>1 DEF RecordedIn
<1>3. \A c \in Calls[t] : info[t].pre[c] \in DOMAIN runs[id].rests \/ info[t].pre[c] = latest[c]
  BY <1>1, <1>2 DEF RecordedIn
<1> QED BY <1>1, <1>2, <1>3

LEMMA LostForCauseStep ==
  ASSUME IInv, LostForCause, [Next]_vars
  PROVE  LostForCause'
<1>1. CASE UNCHANGED last
  BY <1>1 DEF LostForCause
<1>2. CASE last' = NoBlock
  BY <1>2 DEF LostForCause, NoBlock
<1>3. ASSUME NEW m \in Msgs, Pack(m), NEW o \in {"refused", "failed", "built"},
             o = "refused" <=> ~Linked(Remaining(m)),
             last' = [outcome |-> o, txs |-> Remaining(m),
                      info |-> Restrict(info, Remaining(m) \intersect DOMAIN info),
                      batch |-> batch, owed |-> Owed(m), moved |-> latest # batch.latest]
      PROVE  LostForCause'
  <2> DEFINE f == Restrict(info, Remaining(m) \intersect DOMAIN info)
             moved == latest # batch.latest
  <2>1. /\ last'.outcome = o /\ last'.txs = Remaining(m) /\ last'.info = f /\ last'.batch = batch
        /\ last'.owed = Owed(m) /\ last'.moved = moved
    BY <1>3
  <2>2. o = "built" => batch.twice \/ Owed(m) \subseteq Remaining(m)
    BY <1>3, OwedRemains
  <2>3. o = "refused" => moved \/ batch.twice \/ batch.old # {} \/ \E t \in DOMAIN f : f[t].late
    <3>1. SUFFICES ASSUME ~Linked(Remaining(m)), ~moved, ~batch.twice, batch.old = {}
                   PROVE  \E t \in DOMAIN f : f[t].late
      BY <1>3
    <3>2. PICK t \in Remaining(m) \cap DOMAIN info : info[t].late
      BY <1>3, <3>1, RemainingLinked
    <3>3. t \in DOMAIN f /\ f[t] = info[t]
      BY KeptRecord
    <3> HIDE DEF f
    <3> QED BY <3>2, <3>3
  <2> HIDE DEF f, moved
  <2> QED BY <2>1, <2>2, <2>3 DEF LostForCause
<1> QED BY <1>1, <1>2, <1>3, LastSteps

\* A verified transaction whose execution came to its end is in the block,
\* unless the groups overlap; and fetchContractTxPreHash refuses a block only
\* if a predecessor was stored meanwhile, or for one of the three exceptions.
THEOREM LossHasCause == Spec => []LostForCause
<1>1. Init => LostForCause
  BY DEF Init, NoBlock, LostForCause
<1>2. IInv /\ LostForCause /\ [Next]_vars => LostForCause'
  BY LostForCauseStep
<1> QED BY <1>1, <1>2, Invariance, PTL DEF Spec

=============================================================================
