--------------------------- MODULE WaitDataProofs ---------------------------
(***************************************************************************)
(* Theorems about the request/response rendezvous, for any set of calls,   *)
(* peers and quorums.                                                      *)
(***************************************************************************)
EXTENDS WaitData, FiniteSetTheorems, TLAPS

-----------------------------------------------------------------------------
\* The type invariant holds in the initial state and one step keeps it.

LEMMA TypeInit == Init => TypeOK
BY WaitDataAssumption DEF Init, TypeOK, Ids, PCs

LEMMA TypeStep == TypeOK /\ [Next]_vars => TypeOK'
<1> SUFFICES ASSUME TypeOK, [Next]_vars PROVE TypeOK'
  OBVIOUS
<1> USE WaitDataAssumption DEF TypeOK, Ids, PCs
<1>1. ASSUME NEW c \in Calls, CreateWait(c) PROVE TypeOK'
  BY <1>1 DEF CreateWait
<1>2. ASSUME NEW c \in Calls, NEW n \in Nodes, AskNode(c, n) PROVE TypeOK'
  BY <1>2 DEF AskNode
<1>3. ASSUME NEW c \in Calls, AskFails(c) PROVE TypeOK'
  BY <1>3 DEF AskFails
<1>4. ASSUME NEW c \in Calls, WaitLookup(c) PROVE TypeOK'
  BY <1>4 DEF WaitLookup
<1>5. ASSUME NEW c \in Calls, WaitBlock(c) PROVE TypeOK'
  BY <1>5 DEF WaitBlock
<1>6. ASSUME NEW c \in Calls, WaitReady(c) PROVE TypeOK'
  BY <1>6 DEF WaitReady
<1>7. ASSUME NEW c \in Calls, WaitWake(c) PROVE TypeOK'
  BY <1>7 DEF WaitWake
<1>8. ASSUME NEW c \in Calls, WaitErase(c) PROVE TypeOK'
  BY <1>8 DEF WaitErase
<1>9. ASSUME NEW c \in Calls, NEW n \in Nodes, Answer(c, n) PROVE TypeOK'
  BY <1>9 DEF Answer
<1>10. ASSUME NEW a \in acks, AddLookup(a) PROVE TypeOK'
  BY <1>10 DEF AddLookup
<1>11. ASSUME NEW a \in adding, AddData(a) PROVE TypeOK'
  BY <1>11 DEF AddData
<1>12. ASSUME NEW a \in adding, AddRefused(a) PROVE TypeOK'
  BY <1>12 DEF AddRefused
<1>13. ASSUME Tick PROVE TypeOK'
  BY <1>13 DEF Tick
<1>14. ASSUME UNCHANGED vars PROVE TypeOK'
  BY <1>14 DEF vars
<1> QED
  BY <1>1, <1>2, <1>3, <1>4, <1>5, <1>6, <1>7, <1>8, <1>9, <1>10, <1>11,
     <1>12, <1>13, <1>14 DEF Next, CallStep, NetStep

\* Every variable stays in its type, and WaitData never works on an object it
\* does not hold.
THEOREM TypeCorrect == Spec => []TypeOK
BY TypeInit, TypeStep, PTL DEF Spec

-----------------------------------------------------------------------------
\* The steps of DistinctInv.

LEMMA DistinctInit == Init => DistinctInv
BY WaitDataAssumption
   DEF Init, DistinctInv, Untouched, SameId, CountedOnce, DistinctAnswers,
       Started, Ids

\* A call that has begun keeps its id, so a call that shares its id with no
\* other after a step shared it with no other before.
LEMMA StaysAlone ==
  ASSUME TypeOK, [Next]_vars, NEW o \in Calls, Started(o)
  PROVE  /\ Started(o)' /\ msgId'[o] = msgId[o]
         /\ Alone(o)' => Alone(o)
<1>1. \A d \in Calls : Started(d) => Started(d)' /\ msgId'[d] = msgId[d]
  <2> USE DEF TypeOK, Started, PCs
  <2>1. ASSUME NEW c \in Calls, CreateWait(c)
        PROVE  \A e \in Calls : Started(e) => Started(e)' /\ msgId'[e] = msgId[e]
    BY <2>1 DEF CreateWait
  <2>2. ASSUME NEW c \in Calls, NEW n \in Nodes, AskNode(c, n)
        PROVE  \A e \in Calls : Started(e) => Started(e)' /\ msgId'[e] = msgId[e]
    BY <2>2 DEF AskNode
  <2>3. ASSUME NEW c \in Calls, AskFails(c)
        PROVE  \A e \in Calls : Started(e) => Started(e)' /\ msgId'[e] = msgId[e]
    BY <2>3 DEF AskFails
  <2>4. ASSUME NEW c \in Calls, WaitLookup(c)
        PROVE  \A e \in Calls : Started(e) => Started(e)' /\ msgId'[e] = msgId[e]
    BY <2>4 DEF WaitLookup
  <2>5. ASSUME NEW c \in Calls, WaitBlock(c)
        PROVE  \A e \in Calls : Started(e) => Started(e)' /\ msgId'[e] = msgId[e]
    BY <2>5 DEF WaitBlock
  <2>6. ASSUME NEW c \in Calls, WaitReady(c)
        PROVE  \A e \in Calls : Started(e) => Started(e)' /\ msgId'[e] = msgId[e]
    BY <2>6 DEF WaitReady
  <2>7. ASSUME NEW c \in Calls, WaitWake(c)
        PROVE  \A e \in Calls : Started(e) => Started(e)' /\ msgId'[e] = msgId[e]
    BY <2>7 DEF WaitWake
  <2>8. ASSUME NEW c \in Calls, WaitErase(c)
        PROVE  \A e \in Calls : Started(e) => Started(e)' /\ msgId'[e] = msgId[e]
    BY <2>8 DEF WaitErase
  <2>9. ASSUME NEW c \in Calls, NEW n \in Nodes, Answer(c, n)
        PROVE  \A e \in Calls : Started(e) => Started(e)' /\ msgId'[e] = msgId[e]
    BY <2>9 DEF Answer
  <2>10. ASSUME NEW a \in acks, AddLookup(a)
        PROVE  \A e \in Calls : Started(e) => Started(e)' /\ msgId'[e] = msgId[e]
    BY <2>10 DEF AddLookup
  <2>11. ASSUME NEW a \in adding, AddData(a)
        PROVE  \A e \in Calls : Started(e) => Started(e)' /\ msgId'[e] = msgId[e]
    BY <2>11 DEF AddData
  <2>12. ASSUME NEW a \in adding, AddRefused(a)
        PROVE  \A e \in Calls : Started(e) => Started(e)' /\ msgId'[e] = msgId[e]
    BY <2>12 DEF AddRefused
  <2>13. ASSUME Tick
        PROVE  \A e \in Calls : Started(e) => Started(e)' /\ msgId'[e] = msgId[e]
    BY <2>13 DEF Tick
  <2>14. ASSUME UNCHANGED vars
        PROVE  \A e \in Calls : Started(e) => Started(e)' /\ msgId'[e] = msgId[e]
    BY <2>14 DEF vars
  <2> QED
    BY <2>1, <2>2, <2>3, <2>4, <2>5, <2>6, <2>7, <2>8, <2>9, <2>10, <2>11,
       <2>12, <2>13, <2>14 DEF Next, CallStep, NetStep
<1> QED BY <1>1 DEF Alone

\* What an id leads to, and the objects that calls hold, have that id.
LEMMA SameIdStep ==
  ASSUME TypeOK, SameId, [Next]_vars
  PROVE  SameId'
<1> USE WaitDataAssumption DEF TypeOK, PCs
<1> DEFINE Holds(d) == pc[d] \in {"entered", "blocked"}
           Kept == \A m \in Ids : globalData'[m] # None => globalData'[m] = globalData[m]
           Still == \A d \in Calls : Holds(d)' => Holds(d) /\ held'[d] = held[d]
<1>a. \A d \in Calls : pc[d] # "idle" => pc'[d] # "idle" /\ msgId'[d] = msgId[d]
  BY StaysAlone DEF Started
<1>b. Kept => \A m \in Ids : globalData'[m] # None =>
                 pc'[globalData'[m]] # "idle" /\ msgId'[globalData'[m]] = m
  BY <1>a DEF SameId, Started
<1>c. ASSUME NEW d \in Calls, Holds(d)', Holds(d), held'[d] = held[d]
      PROVE  pc'[held'[d]] # "idle" /\ msgId'[held'[d]] = msgId'[d]
  <2>1. pc[d] # "idle" /\ pc[held[d]] # "idle" /\ held[d] \in Calls /\ msgId[held[d]] = msgId[d]
    BY <1>c DEF SameId, Started
  <2> QED BY <1>a, <1>c, <2>1
<1>d. Kept /\ Still => SameId'
  BY <1>b, <1>c DEF SameId, Started
<1>1. ASSUME NEW c \in Calls, CreateWait(c) PROVE SameId'
  <2>1. Still
    BY <1>1 DEF CreateWait
  <2>2. ASSUME NEW m \in Ids, globalData'[m] # None
        PROVE  pc'[globalData'[m]] # "idle" /\ msgId'[globalData'[m]] = m
    <3>1. CASE globalData'[m] = globalData[m]
      BY <1>a, <2>2, <3>1 DEF SameId, Started
    <3>2. CASE globalData'[m] # globalData[m]
      <4>1. m = clock /\ globalData'[m] = c
        BY <1>1, <3>2 DEF CreateWait
      <4> QED BY <1>1, <4>1 DEF CreateWait, Started
    <3> QED BY <3>1, <3>2
  <2> QED BY <1>c, <2>1, <2>2 DEF SameId, Started
<1>2. ASSUME NEW c \in Calls, NEW n \in Nodes, AskNode(c, n) PROVE SameId'
  <2>1. Kept /\ Still
    BY <1>2 DEF AskNode
  <2> QED BY <1>d, <2>1
<1>4. ASSUME NEW c \in Calls, WaitLookup(c) PROVE SameId'
  <2>1. Kept
    BY <1>4 DEF WaitLookup
  <2>2. ASSUME NEW d \in Calls, Holds(d)'
        PROVE  pc'[held'[d]] # "idle" /\ msgId'[held'[d]] = msgId'[d]
    <3>1. CASE d # c
      <4>1. Holds(d) /\ held'[d] = held[d]
        BY <1>4, <2>2, <3>1 DEF WaitLookup
      <4> QED BY <1>c, <2>2, <4>1
    <3>2. CASE d = c
      <4>1. /\ held'[d] = globalData[msgId[d]]
            /\ globalData[msgId[d]] # None
            /\ msgId' = msgId
        BY <1>4, <2>2, <3>2 DEF WaitLookup
      <4>2. globalData[msgId[d]] \in Calls /\ msgId[d] \in Ids
        BY <4>1
      <4>3. pc[held'[d]] # "idle" /\ msgId[held'[d]] = msgId[d]
        BY <4>1, <4>2 DEF SameId, Started
      <4> QED BY <1>a, <4>1, <4>2, <4>3
    <3> QED BY <3>1, <3>2
  <2> QED BY <1>b, <2>1, <2>2 DEF SameId, Started
<1>3. ASSUME NEW c \in Calls, AskFails(c) PROVE SameId'
  <2>1. Kept /\ Still
    BY <1>3 DEF AskFails
  <2> QED BY <1>d, <2>1
<1>5. ASSUME NEW c \in Calls, WaitBlock(c) PROVE SameId'
  <2>1. Kept /\ Still
    BY <1>5 DEF WaitBlock
  <2> QED BY <1>d, <2>1
<1>6. ASSUME NEW c \in Calls, WaitReady(c) PROVE SameId'
  <2>1. Kept /\ Still
    BY <1>6 DEF WaitReady
  <2> QED BY <1>d, <2>1
<1>7. ASSUME NEW c \in Calls, WaitWake(c) PROVE SameId'
  <2>1. Kept /\ Still
    BY <1>7 DEF WaitWake
  <2> QED BY <1>d, <2>1
<1>8. ASSUME NEW c \in Calls, WaitErase(c) PROVE SameId'
  <2>1. Kept /\ Still
    BY <1>8 DEF WaitErase
  <2> QED BY <1>d, <2>1
<1>9. ASSUME NEW c \in Calls, NEW n \in Nodes, Answer(c, n) PROVE SameId'
  <2>1. Kept /\ Still
    BY <1>9 DEF Answer
  <2> QED BY <1>d, <2>1
<1>10. ASSUME NEW a \in acks, AddLookup(a) PROVE SameId'
  <2>1. Kept /\ Still
    BY <1>10 DEF AddLookup
  <2> QED BY <1>d, <2>1
<1>11. ASSUME NEW a \in adding, AddData(a) PROVE SameId'
  <2>1. Kept /\ Still
    BY <1>11 DEF AddData
  <2> QED BY <1>d, <2>1
<1>12. ASSUME NEW a \in adding, AddRefused(a) PROVE SameId'
  <2>1. Kept /\ Still
    BY <1>12 DEF AddRefused
  <2> QED BY <1>d, <2>1
<1>13. ASSUME Tick PROVE SameId'
  <2>1. Kept /\ Still
    BY <1>13 DEF Tick
  <2> QED BY <1>d, <2>1
<1>14. ASSUME UNCHANGED vars PROVE SameId'
  <2>1. Kept /\ Still
    BY <1>14 DEF vars
  <2> QED BY <1>d, <2>1
<1> QED
  BY <1>1, <1>2, <1>3, <1>4, <1>5, <1>6, <1>7, <1>8, <1>9, <1>10, <1>11,
     <1>12, <1>13, <1>14 DEF Next, CallStep, NetStep

\* Objects change only through calls that have begun.
LEMMA UntouchedStep ==
  ASSUME TypeOK, SameId, CountedOnce, Untouched, [Next]_vars
  PROVE  Untouched'
<1> USE DEF Untouched, SameId, Started, TypeOK, Ids, PCs
<1>1. ASSUME NEW c \in Calls, CreateWait(c)
      PROVE  Untouched'
  BY <1>1 DEF CreateWait
<1>2. ASSUME NEW c \in Calls, NEW n \in Nodes, AskNode(c, n)
      PROVE  Untouched'
  BY <1>2 DEF AskNode
<1>3. ASSUME NEW c \in Calls, AskFails(c)
      PROVE  Untouched'
  BY <1>3 DEF AskFails
<1>4. ASSUME NEW c \in Calls, WaitLookup(c)
      PROVE  Untouched'
  BY <1>4 DEF WaitLookup
<1>5. ASSUME NEW c \in Calls, WaitBlock(c)
      PROVE  Untouched'
  BY <1>5 DEF WaitBlock
<1>6. ASSUME NEW c \in Calls, WaitReady(c)
      PROVE  Untouched'
  BY <1>6 DEF WaitReady
<1>7. ASSUME NEW c \in Calls, WaitWake(c)
      PROVE  Untouched'
  BY <1>7 DEF WaitWake
<1>8. ASSUME NEW c \in Calls, WaitErase(c)
      PROVE  Untouched'
  BY <1>8 DEF WaitErase
<1>9. ASSUME NEW c \in Calls, NEW n \in Nodes, Answer(c, n)
      PROVE  Untouched'
  BY <1>9 DEF Answer
<1>10. ASSUME NEW a \in acks, AddLookup(a)
      PROVE  Untouched'
  BY <1>10 DEF AddLookup
<1>11. ASSUME NEW a \in adding, AddData(a)
      PROVE  Untouched'
  BY <1>11 DEF AddData
<1>12. ASSUME NEW a \in adding, AddRefused(a)
      PROVE  Untouched'
  BY <1>12 DEF AddRefused
<1>13. ASSUME Tick
      PROVE  Untouched'
  BY <1>13 DEF Tick
<1>14. ASSUME UNCHANGED vars
      PROVE  Untouched'
  BY <1>14 DEF vars
<1> QED
  BY <1>1, <1>2, <1>3, <1>4, <1>5, <1>6, <1>7, <1>8, <1>9, <1>10, <1>11,
     <1>12, <1>13, <1>14 DEF Next, CallStep, NetStep

\* What DistinctInv says of one object and of what its call was handed.
Good(o) ==
  /\ resIds[o] \subseteq asked[o]
  /\ \A i \in DOMAIN data[o] : data[o][i] \in asked[o] \ resIds[o]
  /\ \A i, j \in DOMAIN data[o] : data[o][i] = data[o][j] => i = j
  /\ \A i \in DOMAIN retData[o] : retData[o][i] \in asked[o]
  /\ \A i, j \in DOMAIN retData[o] : retData[o][i] = retData[o][j] => i = j

LEMMA CountStep ==
  ASSUME TypeOK, DistinctInv, [Next]_vars
  PROVE  CountedOnce' /\ DistinctAnswers'
<1> SUFFICES ASSUME NEW o \in Calls, Started(o)', Alone(o)'
             PROVE  Good(o)'
  <2>1. Untouched'
    BY UntouchedStep DEF DistinctInv
  <2> QED BY <2>1 DEF CountedOnce, DistinctAnswers, Untouched, Good
<1> USE DEF TypeOK, Good
<1>0. Good(o)
  <2>1. CASE Started(o)
    <3>1. Alone(o)
      BY <2>1, StaysAlone
    <3> QED BY <2>1, <3>1 DEF DistinctInv, CountedOnce, DistinctAnswers
  <2>2. CASE ~Started(o)
    BY <2>2 DEF DistinctInv, Untouched
  <2> QED BY <2>1, <2>2
\* A call that has begun and has the id of o is o.
<1>a. ASSUME NEW c \in Calls, Started(c), Started(o), msgId[c] = msgId[o]
      PROVE  c = o
  BY <1>a, StaysAlone DEF Alone
<1>1. ASSUME NEW c \in Calls, CreateWait(c) PROVE Good(o)'
  BY <1>0, <1>1 DEF CreateWait
<1>2. ASSUME NEW c \in Calls, NEW n \in Nodes, AskNode(c, n) PROVE Good(o)'
  <2>1. globalData[msgId[c]] = o => c = o
    BY <1>2, <1>a DEF AskNode, DistinctInv, SameId, Started
  <2> QED BY <1>0, <1>2, <2>1 DEF AskNode
<1>3. ASSUME NEW c \in Calls, AskFails(c) PROVE Good(o)'
  BY <1>0, <1>3 DEF AskFails
<1>4. ASSUME NEW c \in Calls, WaitLookup(c) PROVE Good(o)'
  BY <1>0, <1>4 DEF WaitLookup
<1>5. ASSUME NEW c \in Calls, WaitBlock(c) PROVE Good(o)'
  BY <1>0, <1>5 DEF WaitBlock
<1>6. ASSUME NEW c \in Calls, WaitReady(c) PROVE Good(o)'
  <2>1. c = o => held[c] = o
    BY <1>6, StaysAlone DEF WaitReady, DistinctInv, SameId, Started, Alone
  <2> QED BY <1>0, <1>6, <2>1 DEF WaitReady
<1>7. ASSUME NEW c \in Calls, WaitWake(c) PROVE Good(o)'
  <2>1. c = o => held[c] = o
    BY <1>7, StaysAlone DEF WaitWake, DistinctInv, SameId, Started, Alone
  <2> QED BY <1>0, <1>7, <2>1 DEF WaitWake
<1>8. ASSUME NEW c \in Calls, WaitErase(c) PROVE Good(o)'
  BY <1>0, <1>8 DEF WaitErase
<1>9. ASSUME NEW c \in Calls, NEW n \in Nodes, Answer(c, n) PROVE Good(o)'
  BY <1>0, <1>9 DEF Answer
<1>10. ASSUME NEW a \in acks, AddLookup(a) PROVE Good(o)'
  BY <1>0, <1>10 DEF AddLookup
<1>11. ASSUME NEW a \in adding, AddData(a) PROVE Good(o)'
  <2>1. CASE o # a.obj
    BY <1>0, <1>11, <2>1 DEF AddData
  <2>2. CASE o = a.obj
    <3>1. /\ a.node \in resIds[o]
          /\ data'[o] = Append(data[o], a.node)
          /\ resIds'[o] = resIds[o] \ {a.node}
          /\ asked' = asked /\ retData' = retData
      BY <1>11, <2>2 DEF AddData
    <3>2. data[o] \in Seq(Nodes) /\ a.node \in Nodes
      BY <1>11
    <3>3. /\ DOMAIN data'[o] = 1 .. Len(data[o]) + 1
          /\ \A i \in DOMAIN data[o] : data'[o][i] = data[o][i]
          /\ data'[o][Len(data[o]) + 1] = a.node
          /\ DOMAIN data[o] = 1 .. Len(data[o])
          /\ Len(data[o]) \in Nat
      BY <3>1, <3>2
    <3>4. \A i \in DOMAIN data'[o] : i \in DOMAIN data[o] \/ i = Len(data[o]) + 1
      BY <3>3
    <3>5. \A i \in DOMAIN data[o] : data[o][i] # a.node
      BY <1>0, <3>1
    <3>6. \A i \in DOMAIN data'[o] : data'[o][i] \in asked'[o] \ resIds'[o]
      BY <1>0, <3>1, <3>3, <3>4
    <3>7. \A i, j \in DOMAIN data'[o] : data'[o][i] = data'[o][j] => i = j
      BY <1>0, <3>3, <3>4, <3>5
    <3> QED BY <1>0, <3>1, <3>6, <3>7
  <2> QED BY <2>1, <2>2
<1>12. ASSUME NEW a \in adding, AddRefused(a) PROVE Good(o)'
  BY <1>0, <1>12 DEF AddRefused
<1>13. ASSUME Tick PROVE Good(o)'
  BY <1>0, <1>13 DEF Tick
<1>14. ASSUME UNCHANGED vars PROVE Good(o)'
  BY <1>0, <1>14 DEF vars
<1> QED
  BY <1>1, <1>2, <1>3, <1>4, <1>5, <1>6, <1>7, <1>8, <1>9, <1>10, <1>11,
     <1>12, <1>13, <1>14 DEF Next, CallStep, NetStep

\* The answers a call gets back are those of distinct peers it asked, unless
\* another call started in the same microsecond.
THEOREM AnswersAreDistinct == Spec => []DistinctAnswers
<1>1. TypeOK /\ DistinctInv /\ [Next]_vars => (TypeOK /\ DistinctInv)'
  BY TypeStep, SameIdStep, UntouchedStep, CountStep DEF DistinctInv
<1>2. Init => TypeOK /\ DistinctInv
  BY TypeInit, DistinctInit
<1>3. DistinctInv => DistinctAnswers
  BY DEF DistinctInv
<1> QED BY <1>1, <1>2, <1>3, PTL DEF Spec

-----------------------------------------------------------------------------
\* A quorum completed before a call blocks or while it is blocked wakes it.
THEOREM QuorumWakes == Spec => []NoLostWakeup
<1> USE WaitDataAssumption DEF NoLostWakeup, TypeOK
<1>1. Init => NoLostWakeup
  BY DEF Init
<1>2. TypeOK /\ NoLostWakeup /\ [Next]_vars => NoLostWakeup'
  <2> SUFFICES ASSUME TypeOK, NoLostWakeup, [Next]_vars PROVE NoLostWakeup'
    OBVIOUS
  <2>1. ASSUME NEW c \in Calls, CallStep(c) PROVE NoLostWakeup'
    <3>1. ASSUME NEW n \in Nodes, AskNode(c, n) PROVE NoLostWakeup'
      BY <3>1 DEF AskNode
    <3>2. CASE CreateWait(c)
      BY <3>2 DEF CreateWait
    <3>3. CASE AskFails(c)
      BY <3>3 DEF AskFails
    <3>4. CASE WaitLookup(c)
      BY <3>4 DEF WaitLookup
    <3>5. CASE WaitBlock(c)
      BY <3>5 DEF WaitBlock
    <3>6. CASE WaitReady(c)
      BY <3>6 DEF WaitReady
    <3>7. CASE WaitWake(c)
      BY <3>7 DEF WaitWake
    <3>8. CASE WaitErase(c)
      BY <3>8 DEF WaitErase
    <3> QED BY <2>1, <3>1, <3>2, <3>3, <3>4, <3>5, <3>6, <3>7, <3>8 DEF CallStep
  <2>2. ASSUME NetStep PROVE NoLostWakeup'
    <3>1. ASSUME NEW c \in Calls, NEW n \in Nodes, Answer(c, n)
          PROVE  NoLostWakeup'
      BY <3>1 DEF Answer
    <3>2. ASSUME NEW a \in acks, AddLookup(a) PROVE NoLostWakeup'
      BY <3>2 DEF AddLookup
    <3>3. ASSUME NEW a \in adding, AddData(a) PROVE NoLostWakeup'
      <4> SUFFICES ASSUME NEW c \in Calls, pc[c] = "blocked",
                          Len(data'[held[c]]) >= RetNum[held[c]]
                   PROVE  c \in signalled'
        BY <3>3 DEF AddData
      <4>1. a.obj \in Calls /\ a.node \in Nodes /\ held[c] \in Calls
        BY <3>3
      <4>2. CASE held[c] = a.obj
        <5>1. Len(data'[a.obj]) = Len(data[a.obj]) + 1
          BY <3>3, <4>1 DEF AddData
        <5> QED BY <3>3, <4>1, <4>2, <5>1 DEF AddData
      <4>3. CASE held[c] # a.obj
        BY <3>3, <4>1, <4>3 DEF AddData
      <4> QED BY <4>2, <4>3
    <3>4. ASSUME NEW a \in adding, AddRefused(a) PROVE NoLostWakeup'
      BY <3>4 DEF AddRefused
    <3> QED BY <2>2, <3>1, <3>2, <3>3, <3>4 DEF NetStep
  <2>3. CASE Tick
    BY <2>3 DEF Tick
  <2>4. CASE UNCHANGED vars
    BY <2>4 DEF vars
  <2> QED BY <2>1, <2>2, <2>3, <2>4 DEF Next
<1> QED BY <1>1, <1>2, TypeCorrect, PTL DEF Spec

-----------------------------------------------------------------------------
(***************************************************************************)
(* AnswersBounded compares two counts: the answers an object holds from a  *)
(* peer, with one more if it still expects one, and the calls that asked   *)
(* this peer under the object's id.  Asking adds one to both sides;        *)
(* storing an answer moves one from expected to held.  Only finitely many  *)
(* calls have begun at any time, so that both counts are numbers.          *)
(***************************************************************************)
Askers(o, n) == {c \in Calls : n \in asked[c] /\ msgId[c] = msgId[o]}
Counted(o, n) == {i \in DOMAIN data[o] : data[o][i] = n}
Expected(o, n) == IF n \in resIds[o] THEN 1 ELSE 0
Begun == {c \in Calls : Started(c)}

Bound(o, n) ==
  Cardinality(Counted(o, n)) + Expected(o, n) <= Cardinality(Askers(o, n))

BoundedInv == TypeOK /\ DistinctInv /\ IsFiniteSet(Begun) /\ AnswersBounded

\* One call begins at a time.
LEMMA BegunFinite ==
  ASSUME TypeOK, IsFiniteSet(Begun), [Next]_vars
  PROVE  IsFiniteSet(Begun')
<1> USE DEF TypeOK, Started, PCs
<1>1. ASSUME NEW c \in Calls, CallStep(c) PROVE IsFiniteSet(Begun')
  <2>1. Begun' \subseteq Begun \union {c}
    BY <1>1 DEF Begun, CallStep, CreateWait, AskNode, AskFails, WaitLookup, WaitBlock,
                WaitReady, WaitWake, WaitErase
  <2> QED BY <2>1, FS_AddElement, FS_Subset
<1>2. CASE NetStep \/ Tick \/ UNCHANGED vars
  BY <1>2 DEF Begun, NetStep, Answer, AddLookup, AddData, AddRefused, Tick, vars
<1> QED BY <1>1, <1>2 DEF Next

\* Both sides of the bound are numbers.
LEMMA CountsAreFinite ==
  ASSUME TypeOK, Untouched, IsFiniteSet(Begun), NEW o \in Calls, NEW n
  PROVE  /\ IsFiniteSet(Askers(o, n)) /\ Cardinality(Askers(o, n)) \in Nat
         /\ IsFiniteSet(Counted(o, n)) /\ Cardinality(Counted(o, n)) \in Nat
<1>1. Askers(o, n) \subseteq Begun
  BY DEF Askers, Begun, Untouched
<1>2. Counted(o, n) \subseteq 1 .. Len(data[o]) /\ Len(data[o]) \in Nat
  BY DEF Counted, TypeOK
<1>3. IsFiniteSet(1 .. Len(data[o]))
  BY <1>2, FS_Interval
<1>4. IsFiniteSet(Askers(o, n)) /\ IsFiniteSet(Counted(o, n))
  BY <1>1, <1>2, <1>3, FS_Subset
<1> QED BY <1>4, FS_CardinalityType

LEMMA BoundedStep ==
  ASSUME BoundedInv, [Next]_vars
  PROVE  AnswersBounded'
<1> SUFFICES ASSUME NEW o \in Calls, NEW n \in Nodes PROVE Bound(o, n)'
  BY DEF AnswersBounded, Bound, Counted, Expected, Askers
<1>0. TypeOK /\ DistinctInv /\ Untouched /\ SameId
  BY DEF BoundedInv, DistinctInv
<1> USE <1>0 DEF TypeOK
<1>a. Bound(o, n)
  BY DEF BoundedInv, AnswersBounded, Bound, Counted, Expected, Askers
<1>b. /\ IsFiniteSet(Askers(o, n)) /\ Cardinality(Askers(o, n)) \in Nat
      /\ IsFiniteSet(Counted(o, n)) /\ Cardinality(Counted(o, n)) \in Nat
  BY <1>0, CountsAreFinite DEF BoundedInv
<1>c. /\ IsFiniteSet(Askers(o, n)') /\ Cardinality(Askers(o, n)') \in Nat
      /\ IsFiniteSet(Counted(o, n)')
  <2>1. TypeOK' /\ Untouched' /\ IsFiniteSet(Begun')
    BY <1>0, TypeStep, UntouchedStep, BegunFinite DEF BoundedInv, DistinctInv
  <2>2. Askers(o, n)' \subseteq Begun'
    BY <2>1 DEF Askers, Begun, Untouched
  <2>3. Counted(o, n)' \subseteq 1 .. Len(data'[o]) /\ Len(data'[o]) \in Nat
    BY <2>1 DEF Counted
  <2>4. IsFiniteSet(1 .. Len(data'[o]))
    BY <2>3, FS_Interval
  <2>5. IsFiniteSet(Askers(o, n)') /\ IsFiniteSet(Counted(o, n)')
    BY <2>1, <2>2, <2>3, <2>4, FS_Subset
  <2> QED BY <2>5, FS_CardinalityType
<1>d. ASSUME asked' = asked, msgId' = msgId, resIds' = resIds, data' = data
      PROVE  Bound(o, n)'
  BY <1>a, <1>d DEF Bound, Askers, Counted, Expected
<1>1. ASSUME NEW c \in Calls, CreateWait(c) PROVE Bound(o, n)'
  <2>1. asked[c] = {} /\ resIds[c] = {} /\ data[c] = <<>>
    BY <1>0, <1>1 DEF CreateWait, Untouched, Started
  <2>2. CASE o = c
    <3>1. Counted(o, n)' = {} /\ Expected(o, n)' = 0
      BY <1>1, <2>1, <2>2 DEF CreateWait, Counted, Expected
    <3> QED BY <1>c, <3>1, FS_EmptySet DEF Bound
  <2>3. CASE o # c
    <3>1. Askers(o, n)' = Askers(o, n)
      BY <1>1, <2>1, <2>3 DEF CreateWait, Askers
    <3> QED BY <1>1, <1>a, <3>1 DEF Bound, CreateWait, Counted, Expected
  <2> QED BY <2>2, <2>3
<1>2. ASSUME NEW c \in Calls, NEW m \in Nodes, AskNode(c, m) PROVE Bound(o, n)'
  <2> DEFINE e == globalData[msgId[c]]
  <2>1. e \in Calls /\ msgId[e] = msgId[c]
    BY <1>0, <1>2 DEF AskNode, SameId
  <2>2. /\ data' = data /\ msgId' = msgId
        /\ resIds' = [resIds EXCEPT ![e] = @ \union {m}]
        /\ asked' = [asked EXCEPT ![c] = @ \union {m}]
        /\ m \notin asked[c]
    BY <1>2 DEF AskNode
  <2> HIDE DEF e
  <2>3. Counted(o, n)' = Counted(o, n)
    BY <2>2 DEF Counted
  <2>4. CASE n = m /\ msgId[o] = msgId[c]
    <3>1. Askers(o, n)' = Askers(o, n) \union {c} /\ c \notin Askers(o, n)
      BY <2>2, <2>4 DEF Askers
    <3>2. Cardinality(Askers(o, n)') = Cardinality(Askers(o, n)) + 1
      BY <1>b, <3>1, FS_AddElement
    <3>3. Expected(o, n) \in 0..1 /\ Expected(o, n)' \in 0..1
      BY DEF Expected
    <3> QED BY <1>a, <1>b, <2>3, <3>2, <3>3 DEF Bound
  <2>5. CASE ~(n = m /\ msgId[o] = msgId[c])
    <3>1. Askers(o, n)' = Askers(o, n)
      BY <2>2, <2>5 DEF Askers
    <3>2. Expected(o, n)' = Expected(o, n)
      BY <2>1, <2>2, <2>5 DEF Expected
    <3> QED BY <1>a, <2>3, <3>1, <3>2 DEF Bound
  <2> QED BY <2>4, <2>5
<1>3. ASSUME NEW a \in adding, AddData(a) PROVE Bound(o, n)'
  <2>1. Askers(o, n)' = Askers(o, n)
    BY <1>3 DEF AddData, Askers
  <2>2. CASE o = a.obj /\ n = a.node
    <3>1. /\ a.node \in resIds[o]
          /\ data'[o] = Append(data[o], n)
          /\ resIds'[o] = resIds[o] \ {n}
      BY <1>3, <2>2 DEF AddData
    <3>2. Expected(o, n) = 1 /\ Expected(o, n)' = 0
      BY <2>2, <3>1 DEF Expected
    <3>3. data[o] \in Seq(Nodes) /\ Len(data[o]) \in Nat
      OBVIOUS
    <3>4. /\ Counted(o, n)' = Counted(o, n) \union {Len(data[o]) + 1}
          /\ Len(data[o]) + 1 \notin Counted(o, n)
      BY <3>1, <3>3 DEF Counted
    <3>5. Cardinality(Counted(o, n)') = Cardinality(Counted(o, n)) + 1
      BY <1>b, <3>4, FS_AddElement
    <3> QED BY <1>a, <1>b, <2>1, <3>2, <3>5 DEF Bound
  <2>3. CASE ~(o = a.obj /\ n = a.node)
    <3>1. Expected(o, n)' = Expected(o, n)
      BY <1>3, <2>3 DEF AddData, Expected
    <3>2. Counted(o, n)' = Counted(o, n)
      <4>1. CASE o # a.obj
        BY <1>3, <4>1 DEF AddData, Counted
      <4>2. CASE o = a.obj
        <5>1. data'[o] = Append(data[o], a.node) /\ data[o] \in Seq(Nodes) /\ a.node # n
          BY <1>3, <2>3, <4>2 DEF AddData
        <5> QED BY <5>1 DEF Counted
      <4> QED BY <4>1, <4>2
    <3> QED BY <1>a, <2>1, <3>1, <3>2 DEF Bound
  <2> QED BY <2>2, <2>3
<1>4. ASSUME NEW c \in Calls,
             AskFails(c) \/ WaitLookup(c) \/ WaitBlock(c) \/ WaitReady(c)
               \/ WaitWake(c) \/ WaitErase(c)
      PROVE  Bound(o, n)'
  BY <1>4, <1>d DEF AskFails, WaitLookup, WaitBlock, WaitReady, WaitWake, WaitErase
<1>5. CASE Tick \/ UNCHANGED vars
  BY <1>5, <1>d DEF Tick, vars
<1>6. ASSUME NEW c \in Calls, NEW m \in Nodes, Answer(c, m) PROVE Bound(o, n)'
  BY <1>6, <1>d DEF Answer
<1>7. ASSUME NEW a \in acks, AddLookup(a) PROVE Bound(o, n)'
  BY <1>7, <1>d DEF AddLookup
<1>8. ASSUME NEW a \in adding, AddRefused(a) PROVE Bound(o, n)'
  BY <1>8, <1>d DEF AddRefused
<1> QED
  BY <1>1, <1>2, <1>3, <1>4, <1>5, <1>6, <1>7, <1>8 DEF Next, CallStep, NetStep

LEMMA BoundedInit == Init => BoundedInv
<1> SUFFICES ASSUME Init PROVE BoundedInv
  OBVIOUS
<1>1. TypeOK /\ DistinctInv
  BY TypeInit, DistinctInit
<1>2. Begun = {}
  BY DEF Init, Begun, Started
<1>3. IsFiniteSet(Begun)
  BY <1>2, FS_EmptySet
<1>4. ASSUME NEW o \in Calls, NEW n \in Nodes PROVE Bound(o, n)
  <2>1. Counted(o, n) = {} /\ Expected(o, n) = 0
    BY DEF Init, Counted, Expected
  <2>2. Cardinality(Askers(o, n)) \in Nat
    BY <1>1, <1>3, CountsAreFinite DEF DistinctInv
  <2> QED BY <2>1, <2>2, FS_EmptySet DEF Bound
<1> QED
  BY <1>1, <1>3, <1>4
     DEF BoundedInv, AnswersBounded, Bound, Counted, Expected, Askers

\* A peer counts at most once for every call that asked it under the id,
\* however many calls share the microsecond and whatever the network
\* duplicates: an answer is stored only while its sender is in res_ids.
THEOREM AnswersAreBounded == Spec => []AnswersBounded
<1>1. BoundedInv /\ [Next]_vars => BoundedInv'
  <2> SUFFICES ASSUME BoundedInv, [Next]_vars PROVE BoundedInv'
    OBVIOUS
  <2> QED BY TypeStep, SameIdStep, UntouchedStep, CountStep, BegunFinite, BoundedStep
             DEF BoundedInv, DistinctInv
<1>2. BoundedInv => AnswersBounded
  BY DEF BoundedInv
<1> QED BY BoundedInit, <1>1, <1>2, PTL DEF Spec
=============================================================================
