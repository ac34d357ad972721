----------------------- MODULE ContractDispatchProofs -----------------------
(***************************************************************************)
(* Theorems about ContractDispatch for any nodes, requests and addresses.  *)
(*                                                                         *)
(* SentOnce: while a request is in the cache and not among those to        *)
(* remove, it has not been sent; it joins those to remove before it is     *)
(* sent, and only their removal ends the check.  FlushedOnce: what a flush *)
(* sends is in the dependency cache of the flushing node, alone, until the *)
(* flush wipes it.  SharedTogether: a key that was visited has a group     *)
(* with its neighbours, groups only grow, and dep_mutex_ keeps the         *)
(* neighbours the same.                                                    *)
(***************************************************************************)
EXTENDS ContractDispatch, SequenceTheorems, WellFoundedInduction, TLAPS

-----------------------------------------------------------------------------
\* What Merge and GroupData return.

LEMMA MinExists ==
  ASSUME NEW S, S \subseteq Nat, S # {}
  PROVE  \E x \in S : \A y \in S : x <= y
<1> DEFINE R == {p \in Nat \X Nat : p[1] < p[2]}
<1>1. IsWellFoundedOn(R, Nat)
  <2>1. R = OpToRel(<, Nat)
    BY DEF OpToRel
  <2> QED BY <2>1, NatLessThanWellFounded
<1>2. \E x \in S : \A y \in S : <<y, x>> \notin R
  <2> HIDE DEF R
  <2> QED BY <1>1, WFMin
<1>3. \A x, y \in S : <<y, x>> \notin R => x <= y
  <2> SUFFICES ASSUME NEW x \in S, NEW y \in S, <<y, x>> \notin R PROVE x <= y
    OBVIOUS
  <2>1. x \in Nat /\ y \in Nat
    OBVIOUS
  <2>2. <<y, x>> \in Nat \X Nat => ~ (y < x)
    OBVIOUS
  <2> QED BY <2>1, <2>2
<1> QED BY <1>2, <1>3

\* Merge puts keys into one group, loses nothing, and adds keys alone.
LEMMA MergeJoins ==
  ASSUME NEW S, NEW gs \in Seq(SUBSET S), NEW keys \in SUBSET S
  PROVE  /\ Merge(gs, keys) \in Seq(SUBSET S)
         /\ \E i \in DOMAIN Merge(gs, keys) : keys \subseteq Merge(gs, keys)[i]
         /\ \A j \in DOMAIN gs : /\ j \in DOMAIN Merge(gs, keys)
                                 /\ gs[j] \subseteq Merge(gs, keys)[j]
         /\ \A i \in DOMAIN Merge(gs, keys) :
              \/ Merge(gs, keys)[i] \subseteq keys
              \/ i \in DOMAIN gs /\ Merge(gs, keys)[i] \subseteq gs[i] \union keys
<1> DEFINE meets == {i \in DOMAIN gs : gs[i] \cap keys # {}}
           first == CHOOSE i \in meets : \A j \in meets : i <= j
<1>0. Len(gs) \in Nat /\ DOMAIN gs = 1 .. Len(gs)
  BY LenProperties
<1>1. CASE meets = {}
  <2>1. Merge(gs, keys) = Append(gs, keys)
    BY <1>1 DEF Merge
  <2>2. /\ Append(gs, keys) \in Seq(SUBSET S)
        /\ Len(Append(gs, keys)) = Len(gs) + 1
        /\ \A i \in 1 .. Len(gs) : Append(gs, keys)[i] = gs[i]
        /\ Append(gs, keys)[Len(gs) + 1] = keys
    BY AppendProperties
  <2>3. DOMAIN Append(gs, keys) = 1 .. Len(gs) + 1
    BY <2>2
  <2> QED BY <1>0, <2>1, <2>2, <2>3
<1>2. CASE meets # {}
  <2>1. first \in meets
    <3>0. meets \subseteq Nat
      BY <1>0
    <3>1. \E i \in meets : \A j \in meets : i <= j
      <4> HIDE DEF meets
      <4> QED BY <1>2, <3>0, MinExists
    <3> QED BY <3>1
  <2>2. Merge(gs, keys) = [gs EXCEPT ![first] = @ \union keys]
    BY <1>2 DEF Merge
  <2> HIDE DEF first
  <2>3. first \in 1 .. Len(gs) /\ gs[first] \in SUBSET S
    BY <2>1, <1>0, ElementOfSeq
  <2>4. [gs EXCEPT ![first] = @ \union keys] = [gs EXCEPT ![first] = gs[first] \union keys]
    BY <2>3
  <2>5. /\ Merge(gs, keys) \in Seq(SUBSET S)
        /\ Len(Merge(gs, keys)) = Len(gs)
        /\ \A j \in 1 .. Len(gs) :
             Merge(gs, keys)[j] = IF j = first THEN gs[first] \union keys ELSE gs[j]
    BY <2>2, <2>3, <2>4, ExceptSeq
  <2>6. DOMAIN Merge(gs, keys) = 1 .. Len(gs)
    BY <2>5
  <2> QED BY <1>0, <2>3, <2>5, <2>6
<1> QED BY <1>1, <1>2

LEMMA Retyped ==
  ASSUME NEW S, NEW T, NEW s \in Seq(S), \A i \in 1 .. Len(s) : s[i] \in T
  PROVE  s \in Seq(T)
<1>1. Len(s) \in Nat /\ s = [i \in 1 .. Len(s) |-> s[i]]
  BY LenProperties
<1>2. [i \in 1 .. Len(s) |-> s[i]] \in Seq(T)
  BY <1>1, IsASeq
<1> QED BY <1>1, <1>2

LEMMA PartBounds ==
  ASSUME NEW size \in Nat, NEW i \in 1 .. Parts, Parts \in Nat \ {0}
  PROVE  /\ size % Parts \in Nat /\ size \div Parts \in Nat
         /\ (size % Parts) + i * (size \div Parts) <= size
         /\ (i - 1) * (size \div Parts) >= 0
<1> DEFINE per == size \div Parts
           rem == size % Parts
<1>1. per \in Nat /\ rem \in Nat /\ size = Parts * per + rem
  OBVIOUS
<1> HIDE DEF per, rem
<1>2. i * per <= Parts * per /\ (i - 1) * per >= 0
  BY <1>1
<1> QED BY <1>1, <1>2 DEF per, rem

\* The batches are made of the groups.
LEMMA GroupDataOf ==
  ASSUME NEW S, NEW gs \in Seq(SUBSET S), Parts \in Nat \ {0}
  PROVE  GroupData(gs) \in Seq(SUBSET S)
<1> DEFINE size == Len(gs)
           per == size \div Parts
           rem == size % Parts
           First(i) == IF i = 1 THEN 1 ELSE rem + (i - 1) * per + 1
           Part(i) == UNION {gs[j] : j \in First(i) .. rem + i * per}
<1>1. size \in Nat
  BY LenProperties
<1>2. ASSUME NEW i \in 1 .. Parts PROVE Part(i) \in SUBSET S
  <2>1. /\ rem \in Nat /\ per \in Nat
        /\ rem + i * per <= size /\ (i - 1) * per >= 0
    BY <1>1, PartBounds
  <2>2. \A j \in First(i) .. rem + i * per : j \in 1 .. size
    <3> HIDE DEF rem, per, size
    <3>1. (i - 1) * per \in Int /\ i * per \in Int
      BY <2>1
    <3>2. First(i) \in Int /\ First(i) >= 1
      BY <2>1, <3>1
    <3> QED BY <1>1, <2>1, <3>1, <3>2
  <2>3. \A j \in 1 .. size : gs[j] \in SUBSET S
    BY ElementOfSeq
  <2> QED BY <2>2, <2>3
<1>3. [i \in 1 .. Parts |-> Part(i)] \in Seq(SUBSET S)
  <2> HIDE DEF Part
  <2> QED BY <1>2, IsASeq
<1>4. GroupData(gs) = IF size <= Parts THEN gs ELSE [i \in 1 .. Parts |-> Part(i)]
  BY DEF GroupData
<1> QED BY <1>3, <1>4

-----------------------------------------------------------------------------
\* The type invariant.

LEMMA TypeInit == Init => TypeOK
<1> SUFFICES ASSUME Init PROVE TypeOK
  OBVIOUS
<1> USE ContractDispatchAssumption DEF Init, Stages, Checks, Flushes
<1>1. RequestTypes
  BY DEF RequestTypes
<1>2. CacheTypes
  BY DEF CacheTypes
<1>3. ListTypes
  BY DEF ListTypes
<1>4. FlushTypes
  BY DEF FlushTypes
<1> QED BY <1>1, <1>2, <1>3, <1>4 DEF TypeOK

LEMMA TypeStep ==
  ASSUME TypeOK, CheckInv, [Next]_vars
  PROVE  TypeOK'
<1> USE ContractDispatchAssumption
    DEF TypeOK, Stages, Checks, Flushes, cacheVars, listVars, dispatcherVars, flushVars
<1>1. ASSUME NEW r \in Requests, SubmitAtOnce(r) PROVE TypeOK'
  <2>1. RequestTypes'
    BY <1>1 DEF SubmitAtOnce, Send, RequestTypes
  <2>2. CacheTypes'
    BY <1>1 DEF SubmitAtOnce, Send, CacheTypes, CheckInv
  <2>3. ListTypes'
    BY <1>1 DEF SubmitAtOnce, Send, ListTypes
  <2>4. FlushTypes'
    BY <1>1 DEF SubmitAtOnce, Send, FlushTypes
  <2> QED BY <2>1, <2>2, <2>3, <2>4
<1>2. ASSUME NEW r \in Requests, SubmitHeld(r) PROVE TypeOK'
  <2>1. RequestTypes'
    BY <1>2 DEF SubmitHeld, RequestTypes
  <2>2. CacheTypes'
    BY <1>2 DEF SubmitHeld, CacheTypes, CheckInv
  <2>3. ListTypes'
    BY <1>2 DEF SubmitHeld, ListTypes
  <2>4. FlushTypes'
    BY <1>2 DEF SubmitHeld, FlushTypes
  <2> QED BY <2>1, <2>2, <2>3, <2>4
<1>3. ASSUME NEW r \in Requests, Age(r) PROVE TypeOK'
  <2>1. RequestTypes'
    BY <1>3 DEF Age, RequestTypes
  <2>2. CacheTypes'
    BY <1>3 DEF Age, CacheTypes, CheckInv
  <2>3. ListTypes'
    BY <1>3 DEF Age, ListTypes
  <2>4. FlushTypes'
    BY <1>3 DEF Age, FlushTypes
  <2> QED BY <2>1, <2>2, <2>3, <2>4
<1>4. ASSUME NEW r \in Requests, Receive(r) PROVE TypeOK'
  <2>1. RequestTypes'
    BY <1>4 DEF Receive, RequestTypes
  <2>2. CacheTypes'
    BY <1>4 DEF Receive, CacheTypes, CheckInv
  <2>3. ListTypes'
    BY <1>4 DEF Receive, ListTypes
  <2>4. FlushTypes'
    BY <1>4 DEF Receive, FlushTypes
  <2> QED BY <2>1, <2>2, <2>3, <2>4
<1>5. ASSUME NEW r \in Requests, Refuse(r) PROVE TypeOK'
  <2>1. RequestTypes'
    BY <1>5 DEF Refuse, RequestTypes
  <2>2. CacheTypes'
    BY <1>5 DEF Refuse, CacheTypes, CheckInv
  <2>3. ListTypes'
    BY <1>5 DEF Refuse, ListTypes
  <2>4. FlushTypes'
    BY <1>5 DEF Refuse, FlushTypes
  <2> QED BY <2>1, <2>2, <2>3, <2>4
<1>6. ASSUME NEW r \in Requests, Announce(r) PROVE TypeOK'
  <2>1. RequestTypes'
    BY <1>6 DEF Announce, RequestTypes
  <2>2. CacheTypes'
    BY <1>6 DEF Announce, CacheTypes, CheckInv
  <2>3. ListTypes'
    BY <1>6 DEF Announce, ListTypes
  <2>4. FlushTypes'
    BY <1>6 DEF Announce, FlushTypes
  <2> QED BY <2>1, <2>2, <2>3, <2>4
<1>7. ASSUME NEW r \in Requests, Store(r) PROVE TypeOK'
  <2>1. RequestTypes'
    BY <1>7 DEF Store, RequestTypes
  <2>2. CacheTypes'
    BY <1>7 DEF Store, CacheTypes, CheckInv
  <2>3. ListTypes'
    BY <1>7 DEF Store, ListTypes
  <2>4. FlushTypes'
    BY <1>7 DEF Store, FlushTypes
  <2> QED BY <2>1, <2>2, <2>3, <2>4
<1>8. ASSUME NEW n \in Nodes, ReadClock(n) PROVE TypeOK'
  <2>1. RequestTypes'
    BY <1>8 DEF ReadClock, OldEnough, RequestTypes
  <2>2. CacheTypes'
    BY <1>8 DEF ReadClock, OldEnough, CacheTypes, CheckInv
  <2>3. ListTypes'
    BY <1>8 DEF ReadClock, OldEnough, ListTypes
  <2>4. FlushTypes'
    BY <1>8 DEF ReadClock, OldEnough, FlushTypes
  <2> QED BY <2>1, <2>2, <2>3, <2>4
<1>9. ASSUME NEW n \in Nodes, LockCache(n) PROVE TypeOK'
  <2>1. RequestTypes'
    BY <1>9 DEF LockCache, RequestTypes
  <2>2. CacheTypes'
    BY <1>9 DEF LockCache, CacheTypes, CheckInv
  <2>3. ListTypes'
    BY <1>9 DEF LockCache, ListTypes
  <2>4. FlushTypes'
    BY <1>9 DEF LockCache, FlushTypes
  <2> QED BY <2>1, <2>2, <2>3, <2>4
<1>10. ASSUME NEW n \in Nodes, Test(n) PROVE TypeOK'
  <2>1. RequestTypes'
    BY <1>10 DEF Test, RequestTypes
  <2>2. CacheTypes'
    BY <1>10 DEF Test, CacheTypes, CheckInv
  <2>3. ListTypes'
    BY <1>10 DEF Test, ListTypes
  <2>4. FlushTypes'
    BY <1>10 DEF Test, FlushTypes
  <2> QED BY <2>1, <2>2, <2>3, <2>4
<1>11. ASSUME NEW n \in Nodes, UnlockCache(n) PROVE TypeOK'
  <2>1. RequestTypes'
    BY <1>11 DEF UnlockCache, RequestTypes
  <2>2. CacheTypes'
    BY <1>11 DEF UnlockCache, CacheTypes, CheckInv
  <2>3. ListTypes'
    BY <1>11 DEF UnlockCache, ListTypes
  <2>4. FlushTypes'
    BY <1>11 DEF UnlockCache, FlushTypes
  <2> QED BY <2>1, <2>2, <2>3, <2>4
<1>12. ASSUME NEW n \in Nodes, SendCached(n) PROVE TypeOK'
  <2>1. RequestTypes'
    BY <1>12 DEF SendCached, Send, RequestTypes
  <2>2. CacheTypes'
    BY <1>12 DEF SendCached, Send, CacheTypes, CheckInv
  <2>3. ListTypes'
    BY <1>12 DEF SendCached, Send, ListTypes
  <2>4. FlushTypes'
    BY <1>12 DEF SendCached, Send, FlushTypes
  <2> QED BY <2>1, <2>2, <2>3, <2>4
<1>13. ASSUME NEW n \in Nodes, RemoveTried(n) PROVE TypeOK'
  <2>1. RequestTypes'
    BY <1>13 DEF RemoveTried, Kept, RequestTypes
  <2>2. CacheTypes'
    BY <1>13 DEF RemoveTried, Kept, CacheTypes, CheckInv
  <2>3. ListTypes'
    BY <1>13 DEF RemoveTried, Kept, ListTypes
  <2>4. FlushTypes'
    BY <1>13 DEF RemoveTried, Kept, FlushTypes
  <2> QED BY <2>1, <2>2, <2>3, <2>4
<1>14. ASSUME NEW n \in Nodes, NEW r \in Requests, Confirm(n, r) PROVE TypeOK'
  <2>1. RequestTypes'
    BY <1>14 DEF Confirm, RequestTypes
  <2>2. CacheTypes'
    BY <1>14 DEF Confirm, CacheTypes, CheckInv
  <2>3. ListTypes'
    BY <1>14 DEF Confirm, ListTypes
  <2>4. FlushTypes'
    BY <1>14 DEF Confirm, FlushTypes
  <2> QED BY <2>1, <2>2, <2>3, <2>4
<1>15. ASSUME Deliver PROVE TypeOK'
  <2>1. RequestTypes'
    BY <1>15 DEF Deliver, RequestTypes
  <2>2. CacheTypes'
    BY <1>15 DEF Deliver, CacheTypes, CheckInv
  <2>3. ListTypes'
    BY <1>15 DEF Deliver, ListTypes
  <2>4. FlushTypes'
    BY <1>15 DEF Deliver, FlushTypes
  <2> QED BY <2>1, <2>2, <2>3, <2>4
<1>16. ASSUME NEW n \in Nodes, BeginGrouping(n) PROVE TypeOK'
  <2>1. RequestTypes'
    BY <1>16 DEF BeginGrouping, RequestTypes
  <2>2. CacheTypes'
    BY <1>16 DEF BeginGrouping, CacheTypes, CheckInv
  <2>3. ListTypes'
    BY <1>16 DEF BeginGrouping, ListTypes
  <2>4. FlushTypes'
    BY <1>16 DEF BeginGrouping, FlushTypes, ListTypes
  <2> QED BY <2>1, <2>2, <2>3, <2>4
<1>17. ASSUME NEW n \in Nodes, Group(n) PROVE TypeOK'
  <2>1. RequestTypes'
    BY <1>17 DEF Group, RequestTypes
  <2>2. CacheTypes'
    BY <1>17 DEF Group, CacheTypes, CheckInv
  <2>3. ListTypes'
    BY <1>17 DEF Group, ListTypes
  <2>4. FlushTypes'
    <3>1. PICK r \in ungrouped[n] :
            groups' = [groups EXCEPT ![n] = Merge(@, {r} \union Neighbours(n, r))]
      BY <1>17 DEF Group
    <3>2. {r} \union Neighbours(n, r) \in SUBSET Requests
      BY DEF Neighbours, FlushTypes, ListTypes
    <3>3. Merge(groups[n], {r} \union Neighbours(n, r)) \in Seq(SUBSET Requests)
      BY <3>2, MergeJoins DEF FlushTypes
    <3>4. groups' \in [Nodes -> Seq(SUBSET Requests)]
      BY <3>1, <3>3 DEF FlushTypes
    <3> QED BY <1>17, <3>4 DEF Group, FlushTypes
  <2> QED BY <2>1, <2>2, <2>3, <2>4
<1>18. ASSUME NEW n \in Nodes, EndGrouping(n) PROVE TypeOK'
  <2>1. RequestTypes'
    BY <1>18 DEF EndGrouping, RequestTypes
  <2>2. CacheTypes'
    BY <1>18 DEF EndGrouping, CacheTypes, CheckInv
  <2>3. ListTypes'
    BY <1>18 DEF EndGrouping, ListTypes
  <2>4. FlushTypes'
    BY <1>18 DEF EndGrouping, FlushTypes
  <2> QED BY <2>1, <2>2, <2>3, <2>4
<1>19. ASSUME NEW n \in Nodes, CollectGroup(n) PROVE TypeOK'
  <2>1. RequestTypes'
    BY <1>19 DEF CollectGroup, RequestTypes
  <2>2. CacheTypes'
    BY <1>19 DEF CollectGroup, CacheTypes, CheckInv
  <2>3. ListTypes'
    BY <1>19 DEF CollectGroup, ListTypes
  <2>4. FlushTypes'
    <3> DEFINE msgs == Head(groups[n]) \cap msgCache[n]
    <3>1. msgs \in SUBSET Requests
      BY DEF ListTypes
    <3>2. Tail(groups[n]) \in Seq(SUBSET Requests)
      BY <1>19, HeadTailProperties DEF CollectGroup, FlushTypes
    <3>3. Append(batches[n], msgs) \in Seq(SUBSET Requests)
      BY <3>1, AppendProperties DEF FlushTypes
    <3>4. batches' = [batches EXCEPT ![n] = IF msgs = {} THEN @ ELSE Append(@, msgs)]
      BY <1>19 DEF CollectGroup
    <3> HIDE DEF msgs
    <3>5. batches' \in [Nodes -> Seq(SUBSET Requests)]
      BY <3>3, <3>4 DEF FlushTypes
    <3> QED BY <1>19, <3>2, <3>5 DEF CollectGroup, FlushTypes
  <2> QED BY <2>1, <2>2, <2>3, <2>4
<1>20. ASSUME NEW n \in Nodes, EndCollecting(n) PROVE TypeOK'
  <2>1. RequestTypes'
    BY <1>20 DEF EndCollecting, RequestTypes
  <2>2. CacheTypes'
    BY <1>20 DEF EndCollecting, CacheTypes, CheckInv
  <2>3. ListTypes'
    BY <1>20 DEF EndCollecting, ListTypes
  <2>4. FlushTypes'
    BY <1>20, GroupDataOf DEF EndCollecting, FlushTypes
  <2> QED BY <2>1, <2>2, <2>3, <2>4
<1>21. ASSUME NEW n \in Nodes, Distribute(n) PROVE TypeOK'
  <2>1. RequestTypes'
    BY <1>21 DEF Distribute, RequestTypes
  <2>2. CacheTypes'
    BY <1>21 DEF Distribute, CacheTypes, CheckInv
  <2>3. ListTypes'
    BY <1>21 DEF Distribute, ListTypes
  <2>4. FlushTypes'
    BY <1>21 DEF Distribute, FlushTypes
  <2> QED BY <2>1, <2>2, <2>3, <2>4
<1>22. ASSUME NEW n \in Nodes, ClearCaches(n) PROVE TypeOK'
  <2>1. RequestTypes'
    BY <1>22 DEF ClearCaches, RequestTypes
  <2>2. CacheTypes'
    BY <1>22 DEF ClearCaches, CacheTypes, CheckInv
  <2>3. ListTypes'
    BY <1>22 DEF ClearCaches, ListTypes
  <2>4. FlushTypes'
    BY <1>22 DEF ClearCaches, FlushTypes
  <2> QED BY <2>1, <2>2, <2>3, <2>4
<1>23. ASSUME UNCHANGED vars PROVE TypeOK'
  BY <1>23 DEF vars, RequestTypes, CacheTypes, ListTypes, FlushTypes
<1> QED
  BY <1>1, <1>2, <1>3, <1>4, <1>5, <1>6, <1>7, <1>8, <1>9, <1>10, <1>11, <1>12,
     <1>13, <1>14, <1>15, <1>16, <1>17, <1>18, <1>19, <1>20, <1>21, <1>22, <1>23
     DEF Next, CheckStep, FlushStep

-----------------------------------------------------------------------------
\* The cache of held requests: SentOnce.

\* The steps of dispatchers and of other nodes leave the cache alone, and of
\* the requests they touch none that is new or held.
LEMMA OtherSteps ==
  ASSUME TypeOK, [Next]_vars
  PROVE  \/ \E r \in Requests : SubmitAtOnce(r) \/ SubmitHeld(r)
         \/ \E n \in Nodes : CheckStep(n)
         \/ /\ UNCHANGED <<held, check, scan, sending, removing, sends>>
            /\ \A r \in Requests :
                 \/ stage'[r] = stage[r]
                 \/ stage[r] \notin {"new", "held"} /\ stage'[r] \notin {"new", "held"}
<1> DEFINE Quiet == /\ UNCHANGED <<held, check, scan, sending, removing, sends>>
                    /\ \A r \in Requests :
                         \/ stage'[r] = stage[r]
                         \/ /\ stage[r] \notin {"new", "held"}
                            /\ stage'[r] \notin {"new", "held"}
<1> USE DEF TypeOK, RequestTypes, cacheVars
<1>1. ASSUME NEW r \in Requests, Age(r) PROVE Quiet
  BY <1>1 DEF Age
<1>2. ASSUME NEW r \in Requests, Receive(r) PROVE Quiet
  BY <1>2 DEF Receive
<1>3. ASSUME NEW r \in Requests, Refuse(r) PROVE Quiet
  BY <1>3 DEF Refuse
<1>4. ASSUME NEW r \in Requests, Announce(r) PROVE Quiet
  BY <1>4 DEF Announce
<1>5. ASSUME NEW r \in Requests, Store(r) PROVE Quiet
  BY <1>5 DEF Store
<1>6. ASSUME NEW n \in Nodes, FlushStep(n) PROVE Quiet
  BY <1>6 DEF FlushStep, BeginGrouping, Group, EndGrouping, CollectGroup,
              EndCollecting, Distribute, ClearCaches
<1>7. ASSUME NEW n \in Nodes, NEW r \in Requests, Confirm(n, r) PROVE Quiet
  BY <1>7 DEF Confirm
<1>8. ASSUME Deliver PROVE Quiet
  BY <1>8 DEF Deliver
<1>9. ASSUME UNCHANGED vars PROVE Quiet
  BY <1>9 DEF vars
<1> QED
  BY <1>1, <1>2, <1>3, <1>4, <1>5, <1>6, <1>7, <1>8, <1>9 DEF Next

LEMMA CheckStepInv ==
  ASSUME TypeOK, CheckInv, [Next]_vars
  PROVE  CheckInv'
<1> USE DEF CheckInv, TypeOK, CacheTypes, Checks
<1>1. ASSUME NEW r \in Requests, SubmitAtOnce(r) PROVE CheckInv'
  BY <1>1 DEF SubmitAtOnce, cacheVars
<1>2. ASSUME NEW r \in Requests, SubmitHeld(r) PROVE CheckInv'
  BY <1>2 DEF SubmitHeld
<1>3. ASSUME NEW n \in Nodes, ReadClock(n) PROVE CheckInv'
  BY <1>3 DEF ReadClock
<1>4. ASSUME NEW n \in Nodes, LockCache(n) PROVE CheckInv'
  BY <1>4 DEF LockCache
<1>5. ASSUME NEW n \in Nodes, Test(n) PROVE CheckInv'
  BY <1>5 DEF Test
<1>6. ASSUME NEW n \in Nodes, UnlockCache(n) PROVE CheckInv'
  BY <1>6 DEF UnlockCache
<1>7. ASSUME NEW n \in Nodes, SendCached(n) PROVE CheckInv'
  BY <1>7 DEF SendCached
<1>8. ASSUME NEW n \in Nodes, RemoveTried(n) PROVE CheckInv'
  BY <1>8 DEF RemoveTried, Kept
<1>9. ASSUME UNCHANGED <<held, check, scan, sending, removing>> PROVE CheckInv'
  BY <1>9
<1> QED
  BY <1>1, <1>2, <1>3, <1>4, <1>5, <1>6, <1>7, <1>8, <1>9, OtherSteps DEF CheckStep

LEMMA HeldStepInv ==
  ASSUME TypeOK, CheckInv, HeldInv, SentOnce, [Next]_vars
  PROVE  HeldInv' /\ SentOnce'
<1> USE ContractDispatchAssumption
    DEF HeldInv, SentOnce, CheckInv, TypeOK, CacheTypes, RequestTypes, Stages, Checks
<1>1. ASSUME NEW r \in Requests, SubmitAtOnce(r) PROVE HeldInv' /\ SentOnce'
  <2>1. /\ UNCHANGED <<held, check, sending, removing>>
        /\ stage[r] = "new" /\ sends[r] = 0
        /\ \A q \in Requests : q # r => stage'[q] = stage[q] /\ sends'[q] = sends[q]
        /\ stage'[r] \in {"travelling", "refused"} /\ sends'[r] \in {0, 1}
    BY <1>1 DEF SubmitAtOnce, Send, cacheVars
  <2>2. \A n \in Nodes : r \notin held[n]
    BY <2>1
  <2>3. \A q \in Requests : stage'[q] \in {"new", "held"} => sends'[q] = 0
    BY <2>1
  <2>4. \A n \in Nodes : \A q \in held[n] : q \in Requests /\ stage'[q] = stage[q]
    BY <2>1, <2>2
  <2>5. SentOnce'
    BY <2>1
  <2> QED BY <2>1, <2>3, <2>4, <2>5
<1>2. ASSUME NEW r \in Requests, SubmitHeld(r) PROVE HeldInv' /\ SentOnce'
  BY <1>2 DEF SubmitHeld
<1>3. ASSUME NEW n \in Nodes, ReadClock(n) PROVE HeldInv' /\ SentOnce'
  BY <1>3 DEF ReadClock
<1>4. ASSUME NEW n \in Nodes, LockCache(n) PROVE HeldInv' /\ SentOnce'
  BY <1>4 DEF LockCache
<1>5. ASSUME NEW n \in Nodes, Test(n) PROVE HeldInv' /\ SentOnce'
  <2>1. /\ UNCHANGED <<held, check, stage, sends>>
        /\ check[n] = "testing"
        /\ \A m \in Nodes : m # n => sending'[m] = sending[m] /\ removing'[m] = removing[m]
    BY <1>5 DEF Test
  <2>2. \A m \in Nodes : \A r \in held[m] :
          \/ stage[r] = "held"
          \/ m # n /\ check[m] = "sending" /\ r \in removing[m] \ sending[m]
    BY <2>1
  <2> QED BY <2>1, <2>2
<1>6. ASSUME NEW n \in Nodes, UnlockCache(n) PROVE HeldInv' /\ SentOnce'
  BY <1>6 DEF UnlockCache
<1>7. ASSUME NEW n \in Nodes, SendCached(n) PROVE HeldInv' /\ SentOnce'
  <2>1. PICK r \in sending[n] :
          /\ sending' = [sending EXCEPT ![n] = @ \ {r}]
          /\ Send(r) \/ UNCHANGED <<stage, at, sends>>
    BY <1>7 DEF SendCached
  <2>2. /\ check[n] = "sending" /\ UNCHANGED <<held, check, removing>>
        /\ r \in removing[n] /\ r \in held[n] /\ r \in Requests
        /\ Origin[r] = n /\ stage[r] = "held" /\ sends[r] = 0
    BY <1>7, <2>1 DEF SendCached
  <2>3. CASE UNCHANGED <<stage, at, sends>>
    BY <2>1, <2>2, <2>3
  <2>4. CASE Send(r)
    <3>1. /\ \A q \in Requests : q # r => stage'[q] = stage[q] /\ sends'[q] = sends[q]
          /\ stage'[r] = "travelling" /\ sends'[r] = 1
      BY <2>2, <2>4 DEF Send
    <3>2. \A m \in Nodes : m # n => r \notin held[m] /\ sending'[m] = sending[m]
      BY <2>1, <2>2
    <3>3. sending'[n] = sending[n] \ {r}
      BY <2>1
    <3>4. \A m \in Nodes : \A q \in held'[m] :
            /\ Origin[q] = m /\ stage'[q] # "new"
            /\ \/ stage'[q] = "held"
               \/ check'[m] = "sending" /\ q \in removing'[m] \ sending'[m]
      <4> SUFFICES ASSUME NEW m \in Nodes, NEW q \in held[m]
                   PROVE  /\ Origin[q] = m /\ stage'[q] # "new"
                          /\ \/ stage'[q] = "held"
                             \/ check[m] = "sending" /\ q \in removing[m] \ sending'[m]
        BY <2>2
      <4>1. q \in Requests
        OBVIOUS
      <4>2. CASE q = r
        BY <2>2, <3>1, <3>2, <3>3, <4>2
      <4>3. CASE q # r
        BY <3>1, <3>2, <3>3, <4>1, <4>3
      <4> QED BY <4>2, <4>3
    <3>5. \A q \in Requests : stage'[q] \in {"new", "held"} => sends'[q] = 0
      BY <3>1
    <3>6. SentOnce'
      BY <3>1
    <3> QED BY <3>4, <3>5, <3>6
  <2> QED BY <2>1, <2>3, <2>4
<1>8. ASSUME NEW n \in Nodes, RemoveTried(n) PROVE HeldInv' /\ SentOnce'
  BY <1>8 DEF RemoveTried, Kept
<1>9. ASSUME UNCHANGED <<held, check, scan, sending, removing, sends>>,
             \A r \in Requests :
               \/ stage'[r] = stage[r]
               \/ stage[r] \notin {"new", "held"} /\ stage'[r] \notin {"new", "held"}
      PROVE  HeldInv' /\ SentOnce'
  BY <1>9
<1> QED
  BY <1>1, <1>2, <1>3, <1>4, <1>5, <1>6, <1>7, <1>8, <1>9, OtherSteps DEF CheckStep

-----------------------------------------------------------------------------
\* The flush: what a dispatcher has noted, groups and sends.

LEMMA NotedStepInv ==
  ASSUME TypeOK, CheckInv, HeldInv, NotedInv, [Next]_vars
  PROVE  NotedInv'
<1> USE DEF NotedInv, TypeOK, RequestTypes, ListTypes, FlushTypes, Flushes,
            dispatcherVars, flushVars
<1>1. ASSUME NEW r \in Requests, SubmitAtOnce(r) PROVE NotedInv'
  <2>1. /\ UNCHANGED <<depCache, msgCache, flush, ungrouped, groups, batches>>
        /\ stage[r] = "new"
        /\ \A q \in Requests : q # r => stage'[q] = stage[q] /\ at'[q] = at[q]
    BY <1>1 DEF SubmitAtOnce, Send
  <2>2. \A n \in Nodes : r \notin depCache[n] \union msgCache[n]
    BY <2>1
  <2> QED BY <2>1, <2>2
<1>2. ASSUME NEW r \in Requests, SubmitHeld(r) PROVE NotedInv'
  BY <1>2 DEF SubmitHeld
<1>3. ASSUME NEW r \in Requests, Age(r) PROVE NotedInv'
  BY <1>3 DEF Age
<1>4. ASSUME NEW r \in Requests, Receive(r) PROVE NotedInv'
  BY <1>4 DEF Receive
<1>5. ASSUME NEW r \in Requests, Refuse(r) PROVE NotedInv'
  BY <1>5 DEF Refuse
<1>6. ASSUME NEW r \in Requests, Announce(r) PROVE NotedInv'
  BY <1>6 DEF Announce
<1>7. ASSUME NEW r \in Requests, Store(r) PROVE NotedInv'
  BY <1>7 DEF Store
<1>8. ASSUME NEW n \in Nodes, CheckStep(n) PROVE NotedInv'
  <2>1. CASE ~ SendCached(n)
    BY <1>8, <2>1 DEF CheckStep, ReadClock, LockCache, Test, UnlockCache, RemoveTried
  <2>2. CASE SendCached(n)
    BY <2>2 DEF SendCached, Send, CheckInv, HeldInv, CacheTypes
  <2> QED BY <2>1, <2>2
<1>9. ASSUME NEW n \in Nodes, NEW r \in Requests, Confirm(n, r) PROVE NotedInv'
  BY <1>9 DEF Confirm
<1>10. ASSUME Deliver PROVE NotedInv'
  BY <1>10 DEF Deliver
<1>11. ASSUME NEW n \in Nodes, BeginGrouping(n) PROVE NotedInv'
  BY <1>11 DEF BeginGrouping
<1>12. ASSUME NEW n \in Nodes, Group(n) PROVE NotedInv'
  <2>1. PICK r \in ungrouped[n] :
          /\ ungrouped' = [ungrouped EXCEPT ![n] = @ \ {r}]
          /\ groups' = [groups EXCEPT ![n] = Merge(@, {r} \union Neighbours(n, r))]
    BY <1>12 DEF Group
  <2> DEFINE keys == {r} \union Neighbours(n, r)
             gs == Merge(groups[n], keys)
  <2>2. keys \subseteq depCache[n] /\ keys \in SUBSET Requests
    BY DEF Neighbours
  <2>3. groups[n] \in Seq(SUBSET Requests)
    OBVIOUS
  <2>4. \A i \in DOMAIN gs :
          \/ gs[i] \subseteq keys
          \/ i \in DOMAIN groups[n] /\ gs[i] \subseteq groups[n][i] \union keys
    <3> HIDE DEF keys, NotedInv, TypeOK
    <3> QED BY <2>2, <2>3, MergeJoins
  <2>7. \A i \in DOMAIN gs : gs[i] \subseteq depCache[n]
    <3> HIDE DEF keys, gs
    <3> QED BY <2>2, <2>4
  <2>5. groups' = [groups EXCEPT ![n] = gs]
    BY <2>1
  <2>6. /\ UNCHANGED <<stage, at, depCache, msgCache, flush, batches>>
        /\ flush[n] = "grouping"
    BY <1>12 DEF Group
  <2>8. \A m \in Nodes : \A i \in DOMAIN groups'[m] : groups'[m][i] \subseteq depCache'[m]
    <3> HIDE DEF gs
    <3>1. groups'[n] = gs /\ \A m \in Nodes : m # n => groups'[m] = groups[m]
      BY <2>5
    <3> QED BY <2>6, <2>7, <3>1
  <2>9. \A m \in Nodes : /\ flush'[m] # "grouping" => ungrouped'[m] = {}
                         /\ ungrouped'[m] \subseteq depCache'[m]
    BY <2>1, <2>6
  <2>10. \A m \in Nodes :
           flush'[m] \notin {"grouping", "grouped", "collecting"} => groups'[m] = <<>>
    <3> HIDE DEF gs
    <3> QED BY <2>5, <2>6
  <2> HIDE DEF gs
  <2> QED BY <2>6, <2>8, <2>9, <2>10
<1>13. ASSUME NEW n \in Nodes, EndGrouping(n) PROVE NotedInv'
  BY <1>13 DEF EndGrouping
<1>14. ASSUME NEW n \in Nodes, CollectGroup(n) PROVE NotedInv'
  <2> DEFINE msgs == Head(groups[n]) \cap msgCache[n]
  <2>1. /\ groups[n] \in Seq(SUBSET Requests) /\ groups[n] # <<>>
        /\ batches[n] \in Seq(SUBSET Requests)
        /\ groups' = [groups EXCEPT ![n] = Tail(groups[n])]
        /\ batches' = [batches EXCEPT ![n] = IF msgs = {} THEN @ ELSE Append(@, msgs)]
    BY <1>14 DEF CollectGroup
  <2>2. /\ UNCHANGED <<stage, at, ungrouped, depCache, msgCache>>
        /\ flush' = [flush EXCEPT ![n] = "collecting"]
        /\ flush[n] \in {"grouped", "collecting"}
    BY <1>14 DEF CollectGroup
  <2>3. \A i \in DOMAIN Tail(groups[n]) :
          i + 1 \in DOMAIN groups[n] /\ Tail(groups[n])[i] = groups[n][i + 1]
    BY <2>1
  <2>4. msgs \subseteq depCache[n]
    BY <2>1
  <2>5. \A m \in Nodes : \A i \in DOMAIN groups'[m] : groups'[m][i] \subseteq depCache'[m]
    <3>1. groups'[n] = Tail(groups[n]) /\ \A m \in Nodes : m # n => groups'[m] = groups[m]
      BY <2>1
    <3>2. \A m \in Nodes : \A i \in DOMAIN groups[m] : groups[m][i] \subseteq depCache[m]
      OBVIOUS
    <3> HIDE DEF NotedInv, TypeOK
    <3>3. \A i \in DOMAIN groups'[n] : groups'[n][i] \subseteq depCache[n]
      BY <2>3, <3>1, <3>2
    <3> QED BY <2>2, <3>1, <3>2, <3>3
  <2>6. \A m \in Nodes : \A i \in DOMAIN batches'[m] : batches'[m][i] \subseteq depCache'[m]
    <3>1. \A m \in Nodes : m # n => batches'[m] = batches[m]
      BY <2>1
    <3>2. batches'[n] \in {batches[n], Append(batches[n], msgs)}
      BY <2>1
    <3>3. \A m \in Nodes : \A i \in DOMAIN batches[m] : batches[m][i] \subseteq depCache[m]
      OBVIOUS
    <3> HIDE DEF msgs, NotedInv, TypeOK
    <3>4. \A i \in DOMAIN batches'[n] : batches'[n][i] \subseteq depCache[n]
      <4>1. CASE batches'[n] = batches[n]
        BY <3>3, <4>1
      <4>2. CASE batches'[n] = Append(batches[n], msgs)
        BY <2>1, <2>4, <3>3, <4>2
      <4> QED BY <3>2, <4>1, <4>2
    <3> QED BY <2>2, <3>1, <3>3, <3>4
  <2>7. \A m \in Nodes :
          /\ flush'[m] # "grouping" => ungrouped'[m] = {}
          /\ flush'[m] \notin {"grouping", "grouped", "collecting"} => groups'[m] = <<>>
          /\ ungrouped'[m] \subseteq depCache'[m]
    BY <2>1, <2>2
  <2> HIDE DEF msgs
  <2> QED BY <2>2, <2>5, <2>6, <2>7
<1>15. ASSUME NEW n \in Nodes, EndCollecting(n) PROVE NotedInv'
  <2>1. batches[n] \in Seq(SUBSET depCache[n])
    <3>1. \A i \in 1 .. Len(batches[n]) : batches[n][i] \in SUBSET depCache[n]
      OBVIOUS
    <3> QED BY <3>1, Retyped
  <2>2. GroupData(batches[n]) \in Seq(SUBSET depCache[n])
    BY <2>1, GroupDataOf, ContractDispatchAssumption
  <2>3. \A i \in DOMAIN GroupData(batches[n]) :
          GroupData(batches[n])[i] \in SUBSET depCache[n]
    BY <2>2, ElementOfSeq
  <2>4. /\ batches' = [batches EXCEPT ![n] = GroupData(batches[n])]
        /\ flush[n] = "collecting" /\ groups[n] = <<>>
        /\ \E p \in {"idle", "collected"} : flush' = [flush EXCEPT ![n] = p]
        /\ UNCHANGED <<stage, at, ungrouped, groups, depCache, msgCache>>
    BY <1>15 DEF EndCollecting
  <2> QED BY <2>3, <2>4
<1>16. ASSUME NEW n \in Nodes, Distribute(n) PROVE NotedInv'
  BY <1>16 DEF Distribute
<1>17. ASSUME NEW n \in Nodes, ClearCaches(n) PROVE NotedInv'
  BY <1>17 DEF ClearCaches
<1>18. ASSUME UNCHANGED vars PROVE NotedInv'
  BY <1>18 DEF vars
<1> QED
  BY <1>1, <1>2, <1>3, <1>4, <1>5, <1>6, <1>7, <1>8, <1>9, <1>10, <1>11, <1>12,
     <1>13, <1>14, <1>15, <1>16, <1>17, <1>18 DEF Next, FlushStep

\* The steps other than Distribute send nothing to packagers.
Noted == {"noted", "announced", "stored"}

LEMMA FlushFrame ==
  ASSUME FlushInv, FlushedOnce, UNCHANGED flushes,
         \A r \in Requests : stage'[r] \notin Noted => stage[r] \notin Noted,
         \A n \in Nodes : flush'[n] # "sent" =>
           \A r \in depCache'[n] :
             \/ flush[n] # "sent" /\ r \in depCache[n]
             \/ r \in Requests /\ stage[r] \notin Noted
  PROVE  FlushInv' /\ FlushedOnce'
BY DEF FlushInv, FlushedOnce, Noted

LEMMA FlushStepInv ==
  ASSUME TypeOK, CheckInv, HeldInv, NotedInv, FlushInv, FlushedOnce, [Next]_vars
  PROVE  FlushInv' /\ FlushedOnce'
<1> DEFINE Frame ==
      /\ UNCHANGED flushes
      /\ \A r \in Requests : stage'[r] \notin Noted => stage[r] \notin Noted
      /\ \A n \in Nodes : flush'[n] # "sent" =>
           \A r \in depCache'[n] :
             \/ flush[n] # "sent" /\ r \in depCache[n]
             \/ r \in Requests /\ stage[r] \notin Noted
<1> USE DEF TypeOK, RequestTypes, ListTypes, FlushTypes, Flushes, Noted,
            dispatcherVars, flushVars
<1>1. ASSUME NEW r \in Requests, SubmitAtOnce(r) PROVE FlushInv' /\ FlushedOnce'
  <2>1. Frame
    BY <1>1 DEF SubmitAtOnce, Send
  <2> QED BY <2>1, FlushFrame
<1>2. ASSUME NEW r \in Requests, SubmitHeld(r) PROVE FlushInv' /\ FlushedOnce'
  <2>1. Frame
    BY <1>2 DEF SubmitHeld
  <2> QED BY <2>1, FlushFrame
<1>3. ASSUME NEW r \in Requests, Age(r) PROVE FlushInv' /\ FlushedOnce'
  <2>1. Frame
    BY <1>3 DEF Age
  <2> QED BY <2>1, FlushFrame
<1>4. ASSUME NEW r \in Requests, Receive(r) PROVE FlushInv' /\ FlushedOnce'
  <2>1. Frame
    BY <1>4 DEF Receive
  <2> QED BY <2>1, FlushFrame
<1>5. ASSUME NEW r \in Requests, Refuse(r) PROVE FlushInv' /\ FlushedOnce'
  <2>1. Frame
    BY <1>5 DEF Refuse
  <2> QED BY <2>1, FlushFrame
<1>6. ASSUME NEW r \in Requests, Announce(r) PROVE FlushInv' /\ FlushedOnce'
  <2>1. Frame
    BY <1>6 DEF Announce
  <2> QED BY <2>1, FlushFrame
<1>7. ASSUME NEW r \in Requests, Store(r) PROVE FlushInv' /\ FlushedOnce'
  <2>1. Frame
    BY <1>7 DEF Store
  <2> QED BY <2>1, FlushFrame
<1>8. ASSUME NEW n \in Nodes, CheckStep(n) PROVE FlushInv' /\ FlushedOnce'
  <2>1. CASE ~ SendCached(n)
    <3>1. Frame
      BY <1>8, <2>1 DEF CheckStep, ReadClock, LockCache, Test, UnlockCache, RemoveTried
    <3> QED BY <3>1, FlushFrame
  <2>2. CASE SendCached(n)
    <3>1. Frame
      BY <2>2 DEF SendCached, Send, CheckInv, HeldInv, CacheTypes
    <3> QED BY <3>1, FlushFrame
  <2> QED BY <2>1, <2>2
<1>9. ASSUME NEW n \in Nodes, NEW r \in Requests, Confirm(n, r)
      PROVE  FlushInv' /\ FlushedOnce'
  <2>1. Frame
    BY <1>9 DEF Confirm
  <2> QED BY <2>1, FlushFrame
<1>10. ASSUME Deliver PROVE FlushInv' /\ FlushedOnce'
  <2>1. Frame
    BY <1>10 DEF Deliver
  <2> QED BY <2>1, FlushFrame
<1>11. ASSUME NEW n \in Nodes,
              BeginGrouping(n) \/ Group(n) \/ EndGrouping(n) \/ CollectGroup(n) \/ EndCollecting(n)
       PROVE  FlushInv' /\ FlushedOnce'
  <2>1. Frame
    BY <1>11 DEF BeginGrouping, Group, EndGrouping, CollectGroup, EndCollecting
  <2> QED BY <2>1, FlushFrame
<1>12. ASSUME NEW n \in Nodes, Distribute(n) PROVE FlushInv' /\ FlushedOnce'
  <2>1. PICK found \in SUBSET DOMAIN batches[n] :
          /\ flushes' = [r \in Requests |->
                           IF r \in UNION {batches[n][i] : i \in found}
                           THEN flushes[r] + 1 ELSE flushes[r]]
          /\ flush' = [flush EXCEPT ![n] = IF found = {} THEN "idle" ELSE "sent"]
    BY <1>12 DEF Distribute
  <2> DEFINE sent == UNION {batches[n][i] : i \in found}
  <2>2. flush[n] = "collected" /\ UNCHANGED <<stage, at, depCache, msgCache>>
    BY <1>12 DEF Distribute
  <2>3. sent \subseteq depCache[n]
    BY DEF NotedInv
  <2>4. \A r \in sent : /\ flushes[r] = 0 /\ at[r] = n
                        /\ stage[r] \in {"noted", "announced", "stored"}
    BY <2>2, <2>3 DEF NotedInv, FlushInv
  <2>5. found = {} => sent = {}
    OBVIOUS
  <2>10. flushes' = [r \in Requests |-> IF r \in sent THEN flushes[r] + 1 ELSE flushes[r]]
    BY <2>1
  <2> HIDE DEF sent
  <2>6. \A r \in Requests : /\ r \in sent => flushes'[r] = 1
                            /\ r \notin sent => flushes'[r] = flushes[r]
    BY <2>4, <2>10
  <2>7. FlushedOnce'
    <3> SUFFICES ASSUME NEW r \in Requests PROVE flushes'[r] <= 1
      BY DEF FlushedOnce
    <3>1. CASE r \in sent
      BY <2>6, <3>1
    <3>2. CASE r \notin sent
      BY <2>6, <3>2 DEF FlushedOnce
    <3> QED BY <3>1, <3>2
  <2>8. \A m \in Nodes : flush'[m] # "sent" => \A r \in depCache[m] : flushes'[r] = 0
    <3> SUFFICES ASSUME NEW m \in Nodes, flush'[m] # "sent", NEW r \in depCache[m]
                 PROVE  flushes'[r] = 0
      OBVIOUS
    <3>1. r \in Requests /\ r \in depCache[m] /\ at[r] = m
      BY <2>2 DEF NotedInv
    <3>2. CASE m = n
      <4>1. found = {}
        BY <2>1, <3>2
      <4>2. r \notin sent /\ flushes[r] = 0
        BY <2>2, <2>5, <3>1, <3>2, <4>1 DEF FlushInv
      <4> QED BY <2>6, <3>1, <4>2
    <3>3. CASE m # n
      <4>1. r \notin sent /\ flush[m] # "sent"
        BY <2>1, <2>4, <3>1, <3>3
      <4>2. flushes[r] = 0
        BY <3>1, <4>1 DEF FlushInv
      <4> QED BY <2>6, <3>1, <4>1, <4>2
    <3> QED BY <3>2, <3>3
  <2>9. \A r \in Requests :
          stage'[r] \notin {"noted", "announced", "stored"} => flushes'[r] = 0
    BY <2>2, <2>4, <2>6 DEF FlushInv
  <2> QED BY <2>2, <2>7, <2>8, <2>9 DEF FlushInv
<1>13. ASSUME NEW n \in Nodes, ClearCaches(n) PROVE FlushInv' /\ FlushedOnce'
  <2>1. Frame
    BY <1>13 DEF ClearCaches
  <2> QED BY <2>1, FlushFrame
<1>14. ASSUME UNCHANGED vars PROVE FlushInv' /\ FlushedOnce'
  <2>1. Frame
    BY <1>14 DEF vars
  <2> QED BY <2>1, FlushFrame
<1> QED
  BY <1>1, <1>2, <1>3, <1>4, <1>5, <1>6, <1>7, <1>8, <1>9, <1>10, <1>11, <1>12,
     <1>13, <1>14 DEF Next, FlushStep

\* A node that goes on grouping keeps what it groups; one that begins has
\* visited nothing.
LEMMA GroupFrame ==
  ASSUME GroupInv,
         \A m \in Nodes : flush'[m] = "grouping" =>
           \/ depCache'[m] \subseteq ungrouped'[m]
           \/ /\ flush[m] = "grouping" /\ depCache'[m] = depCache[m]
              /\ ungrouped'[m] = ungrouped[m] /\ groups'[m] = groups[m]
  PROVE  GroupInv'
BY DEF GroupInv, Neighbours

LEMMA GroupStepInv ==
  ASSUME TypeOK, NotedInv, GroupInv, [Next]_vars
  PROVE  GroupInv'
<1> USE DEF TypeOK, ListTypes, FlushTypes, Flushes,
            dispatcherVars, flushVars
<1>1. ASSUME NEW r \in Requests, Receive(r) PROVE GroupInv'
  BY <1>1, GroupFrame DEF Receive, RequestTypes
<1>2. ASSUME UNCHANGED <<depCache, flush, ungrouped, groups>> PROVE GroupInv'
  BY <1>2, GroupFrame
<1>3. ASSUME NEW n \in Nodes, BeginGrouping(n) PROVE GroupInv'
  BY <1>3, GroupFrame DEF BeginGrouping
<1>4. ASSUME NEW n \in Nodes, Group(n) PROVE GroupInv'
  <2>1. PICK r \in ungrouped[n] :
          /\ ungrouped' = [ungrouped EXCEPT ![n] = @ \ {r}]
          /\ groups' = [groups EXCEPT ![n] = Merge(@, {r} \union Neighbours(n, r))]
    BY <1>4 DEF Group
  <2> DEFINE keys == {r} \union Neighbours(n, r)
             gs == Merge(groups[n], keys)
  <2>2. keys \in SUBSET Requests /\ groups[n] \in Seq(SUBSET Requests)
    BY DEF Neighbours
  <2>3. /\ \E i \in DOMAIN gs : keys \subseteq gs[i]
        /\ \A j \in DOMAIN groups[n] : j \in DOMAIN gs /\ groups[n][j] \subseteq gs[j]
    <3> HIDE DEF keys, TypeOK
    <3> QED BY <2>2, MergeJoins
  <2>4. /\ groups'[n] = gs /\ \A m \in Nodes : m # n => groups'[m] = groups[m]
        /\ ungrouped'[n] = ungrouped[n] \ {r}
        /\ \A m \in Nodes : m # n => ungrouped'[m] = ungrouped[m]
    BY <2>1
  <2>5. UNCHANGED <<depCache, flush>> /\ flush[n] = "grouping"
    BY <1>4 DEF Group
  <2>6. \A m \in Nodes, q \in Requests : Neighbours(m, q)' = Neighbours(m, q)
    BY <2>5 DEF Neighbours
  <2>7. ASSUME NEW q \in depCache[n] \ ungrouped'[n]
        PROVE  \E i \in DOMAIN gs : {q} \union Neighbours(n, q) \subseteq gs[i]
    <3>1. CASE q = r
      BY <2>3, <3>1
    <3>2. CASE q # r
      <4>1. PICK i \in DOMAIN groups[n] : {q} \union Neighbours(n, q) \subseteq groups[n][i]
        BY <2>4, <2>5, <2>7, <3>2 DEF GroupInv
      <4> HIDE DEF gs, keys
      <4> QED BY <2>3, <4>1
    <3> QED BY <3>1, <3>2
  <2> HIDE DEF gs
  <2>8. \A m \in Nodes : flush'[m] = "grouping" =>
          \A q \in depCache'[m] \ ungrouped'[m] : \E i \in DOMAIN groups'[m] :
            {q} \union Neighbours(m, q) \subseteq groups'[m][i]
    BY <2>4, <2>5, <2>7 DEF GroupInv
  <2> QED BY <2>5, <2>8 DEF GroupInv, Neighbours
<1>5. ASSUME NEW n \in Nodes, EndGrouping(n) PROVE GroupInv'
  BY <1>5, GroupFrame DEF EndGrouping
<1>6. ASSUME NEW n \in Nodes, CollectGroup(n) PROVE GroupInv'
  BY <1>6, GroupFrame DEF CollectGroup
<1>7. ASSUME NEW n \in Nodes, EndCollecting(n) PROVE GroupInv'
  BY <1>7, GroupFrame DEF EndCollecting
<1>8. ASSUME NEW n \in Nodes, Distribute(n) PROVE GroupInv'
  BY <1>8, GroupFrame DEF Distribute
<1>9. ASSUME NEW n \in Nodes, ClearCaches(n) PROVE GroupInv'
  BY <1>9, GroupFrame DEF ClearCaches
<1>10. ASSUME NEW r \in Requests,
              SubmitAtOnce(r) \/ SubmitHeld(r) \/ Age(r) \/ Refuse(r) \/ Announce(r) \/ Store(r)
       PROVE  UNCHANGED <<depCache, flush, ungrouped, groups>>
  BY <1>10 DEF SubmitAtOnce, SubmitHeld, Age, Refuse, Announce, Store
<1>11. ASSUME NEW n \in Nodes, CheckStep(n) \/ \E r \in Requests : Confirm(n, r)
       PROVE  UNCHANGED <<depCache, flush, ungrouped, groups>>
  BY <1>11 DEF CheckStep, ReadClock, LockCache, Test, UnlockCache, SendCached,
               RemoveTried, Confirm
<1>12. ASSUME Deliver \/ UNCHANGED vars
       PROVE  UNCHANGED <<depCache, flush, ungrouped, groups>>
  BY <1>12 DEF Deliver, vars
<1> QED
  BY <1>1, <1>2, <1>3, <1>4, <1>5, <1>6, <1>7, <1>8, <1>9, <1>10, <1>11, <1>12
     DEF Next, FlushStep

-----------------------------------------------------------------------------
\* The theorems.

LEMMA IInvInit == Init => IInv
<1> SUFFICES ASSUME Init PROVE IInv
  OBVIOUS
<1>1. TypeOK
  BY TypeInit
<1>2. CheckInv /\ HeldInv /\ SentOnce
  BY DEF Init, CheckInv, HeldInv, SentOnce
<1>3. NotedInv
  BY DEF Init, NotedInv
<1>4. FlushInv /\ FlushedOnce /\ GroupInv
  BY DEF Init, FlushInv, FlushedOnce, GroupInv
<1> QED BY <1>1, <1>2, <1>3, <1>4 DEF IInv

LEMMA IInvStep == IInv /\ [Next]_vars => IInv'
BY TypeStep, CheckStepInv, HeldStepInv, NotedStepInv, FlushStepInv, GroupStepInv DEF IInv

LEMMA IInvHolds == Spec => []IInv
BY IInvInit, IInvStep, PTL DEF Spec

\* Every variable stays in its type, and the timer's thread tests and sends
\* nothing that is no longer held.
THEOREM TypeCorrect == Spec => []TypeOK
<1>1. IInv => TypeOK
  BY DEF IInv
<1> QED BY <1>1, IInvHolds, PTL

\* A request reaches a dispatcher once, whatever the threads of its origin do.
THEOREM RequestSentOnce == Spec => []SentOnce
<1>1. IInv => SentOnce
  BY DEF IInv
<1> QED BY <1>1, IInvHolds, PTL

\* One flush at most sends a request to packagers.
THEOREM RequestFlushedOnce == Spec => []FlushedOnce
<1>1. IInv => FlushedOnce
  BY DEF IInv
<1> QED BY <1>1, IInvHolds, PTL

\* The greedy grouping puts any two requests that share an address into one
\* group, for every set of requests and every order of visits.
THEOREM GroupedTogether == Spec => []SharedTogether
<1>1. IInv => SharedTogether
  <2> SUFFICES ASSUME IInv, NEW n \in Nodes,
                      flush[n] = "grouping", ungrouped[n] = {},
                      NEW r \in depCache[n], NEW q \in depCache[n], Share(r, q)
               PROVE  \E i \in DOMAIN groups[n] : {r, q} \subseteq groups[n][i]
    BY DEF SharedTogether
  <2>1. PICK i \in DOMAIN groups[n] : {r} \union Neighbours(n, r) \subseteq groups[n][i]
    BY DEF IInv, GroupInv
  <2>2. q = r \/ q \in Neighbours(n, r)
    BY DEF Neighbours
  <2> QED BY <2>1, <2>2
<1> QED BY <1>1, IInvHolds, PTL

-----------------------------------------------------------------------------
\* Without failing sends, nothing is lost from the cache.

LEMMA TriedInit == Init => TriedInv /\ HeldUntilSent
BY DEF Init, TriedInv, HeldUntilSent

LEMMA TriedStep ==
  ASSUME ~SendFails, IInv, TriedInv, HeldUntilSent, [Next]_vars
  PROVE  TriedInv' /\ HeldUntilSent'
<1> USE ContractDispatchAssumption
    DEF TriedInv, HeldUntilSent, TypeOK, RequestTypes, CacheTypes
<1>0. TypeOK /\ CheckInv /\ HeldInv
  BY DEF IInv
<1>1. ASSUME NEW r \in Requests, SubmitAtOnce(r) PROVE TriedInv' /\ HeldUntilSent'
  BY <1>0, <1>1 DEF SubmitAtOnce, Send, cacheVars
<1>2. ASSUME NEW r \in Requests, SubmitHeld(r) PROVE TriedInv' /\ HeldUntilSent'
  <2>1. /\ UNCHANGED <<check, sending, removing>>
        /\ stage[r] = "new" /\ check[Origin[r]] # "testing"
        /\ \A q \in Requests : q # r => stage'[q] = stage[q]
        /\ \A n \in Nodes : held[n] \subseteq held'[n]
        /\ r \in held'[Origin[r]]
    BY <1>0, <1>2 DEF SubmitHeld
  <2>2. \A n \in Nodes : r \notin removing[n]
    BY <1>0, <2>1 DEF CheckInv, HeldInv
  <2>3. TriedInv'
    BY <1>0, <2>1, <2>2
  <2>4. HeldUntilSent'
    BY <1>0, <2>1
  <2> QED BY <2>3, <2>4
<1>3. ASSUME NEW n \in Nodes, ReadClock(n) PROVE TriedInv' /\ HeldUntilSent'
  BY <1>0, <1>3 DEF ReadClock
<1>4. ASSUME NEW n \in Nodes, LockCache(n) PROVE TriedInv' /\ HeldUntilSent'
  BY <1>0, <1>4 DEF LockCache
<1>5. ASSUME NEW n \in Nodes, Test(n) PROVE TriedInv' /\ HeldUntilSent'
  BY <1>0, <1>5 DEF Test
<1>6. ASSUME NEW n \in Nodes, UnlockCache(n) PROVE TriedInv' /\ HeldUntilSent'
  BY <1>0, <1>6 DEF UnlockCache
<1>7. ASSUME NEW n \in Nodes, SendCached(n) PROVE TriedInv' /\ HeldUntilSent'
  <2>1. PICK r \in sending[n] : sending' = [sending EXCEPT ![n] = @ \ {r}] /\ Send(r)
    BY <1>7 DEF SendCached
  <2>2. /\ check[n] = "sending" /\ UNCHANGED <<held, check, removing>>
        /\ r \in Requests
        /\ \A q \in Requests : q # r => stage'[q] = stage[q]
        /\ stage'[r] = "travelling"
    BY <1>0, <1>7, <2>1 DEF SendCached, Send
  <2>3. \A m \in Nodes : removing'[m] \ sending'[m] \subseteq (removing[m] \ sending[m]) \union {r}
    BY <1>0, <2>1, <2>2
  <2>4. \A m \in Nodes : r \in removing[m] => m = n
    BY <1>0, <2>1, <2>2 DEF CheckInv, HeldInv
  <2>5. TriedInv'
    BY <1>0, <2>2, <2>3, <2>4
  <2>6. HeldUntilSent'
    BY <2>2
  <2> QED BY <2>5, <2>6
<1>8. ASSUME NEW n \in Nodes, RemoveTried(n) PROVE TriedInv' /\ HeldUntilSent'
  BY <1>0, <1>8 DEF RemoveTried, Kept
<1>9. ASSUME UNCHANGED <<held, check, scan, sending, removing, sends>>,
             \A r \in Requests :
               \/ stage'[r] = stage[r]
               \/ stage[r] \notin {"new", "held"} /\ stage'[r] \notin {"new", "held"}
      PROVE  TriedInv' /\ HeldUntilSent'
  BY <1>0, <1>9
<1> QED
  BY <1>0, <1>1, <1>2, <1>3, <1>4, <1>5, <1>6, <1>7, <1>8, <1>9, OtherSteps DEF CheckStep

\* A request that must wait stays in its origin's cache until it is sent, when
\* no send from the cache fails.
THEOREM RequestHeldUntilSent == ~SendFails => (Spec => []HeldUntilSent)
<1> SUFFICES ASSUME ~SendFails PROVE Spec => []HeldUntilSent
  OBVIOUS
<1>1. TriedInv /\ HeldUntilSent /\ IInv /\ [Next]_vars => TriedInv' /\ HeldUntilSent'
  BY TriedStep
<1> QED BY <1>1, TriedInit, IInvHolds, PTL DEF Spec

=============================================================================
