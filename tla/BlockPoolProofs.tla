-------------------------- MODULE BlockPoolProofs --------------------------
(***************************************************************************)
(* Theorems about BlockPool for every set of blocks and every chain over   *)
(* them, whatever the peers and the database do.                           *)
(*                                                                         *)
(* The argument: helperMutex keeps the queues still while Process runs, so *)
(* that the pending blocks a frame still has to try are exactly what it    *)
(* found when its block was committed.  A pending block whose predecessor  *)
(* is saved was therefore in such a frame, and leaves it only by being     *)
(* tried.                                                                  *)
(***************************************************************************)
EXTENDS BlockPool, SequenceTheorems, TLAPS

-----------------------------------------------------------------------------
\* What the operators on the queues and on the stack of PostSaveProcess calls
\* return.

LEMMA InsertAdds ==
  ASSUME NEW S, NEW b
  PROVE  Insert(S, b) \in SUBSET (S \union {b})
BY DEF Insert

LEMMA AddPendingAdds ==
  ASSUME NEW b
  PROVE  AddPending(b) \in SUBSET (pendingBlocks \union {b})
BY DEF AddPending

FrameOver(S) == [block : S, todo : SUBSET Blocks]

LEMMA WithoutFrame ==
  ASSUME NEW S, frames \in Seq(FrameOver(S)), frames # <<>>, NEW b
  PROVE  /\ Without(b) \in Seq(FrameOver(S))
         /\ Len(Without(b)) = Len(frames)
         /\ \A i \in 1 .. Len(frames) :
              /\ Without(b)[i].block = frames[i].block
              /\ Without(b)[i].todo \in SUBSET frames[i].todo
              /\ \A x \in frames[i].todo : x # b => x \in Without(b)[i].todo
<1> DEFINE F == FrameOver(S)
           e == [frames[1] EXCEPT !.todo = @ \ {b}]
<1>1. Len(frames) \in Nat /\ 1 \in 1 .. Len(frames)
  BY EmptySeq, LenProperties
<1>2. \A i \in 1 .. Len(frames) : frames[i] \in FrameOver(S)
  BY ElementOfSeq
<1>3. e \in F
  BY <1>1, <1>2 DEF FrameOver
<1>4. /\ [frames EXCEPT ![1] = e] \in Seq(F)
      /\ Len([frames EXCEPT ![1] = e]) = Len(frames)
      /\ \A j \in 1 .. Len(frames) :
           [frames EXCEPT ![1] = e][j] = IF j = 1 THEN e ELSE frames[j]
  <2> HIDE DEF F, e
  <2> QED BY <1>1, <1>3, ExceptSeq DEF F
<1>5. Without(b) = [frames EXCEPT ![1] = e]
  BY DEF Without
<1>6. e.block = frames[1].block /\ e.todo = frames[1].todo \ {b}
  BY <1>1, <1>2 DEF FrameOver
<1> QED BY <1>4, <1>5, <1>6

LEMMA PushFrame ==
  ASSUME NEW S, NEW s \in Seq(S), NEW e \in S
  PROVE  /\ <<e>> \o s \in Seq(S)
         /\ Len(<<e>> \o s) = Len(s) + 1
         /\ (<<e>> \o s)[1] = e
         /\ \A i \in 1 .. Len(s) : (<<e>> \o s)[i + 1] = s[i]
<1>1. <<e>> \in Seq(S) /\ Len(<<e>>) = 1 /\ <<e>>[1] = e
  OBVIOUS
<1>2. Len(s) \in Nat
  BY LenProperties
<1> QED BY <1>1, <1>2, ConcatProperties

-----------------------------------------------------------------------------
\* The type invariant holds in the initial state and one step keeps it.

LEMMA TypeInit == Init => TypeOK
<1>1. <<>> \in Seq([block : saved, todo : SUBSET Blocks])
  OBVIOUS
<1> QED BY <1>1, BlockPoolAssumption DEF Init, TypeOK, Phases

LEMMA FramesGrow ==
  ASSUME NEW S, NEW T, S \subseteq T, NEW s \in Seq(FrameOver(S))
  PROVE  s \in Seq(FrameOver(T))
<1>1. FrameOver(S) \subseteq FrameOver(T)
  BY DEF FrameOver
<1> QED BY <1>1, SeqMonotonic

\* What every call of SaveBlock leaves of the stack and of the loop.
LEMMA CallTypes ==
  ASSUME TypeOK, NEW b \in Blocks, CallDone(b) \/ CallFails(b)
  PROVE  /\ work' \in SUBSET Blocks
         /\ frames' \in Seq(FrameOver(saved))
         /\ frames = <<>> => frames' = <<>>
<1> USE DEF TypeOK
<1>1. frames \in Seq(FrameOver(saved))
  BY DEF FrameOver
<1>2. CASE CallDone(b)
  <2>1. CASE Released
    BY <1>1, <1>2, <2>1, WithoutFrame DEF CallDone, Released
  <2>2. CASE ~Released
    BY <1>1, <1>2, <2>2 DEF CallDone, Released
  <2> QED BY <2>1, <2>2
<1>3. CASE CallFails(b) /\ BySync
  BY <1>1, <1>3 DEF CallFails
<1>4. CASE CallFails(b) /\ ~BySync
  BY <1>2, <1>4 DEF CallFails
<1> QED BY <1>2, <1>3, <1>4

LEMMA TypeStep == TypeOK /\ [Next]_vars => TypeOK'
<1> SUFFICES ASSUME TypeOK, [Next]_vars PROVE TypeOK'
  OBVIOUS
<1> USE BlockPoolAssumption DEF TypeOK, Phases, queues
<1>1. ASSUME NEW b \in Blocks, AddBroadcastBlock(b) PROVE TypeOK'
  <2>1. /\ b \in Broadcasted
        /\ broadcastBlocks' \in SUBSET (broadcastBlocks \union {b})
        /\ pendingBlocks' \in SUBSET (pendingBlocks \union {b})
    <3> DEFINE rivals == {x \in broadcastBlocks : CheckConflict(x, b)}
               queue == broadcastBlocks \ Earliest(rivals)
    <3>1. Insert(queue, b) \in SUBSET (broadcastBlocks \union {b})
      <4>1. Insert(queue, b) \in SUBSET (queue \union {b})
        <5> HIDE DEF queue
        <5> QED BY InsertAdds
      <4> QED BY <4>1
    <3>2. AddPending(b) \in SUBSET (pendingBlocks \union {b})
      BY AddPendingAdds
    <3> QED BY <1>1, <3>1, <3>2 DEF AddBroadcastBlock
  <2> QED BY <1>1, <2>1 DEF AddBroadcastBlock
<1>2. ASSUME AddSyncBlock PROVE TypeOK'
  <2>1. syncBlocks' \in SUBSET Synced
    BY <1>2, InsertAdds DEF AddSyncBlock
  <2> QED BY <1>2, <2>1 DEF AddSyncBlock
<1>3. ASSUME AddFastSyncBlock PROVE TypeOK'
  <2>1. fastSyncBlocks' \in SUBSET Synced
    BY <1>3, InsertAdds DEF AddFastSyncBlock
  <2> QED BY <1>3, <2>1 DEF AddFastSyncBlock
<1>4. ASSUME AddSeekBlock PROVE TypeOK'
  BY <1>4 DEF AddSeekBlock
<1>5. ASSUME AddMissingBlock PROVE TypeOK'
  BY <1>5 DEF AddMissingBlock
<1>6. ASSUME RollbackRequest PROVE TypeOK'
  BY <1>6 DEF RollbackRequest
<1>7. ASSUME Begin PROVE TypeOK'
  BY <1>7 DEF Begin
<1>8. ASSUME BeginDbError PROVE TypeOK'
  BY <1>8 DEF BeginDbError
<1>9. ASSUME RollbackBlocks PROVE TypeOK'
  BY <1>9 DEF RollbackBlocks, Stuck
<1>10. ASSUME ChainHeight PROVE TypeOK'
  BY <1>10 DEF ChainHeight
<1>11. ASSUME NextPhase PROVE TypeOK'
  BY <1>11 DEF NextPhase
<1>12. ASSUME NEW b \in Blocks, SaveBlock(b) PROVE TypeOK'
  <2>1. Try(b) => /\ tried' \in SUBSET Blocks /\ round' \in SUBSET Blocks
                  /\ mutex = "process" /\ phase \in Phases \ {"idle", "failed", "rollback", "end"}
    BY DEF Try
  <2>2. CASE SaveKnown(b)
    BY <2>1, <2>2, CallTypes DEF SaveKnown, FrameOver
  <2>3. CASE SaveFails(b)
    BY <2>1, <2>3, CallTypes DEF SaveFails, FrameOver
  <2>4. CASE SaveLater(b)
    BY <2>1, <2>4, CallTypes DEF SaveLater, FrameOver
  <2>5. CASE SaveDoubleSpend(b)
    <3>1. mutex' \in {"process", "stuck"} /\ doubleSpendBlocks' \in SUBSET Blocks
      BY <2>1, <2>5 DEF SaveDoubleSpend, Stuck
    <3> QED BY <2>1, <2>5, <3>1, CallTypes DEF SaveDoubleSpend, FrameOver
  <2>6. CASE SaveOk(b)
    <3> DEFINE outer == IF Released THEN Without(b) ELSE <<>>
               e == [block |-> b, todo |-> Waiting(b)]
    <3>1. saved' = saved \union {b} /\ frames' = <<e>> \o outer
      BY <2>6 DEF SaveOk
    <3>2. outer \in Seq(FrameOver(saved'))
      <4>1. CASE Released
        BY <3>1, <4>1, WithoutFrame, FramesGrow DEF Released, FrameOver
      <4>2. CASE ~Released
        BY <4>2
      <4> QED BY <4>1, <4>2
    <3>3. e \in FrameOver(saved')
      BY <3>1 DEF FrameOver, Waiting
    <3>4. frames' \in Seq(FrameOver(saved'))
      <4> HIDE DEF outer, e
      <4> QED BY <3>1, <3>2, <3>3, PushFrame
    <3>5. work' \in SUBSET Blocks
      BY <2>6 DEF SaveOk
    <3> QED BY <2>1, <2>6, <3>1, <3>4, <3>5 DEF SaveOk, FrameOver
  <2> QED BY <1>12, <2>2, <2>3, <2>4, <2>5, <2>6 DEF SaveBlock
<1>13. ASSUME PostSaved PROVE TypeOK'
  <2>1. frames' \in Seq([block : saved, todo : SUBSET Blocks])
    BY <1>13, HeadTailProperties DEF PostSaved
  <2>2. mutex' \in {"process", "stuck"}
    BY <1>13 DEF PostSaved, Stuck
  <2> QED BY <1>13, <2>1, <2>2 DEF PostSaved
<1>14. ASSUME HashLoop PROVE TypeOK'
  BY <1>14 DEF HashLoop
<1>15. ASSUME End PROVE TypeOK'
  BY <1>15 DEF End
<1>16. ASSUME UNCHANGED vars PROVE TypeOK'
  BY <1>16 DEF vars
<1> QED
  BY <1>1, <1>2, <1>3, <1>4, <1>5, <1>6, <1>7, <1>8, <1>9, <1>10, <1>11,
     <1>12, <1>13, <1>14, <1>15, <1>16 DEF Next, ProcessStep, Arrivals

\* Every variable stays in its type; a frame stands for a block in the
\* database, and the stack is empty outside the loops of Process.
THEOREM TypeCorrect == Spec => []TypeOK
BY TypeInit, TypeStep, PTL DEF Spec

-----------------------------------------------------------------------------
\* The strengthened invariant: PendingTried alone is not inductive, because a
\* step of the recursion must know that a block taken off the innermost frame
\* was tried with its predecessor saved, and that the stack is not rebuilt
\* from other queues.  RecursionClimbs says what the stack holds.

IInv == TypeOK /\ PendingTried /\ RecursionClimbs

LEMMA InvInit == Init => IInv
<1> SUFFICES ASSUME Init PROVE IInv
  OBVIOUS
<1>1. TypeOK
  BY TypeInit
<1>2. DOMAIN frames = {} /\ Len(frames) = 0
  BY DEF Init
<1> QED BY <1>1, <1>2 DEF Init, IInv, PendingTried, RecursionClimbs

\* A step that leaves the stack, the pending blocks and the database alone
\* keeps what is said of them.
LEMMA StackKept ==
  ASSUME IInv, UNCHANGED <<saved, frames>>, tried' = tried,
         \A x \in pendingBlocks' \ pendingBlocks : Prev[x] \notin saved,
         \/ pendingBlocks \subseteq pendingBlocks'
         \/ frames = <<>>
  PROVE  PendingTried' /\ RecursionClimbs'
<1> USE DEF IInv, PendingTried, RecursionClimbs
<1>1. PendingTried'
  OBVIOUS
<1>2. CASE pendingBlocks \subseteq pendingBlocks'
  BY <1>1, <1>2
<1>3. CASE frames = <<>>
  BY <1>1, <1>3
<1> QED BY <1>2, <1>3

\* Taking off the block just tried keeps it too.
LEMMA CallKeeps ==
  ASSUME IInv, NEW b \in Blocks, Try(b), CallDone(b) \/ CallFails(b),
         UNCHANGED <<saved, pendingBlocks>>
  PROVE  PendingTried' /\ RecursionClimbs'
<1> USE DEF IInv
<1>1. tried' = IF Prev[b] \in saved THEN tried \union {b} ELSE tried
  BY DEF Try
<1>2. frames \in Seq(FrameOver(saved)) /\ Len(frames) \in Nat /\ DOMAIN frames = 1 .. Len(frames)
  BY LenProperties DEF TypeOK, FrameOver
<1>3. CASE frames' = frames
  BY <1>1, <1>3 DEF PendingTried, RecursionClimbs
<1>4. CASE frames # <<>> /\ frames' = Without(b)
  <2>1. /\ frames' \in Seq(FrameOver(saved))
        /\ Len(frames') = Len(frames)
        /\ \A i \in 1 .. Len(frames) :
             /\ frames'[i].block = frames[i].block
             /\ frames'[i].todo \in SUBSET frames[i].todo
             /\ \A x \in frames[i].todo : x # b => x \in frames'[i].todo
    BY <1>2, <1>4, WithoutFrame
  <2>2. DOMAIN frames' = 1 .. Len(frames)
    BY <2>1, LenProperties
  <2>3. PendingTried'
    BY <1>1, <1>2, <2>1, <2>2 DEF PendingTried
  <2>4. RecursionClimbs'
    <3>1. \A i \in 1 .. Len(frames) : \A x \in frames'[i].todo :
            x \in pendingBlocks' /\ Prev[x] = frames'[i].block
      BY <1>2, <2>1 DEF RecursionClimbs
    <3>2. \A i \in 1 .. Len(frames) - 1 :
            /\ frames'[i].block \in pendingBlocks'
            /\ Prev[frames'[i].block] = frames'[i + 1].block
      <4> SUFFICES ASSUME NEW i \in 1 .. Len(frames) - 1
                   PROVE  /\ frames'[i].block \in pendingBlocks'
                          /\ Prev[frames'[i].block] = frames'[i + 1].block
        OBVIOUS
      <4>1. i \in 1 .. Len(frames) /\ i + 1 \in 1 .. Len(frames)
        BY <1>2
      <4>2. frames'[i].block = frames[i].block /\ frames'[i + 1].block = frames[i + 1].block
        BY <2>1, <4>1
      <4> QED BY <4>2 DEF RecursionClimbs
    <3> QED BY <2>1, <2>2, <3>1, <3>2 DEF RecursionClimbs
  <2> QED BY <2>3, <2>4
<1>5. frames' = frames \/ (frames # <<>> /\ frames' = Without(b))
  BY DEF CallDone, CallFails, Released
<1> QED BY <1>3, <1>4, <1>5

\* A commit opens a frame for the blocks that wait for it, above the frame it
\* was released from.
LEMMA CommitKeeps ==
  ASSUME IInv, NEW b \in Blocks, SaveOk(b)
  PROVE  PendingTried' /\ RecursionClimbs'
<1> USE DEF IInv
<1> DEFINE outer == IF Released THEN Without(b) ELSE <<>>
           e == [block |-> b, todo |-> Waiting(b)]
<1>1. /\ saved' = saved \union {b}
      /\ frames' = <<e>> \o outer
      /\ pendingBlocks' = pendingBlocks
      /\ tried' = tried \union {b}
      /\ b \in Calls
  BY DEF SaveOk, Try
<1>2. frames \in Seq(FrameOver(saved)) /\ Len(frames) \in Nat /\ DOMAIN frames = 1 .. Len(frames)
  BY LenProperties DEF TypeOK, FrameOver
<1>3. /\ outer \in Seq(FrameOver(saved))
      /\ Len(outer) = Len(frames)
      /\ \A i \in 1 .. Len(frames) :
           /\ outer[i].block = frames[i].block
           /\ outer[i].todo \in SUBSET frames[i].todo
           /\ \A x \in frames[i].todo : x # b => x \in outer[i].todo
  <2>1. CASE Released
    BY <1>2, <2>1, WithoutFrame DEF Released
  <2>2. CASE ~Released
    BY <2>2 DEF Released
  <2> QED BY <2>1, <2>2
<1>4. e \in FrameOver(saved') /\ outer \in Seq(FrameOver(saved'))
  <2>1. e \in FrameOver(saved')
    <3>1. Waiting(b) \in SUBSET Blocks
      BY BlockPoolAssumption DEF TypeOK, Waiting
    <3> QED BY <1>1, <3>1 DEF FrameOver
  <2>2. outer \in Seq(FrameOver(saved'))
    <3> HIDE DEF outer
    <3> QED BY <1>1, <1>3, FramesGrow
  <2> QED BY <2>1, <2>2
<1>5. /\ frames' \in Seq(FrameOver(saved'))
      /\ Len(frames') = Len(frames) + 1
      /\ frames'[1] = e
      /\ \A i \in 1 .. Len(frames) : frames'[i + 1] = outer[i]
  <2> HIDE DEF outer, e
  <2> QED BY <1>1, <1>3, <1>4, PushFrame
<1>6. DOMAIN frames' = 1 .. Len(frames) + 1
  BY <1>5, LenProperties
<1>7. frames # <<>> => /\ Len(frames) # 0 /\ b \in frames[1].todo
                       /\ b \in pendingBlocks /\ Prev[b] = frames[1].block
  BY <1>1, <1>2, EmptySeq DEF Calls, RecursionClimbs
<1> HIDE DEF outer
<1>8. PendingTried'
  <2> SUFFICES ASSUME NEW x \in pendingBlocks, Prev[x] \in saved', x \notin tried'
               PROVE  \E i \in DOMAIN frames' : x \in frames'[i].todo
    BY <1>1 DEF PendingTried
  <2>1. CASE Prev[x] \in saved
    <3>1. PICK i \in 1 .. Len(frames) : x \in frames[i].todo
      BY <1>1, <1>2, <2>1 DEF PendingTried
    <3>2. x # b
      BY <1>1
    <3>3. x \in outer[i].todo
      BY <1>3, <3>1, <3>2
    <3>4. x \in frames'[i + 1].todo /\ i + 1 \in DOMAIN frames'
      BY <1>2, <1>5, <1>6, <3>3
    <3> QED BY <3>4
  <2>2. CASE Prev[x] = b
    <3>1. x \in Blocks \ {Genesis}
      BY BlockPoolAssumption DEF TypeOK
    <3>2. x \in Waiting(b)
      BY <2>2, <3>1, BlockPoolAssumption DEF Waiting
    <3> QED BY <1>2, <1>5, <1>6, <3>2
  <2> QED BY <1>1, <2>1, <2>2
<1>9. RecursionClimbs'
  <2>1. ASSUME NEW i \in 1 .. Len(frames) + 1, NEW x \in frames'[i].todo
        PROVE  x \in pendingBlocks' /\ Prev[x] = frames'[i].block
    <3>1. CASE i = 1
      BY <1>1, <1>5, <2>1, <3>1 DEF Waiting
    <3>2. CASE i # 1
      <4>1. i - 1 \in 1 .. Len(frames) /\ (i - 1) + 1 = i
        BY <1>2, <3>2
      <4>2. frames'[i] = outer[i - 1]
        BY <1>5, <4>1
      <4> QED BY <1>1, <1>2, <1>3, <2>1, <4>1, <4>2 DEF RecursionClimbs
    <3> QED BY <3>1, <3>2
  <2>2. ASSUME NEW i \in 1 .. Len(frames)
        PROVE  /\ frames'[i].block \in pendingBlocks'
               /\ Prev[frames'[i].block] = frames'[i + 1].block
    <3>1. frames'[i + 1].block = frames[i].block
      BY <1>3, <1>5
    <3>2. CASE i = 1
      BY <1>1, <1>2, <1>5, <1>7, <3>1, <3>2
    <3>3. CASE i # 1
      <4>1. i - 1 \in 1 .. Len(frames) /\ i - 1 \in 1 .. Len(frames) - 1 /\ (i - 1) + 1 = i
        BY <1>2, <3>3
      <4>2. frames'[i].block = frames[i - 1].block
        BY <1>3, <1>5, <4>1
      <4>3. /\ frames[i - 1].block \in pendingBlocks
            /\ Prev[frames[i - 1].block] = frames[(i - 1) + 1].block
        BY <4>1 DEF RecursionClimbs
      <4> QED BY <1>1, <3>1, <4>1, <4>2, <4>3
    <3> QED BY <3>2, <3>3
  <2>3. Len(frames') - 1 = Len(frames)
    BY <1>2, <1>5
  <2> QED BY <1>6, <2>1, <2>2, <2>3 DEF RecursionClimbs
<1> QED BY <1>8, <1>9

\* PostSaveProcess returns only when it has nothing left to try.
LEMMA ReturnKeeps ==
  ASSUME IInv, PostSaved
  PROVE  PendingTried' /\ RecursionClimbs'
<1> USE DEF IInv
<1>1. /\ frames # <<>> /\ frames[1].todo = {} /\ frames' = Tail(frames)
      /\ UNCHANGED <<saved, pendingBlocks, tried>>
  BY DEF PostSaved, queues
<1>2. frames \in Seq(FrameOver(saved))
  BY DEF TypeOK, FrameOver
<1>3. Len(frames) \in Nat \ {0} /\ DOMAIN frames = 1 .. Len(frames)
  BY <1>1, <1>2, LenProperties, EmptySeq
<1>4. /\ frames' \in Seq(FrameOver(saved))
      /\ Len(frames') = Len(frames) - 1
      /\ \A i \in 1 .. Len(frames) - 1 : frames'[i] = frames[i + 1]
  BY <1>1, <1>2, HeadTailProperties
<1>5. DOMAIN frames' = 1 .. Len(frames) - 1
  BY <1>4, LenProperties
<1>6. PendingTried'
  <2> SUFFICES ASSUME NEW x \in pendingBlocks, Prev[x] \in saved, x \notin tried
               PROVE  \E i \in DOMAIN frames' : x \in frames'[i].todo
    BY <1>1 DEF PendingTried
  <2>1. PICK i \in 1 .. Len(frames) : x \in frames[i].todo
    BY <1>3 DEF PendingTried
  <2>2. i # 1
    BY <1>1, <2>1
  <2>3. i - 1 \in 1 .. Len(frames) - 1 /\ frames'[i - 1] = frames[i]
    BY <1>3, <1>4, <2>2
  <2> QED BY <1>5, <2>1, <2>3
<1>7. RecursionClimbs'
  <2>1. ASSUME NEW i \in 1 .. Len(frames) - 1, NEW x \in frames'[i].todo
        PROVE  x \in pendingBlocks' /\ Prev[x] = frames'[i].block
    <3>1. i + 1 \in 1 .. Len(frames) /\ frames'[i] = frames[i + 1]
      BY <1>3, <1>4
    <3> QED BY <1>1, <1>3, <2>1, <3>1 DEF RecursionClimbs
  <2>2. ASSUME NEW i \in 1 .. (Len(frames) - 1) - 1
        PROVE  /\ frames'[i].block \in pendingBlocks'
               /\ Prev[frames'[i].block] = frames'[i + 1].block
    <3>1. /\ i \in 1 .. Len(frames) - 1 /\ i + 1 \in 1 .. Len(frames) - 1
      BY <1>3
    <3>2. frames'[i] = frames[i + 1] /\ frames'[i + 1] = frames[(i + 1) + 1]
      BY <1>4, <3>1
    <3> QED BY <1>1, <3>1, <3>2 DEF RecursionClimbs
  <2> QED BY <1>4, <1>5, <2>1, <2>2 DEF RecursionClimbs
<1> QED BY <1>6, <1>7

LEMMA InvStep == IInv /\ [Next]_vars => IInv'
<1> SUFFICES ASSUME IInv, [Next]_vars PROVE IInv'
  OBVIOUS
<1>1. TypeOK /\ TypeOK'
  BY TypeStep DEF IInv
<1>2. ASSUME NEW b \in Blocks, AddBroadcastBlock(b)
      PROVE  PendingTried' /\ RecursionClimbs'
  <2>1. /\ UNCHANGED <<saved, frames, tried>> /\ mutex = "free"
        /\ \/ UNCHANGED pendingBlocks
           \/ Prev[b] \notin saved /\ pendingBlocks' = AddPending(b)
    BY <1>2 DEF AddBroadcastBlock
  <2>2. pendingBlocks' \in SUBSET (pendingBlocks \union {b})
    BY <2>1, AddPendingAdds
  <2>3. frames = <<>>
    BY <1>1, <2>1 DEF TypeOK
  <2>4. \A x \in pendingBlocks' \ pendingBlocks : Prev[x] \notin saved
    BY <2>1, <2>2
  <2> QED BY <2>1, <2>3, <2>4, StackKept
<1>3. ASSUME AddSyncBlock \/ AddFastSyncBlock \/ AddSeekBlock \/ AddMissingBlock
               \/ RollbackRequest \/ BeginDbError \/ UNCHANGED vars
      PROVE  PendingTried' /\ RecursionClimbs'
  <2>1. UNCHANGED <<saved, frames, tried, pendingBlocks>>
    BY <1>3 DEF AddSyncBlock, AddFastSyncBlock, AddSeekBlock, AddMissingBlock,
                RollbackRequest, BeginDbError, vars, queues
  <2> QED BY <2>1, StackKept
<1>4. ASSUME Begin \/ RollbackBlocks \/ ChainHeight \/ NextPhase \/ HashLoop
      PROVE  PendingTried' /\ RecursionClimbs'
  <2>1. UNCHANGED <<saved, frames, tried, pendingBlocks>>
    BY <1>4 DEF Begin, RollbackBlocks, ChainHeight, NextPhase, HashLoop, queues
  <2> QED BY <2>1, StackKept
<1>5. ASSUME NEW b \in Blocks, SaveBlock(b)
      PROVE  PendingTried' /\ RecursionClimbs'
  <2>1. CASE SaveOk(b)
    BY <2>1, CommitKeeps
  <2>2. CASE SaveKnown(b) \/ SaveFails(b) \/ SaveLater(b) \/ SaveDoubleSpend(b)
    <3>1. Try(b) /\ (CallDone(b) \/ CallFails(b)) /\ UNCHANGED <<saved, pendingBlocks>>
      BY <2>2 DEF SaveKnown, SaveFails, SaveLater, SaveDoubleSpend, queues
    <3> QED BY <3>1, CallKeeps
  <2> QED BY <1>5, <2>1, <2>2 DEF SaveBlock
<1>6. ASSUME PostSaved
      PROVE  PendingTried' /\ RecursionClimbs'
  BY <1>6, ReturnKeeps
<1>7. ASSUME End
      PROVE  PendingTried' /\ RecursionClimbs'
  <2>1. /\ UNCHANGED <<saved, frames, tried>> /\ phase = "end"
        /\ pendingBlocks' \in SUBSET pendingBlocks
    BY <1>7 DEF End
  <2>2. frames = <<>>
    BY <1>1, <2>1 DEF TypeOK
  <2> QED BY <2>1, <2>2, StackKept
<1> QED
  BY <1>1, <1>2, <1>3, <1>4, <1>5, <1>6, <1>7
     DEF Next, ProcessStep, Arrivals, IInv

\* The wake-up of a pending block is never lost: once its predecessor is in
\* the database, the block has been tried or PostSaveProcess is about to.
THEOREM WakeUpNotLost == Spec => []PendingTried
<1>1. IInv => PendingTried
  BY DEF IInv
<1> QED BY <1>1, InvInit, InvStep, PTL DEF Spec

\* The recursion of SaveBlock and PostSaveProcess climbs from a block to a
\* child of it at every level.
THEOREM RecursionBounded == Spec => []RecursionClimbs
<1>1. IInv => RecursionClimbs
  BY DEF IInv
<1> QED BY <1>1, InvInit, InvStep, PTL DEF Spec

-----------------------------------------------------------------------------
(***************************************************************************)
(* TriedBeforeDropped.  The queue cannot change while Process runs, the    *)
(* loop over it starts with all of it, takes nothing off but what it       *)
(* tries, and is left only when it is empty.  A round that never gets that *)
(* far ends from its first phase, before it has tried anything.            *)
(***************************************************************************)
LoopCovers ==
  /\ phase = "rollback" => round = {}
  /\ phase = "broadcast" => broadcastBlocks \subseteq work \union round
  /\ phase = "hash" => broadcastBlocks \subseteq round
  /\ phase = "end" => round = {} \/ broadcastBlocks \subseteq round

LEMMA CoverInit == Init => LoopCovers
BY DEF Init, LoopCovers

\* The broadcast loop takes a block off its work only by trying it.
LEMMA CallCovers ==
  ASSUME LoopCovers, NEW b, Try(b), UNCHANGED <<phase, broadcastBlocks>>,
         \/ CallDone(b) \/ CallFails(b)
         \/ work' = IF Released THEN work ELSE work \ {b}
  PROVE  LoopCovers'
<1>1. /\ round' = round \union {b} /\ phase \notin {"rollback", "end"}
  BY DEF Try
<1>2. phase = "broadcast" => work \subseteq work' \union {b}
  BY DEF CallDone, CallFails, BySync
<1> QED BY <1>1, <1>2 DEF LoopCovers

LEMMA CoverStep == TypeOK /\ LoopCovers /\ [Next]_vars => LoopCovers'
<1> SUFFICES ASSUME TypeOK, LoopCovers, [Next]_vars PROVE LoopCovers'
  OBVIOUS
<1>1. ASSUME Arrivals PROVE LoopCovers'
  <2>1. phase \in {"idle", "failed"} /\ phase' = phase
    BY <1>1 DEF TypeOK, Arrivals, AddBroadcastBlock, AddSyncBlock,
                AddFastSyncBlock, AddSeekBlock, AddMissingBlock, RollbackRequest
  <2> QED BY <2>1 DEF LoopCovers
<1>2. CASE Begin
  BY <1>2 DEF Begin, LoopCovers
<1>3. CASE RollbackBlocks
  BY <1>3 DEF RollbackBlocks, LoopCovers, queues
<1>4. CASE ChainHeight
  BY <1>4 DEF ChainHeight, LoopCovers, queues
<1>5. CASE NextPhase
  BY <1>5 DEF NextPhase, LoopCovers
<1>6. ASSUME NEW b \in Blocks, SaveBlock(b) PROVE LoopCovers'
  <2>1. Try(b) /\ UNCHANGED <<phase, broadcastBlocks>>
    BY <1>6 DEF SaveBlock, SaveKnown, SaveOk, SaveFails, SaveLater,
                SaveDoubleSpend, queues
  <2>2. \/ CallDone(b) \/ CallFails(b)
        \/ work' = IF Released THEN work ELSE work \ {b}
    BY <1>6 DEF SaveBlock, SaveKnown, SaveOk, SaveFails, SaveLater, SaveDoubleSpend
  <2> QED BY <2>1, <2>2, CallCovers
<1>7. CASE PostSaved
  BY <1>7 DEF PostSaved, LoopCovers, queues
<1>8. CASE HashLoop
  BY <1>8 DEF HashLoop, LoopCovers
<1>9. CASE End
  BY <1>9 DEF End, LoopCovers
<1>10. CASE BeginDbError
  BY <1>10 DEF BeginDbError, LoopCovers, queues
<1>11. CASE UNCHANGED vars
  BY <1>11 DEF vars, LoopCovers, queues
<1> QED
  BY <1>1, <1>2, <1>3, <1>4, <1>5, <1>6, <1>7, <1>8, <1>9, <1>10, <1>11
     DEF Next, ProcessStep

\* What the step of TriedBeforeDropped says of one block.
Dropped(b) ==
  \/ b \in round
  \/ mutex = "process" /\ round = {}
  \/ \E a \in duplicateChecker' \ duplicateChecker :
       CheckConflict(a, b) /\ Precedes(a, b)

LEMMA DropAllowed ==
  ASSUME TypeOK, LoopCovers, [Next]_vars,
         NEW x \in broadcastBlocks, x \notin broadcastBlocks'
  PROVE  Dropped(x)
<1>1. ASSUME NEW b \in Blocks, AddBroadcastBlock(b) PROVE Dropped(x)
  <2> DEFINE rivals == {a \in broadcastBlocks : CheckConflict(a, b)}
             queue == broadcastBlocks \ Earliest(rivals)
  <2>1. /\ b \in duplicateChecker' \ duplicateChecker
        /\ \A a \in Earliest(rivals) : Precedes(b, a)
        /\ broadcastBlocks' \in {queue, Insert(queue, b)}
    BY <1>1 DEF AddBroadcastBlock
  <2>2. queue \subseteq broadcastBlocks'
    <3> HIDE DEF queue
    <3> QED BY <2>1 DEF Insert
  <2>3. x \in Earliest(rivals)
    BY <2>2
  <2>4. x \in rivals
    <3> HIDE DEF rivals
    <3> QED BY <2>3 DEF Earliest
  <2>5. CheckConflict(b, x)
    BY <2>4 DEF CheckConflict
  <2> HIDE DEF rivals
  <2> QED BY <2>1, <2>3, <2>5 DEF Dropped
<1>2. CASE End
  BY <1>2 DEF End, LoopCovers, Dropped
<1>3. CASE UNCHANGED broadcastBlocks
  BY <1>3
<1> QED
  BY <1>1, <1>2, <1>3
     DEF Next, ProcessStep, Arrivals, AddSyncBlock, AddFastSyncBlock,
         AddSeekBlock, AddMissingBlock, RollbackRequest, Begin, RollbackBlocks,
         ChainHeight, NextPhase, SaveBlock, SaveKnown, SaveOk, SaveFails,
         SaveLater, SaveDoubleSpend, PostSaved, HashLoop, BeginDbError, vars,
         queues

\* No block is thrown out of the broadcast queue untried, but for an earlier
\* rival or in a round that tried nothing.
THEOREM BroadcastPolled == Spec => TriedBeforeDropped
<1>1. TypeOK /\ LoopCovers /\ [Next]_vars =>
        [\A b \in broadcastBlocks \ broadcastBlocks' :
           \/ b \in round
           \/ mutex = "process" /\ round = {}
           \/ \E a \in duplicateChecker' \ duplicateChecker :
                CheckConflict(a, b) /\ Precedes(a, b)]_vars
  BY DropAllowed DEF Dropped
<1> QED
  BY <1>1, TypeInit, TypeStep, CoverInit, CoverStep, PTL DEF Spec, TriedBeforeDropped
=============================================================================
