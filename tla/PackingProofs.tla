--------------------------- MODULE PackingProofs ---------------------------
(***************************************************************************)
(* That whoever builds a block finds a look-up of its height, that a bad   *)
(* look-up is read once and that clearing the cache loses nothing, for any *)
(* transactions, heights, times of look-ups and number of failures.        *)
(***************************************************************************)
EXTENDS Packing, FiniteSetTheorems, TLAPS

(***************************************************************************)
(* The inductive invariant.                                                *)
(***************************************************************************)

\* Who is past the start of its work has a height; only a contract batch trusts
\* the one it was given.
AtHeight ==
  \A th \in Threads :
    /\ pc[th] \notin {"idle", "round"} => at[th] \in Heights
    /\ pc[th] = "trusting" => th = "contract"

\* The heights that have a look-up, or had one that was thrown out.
Known == Mapped \union cut

LookupInv ==
  \A th \in Threads :
    (\/ pc[th] \in {"getting", "verified"}
     \/ pc[th] = "trusting" /\ at[th] = at["verifier"]) =>
    at[th] \in Known

\* The block in the making is of the whole cache.
WholeCache ==
  pc["packer"] \in {"checking", "inserting", "getting", "trusting", "waiting"} => cache \subseteq building

\* Who has read a bad result is about to replace it, and waits for no look-up
\* whose result it has read.
ReadersInv ==
  /\ \A h \in Heights : preHashMap[h] # None =>
       \A th \in preHashMap[h].readers : pc[th] = "forcing" /\ at[th] = h
  /\ \A th \in Builders : pc[th] = "waiting" => th \notin future[th].readers
  /\ ~reread

IInv == TypeOK /\ AtHeight /\ LookupInv /\ WholeCache /\ NoneLost /\ ReadersInv

(***************************************************************************)
(* Look-ups and the map.                                                   *)
(***************************************************************************)

LEMMA ThreadsType ==
  /\ Builders \subseteq Threads /\ Txs \subseteq Threads /\ "verifier" \in Threads
  /\ "packer" \in Builders /\ "contract" \in Builders
  /\ "packer" # "contract" /\ "packer" # "verifier" /\ "contract" # "verifier"
  /\ \A t \in Txs : t # "packer" /\ t # "contract" /\ t # "verifier"
  /\ \A t \in Txs : t \notin Builders
BY PackingAssumption DEF Threads, Builders

LEMMA OlderType ==
  ASSUME NEW look \in LookUps \union {None}
  PROVE  /\ Older(look) \in LookUps \union {None}
         /\ look # None => Older(look) # None /\ Older(look).readers = look.readers
         /\ look = None => Older(look) = None
<1>1. CASE look = None \/ Ended(look)
  BY <1>1 DEF Older
<1>2. CASE look # None /\ ~Ended(look)
  <2>1. look \in LookUps
    BY <1>2
  <2>2. look.age \in Nat /\ look.due \in Nat /\ look.age + 1 <= look.due
    <3>1. look.age \in Nat /\ look.due \in GoodTimes \union BadTimes /\ look.age <= look.due
      BY <2>1 DEF LookUps
    <3>2. look.due \in Nat
      BY <3>1, PackingAssumption
    <3>3. look.age # look.due
      BY <1>2 DEF Ended
    <3>. QED
      BY <3>1, <3>2, <3>3
  <2>3. Older(look) = [look EXCEPT !.age = look.age + 1]
    BY <1>2 DEF Older
  <2>4. Older(look) \in LookUps /\ Older(look).readers = look.readers
    BY <2>1, <2>2, <2>3 DEF LookUps
  <2>. QED
    BY <1>2, <2>4, NoneAssumption
<1>. QED
  BY <1>1, <1>2

LEMMA TaskType ==
  ASSUME NEW task \in Tasks
  PROVE  /\ task \in LookUps /\ task # None /\ task.readers = {}
         /\ ~task.good => failures < MaxFailures
<1>1. \A d \in GoodTimes \union BadTimes, g \in BOOLEAN :
        Task(d, g) \in LookUps /\ Task(d, g).readers = {} /\ Task(d, g).good = g
  BY PackingAssumption DEF Task, LookUps
<1>2. CASE task \in {Task(d, TRUE) : d \in GoodTimes}
  BY <1>1, <1>2, NoneAssumption
<1>3. CASE failures < MaxFailures /\ task \in {Task(d, FALSE) : d \in BadTimes}
  BY <1>1, <1>3, NoneAssumption
<1>. QED
  BY <1>2, <1>3 DEF Tasks

\* The type of preHashMap, and what a step leaves known.
Maps == [Heights -> LookUps \union {None}]

LEMMA PutType ==
  ASSUME TypeOK, NEW map \in Maps, NEW h \in Heights, Put(map, h)
  PROVE  /\ preHashMap' \in Maps
         /\ failures' \in 0 .. MaxFailures
         /\ preHashMap'[h] # None /\ preHashMap'[h].readers = {}
         /\ \A k \in Heights \ {h} : preHashMap'[k] = map[k]
<1>1. PICK task \in Tasks :
        /\ preHashMap' = [map EXCEPT ![h] = task]
        /\ failures' = IF task.good THEN failures ELSE failures + 1
  BY DEF Put
<1>2. task \in LookUps /\ task # None /\ task.readers = {} /\ (~task.good => failures < MaxFailures)
  BY TaskType
<1>3. preHashMap' \in Maps
  BY <1>1, <1>2 DEF Maps
<1>4. failures' \in 0 .. MaxFailures
  BY <1>1, <1>2, PackingAssumption DEF TypeOK
<1>. QED
  BY <1>1, <1>2, <1>3, <1>4 DEF Maps

LEMMA CutsType ==
  ASSUME TypeOK, NEW map \in Cuts
  PROVE  /\ map \in Maps
         /\ \A h \in Heights : map[h] = preHashMap[h] \/ map[h] = None
BY DEF TypeOK, Cuts, Maps

(***************************************************************************)
(* Threads.                                                                *)
(***************************************************************************)

Places == {"idle", "round", "checking", "inserting", "getting", "trusting",
           "waiting", "forcing", "verified"}

LEMMA StepType ==
  ASSUME TypeOK, NEW th \in Threads, NEW to \in Places, Step(th, to)
  PROVE  /\ pc' \in [Threads -> Places] /\ at' \in [Threads -> Heights \union {None}]
         /\ pc'[th] = to /\ (to # "idle" => at' = at) /\ (to = "idle" => at'[th] = None)
         /\ \A u \in Threads \ {th} : pc'[u] = pc[u] /\ at'[u] = at[u]
<1>1. pc \in [Threads -> Places] /\ at \in [Threads -> Heights \union {None}]
  BY DEF TypeOK, Places
<1>2. pc' = [pc EXCEPT ![th] = to] /\ at' = IF to = "idle" THEN [at EXCEPT ![th] = None] ELSE at
  BY DEF Step
<1>. QED
  BY <1>1, <1>2

LEMMA BeginType ==
  ASSUME TypeOK, NEW th \in Threads, NEW h \in Heights, Begin(th, h)
  PROVE  /\ pc' \in [Threads -> Places] /\ at' \in [Threads -> Heights \union {None}]
         /\ pc'[th] = "checking" /\ at'[th] = h
         /\ \A u \in Threads \ {th} : pc'[u] = pc[u] /\ at'[u] = at[u]
BY DEF TypeOK, Places, Begin

LEMMA CommittedType ==
  \A th \in Threads : Committed(th) \in {"getting", "verified"} /\ (th \in Builders => Committed(th) = "getting")
BY DEF Committed

LEMMA ClearType ==
  ASSUME TypeOK, NEW outcome \in {"packed", "dropped"}, Clear(outcome)
  PROVE  /\ fate' \in [Txs -> {"none", "cached", "packed", "dropped", "lost"}]
         /\ cache' = {} /\ building' = {}
         /\ cache \subseteq building /\ NoneLost => NoneLost'
BY DEF TypeOK, Clear, NoneLost

\* Who waits has a future, the look-up of preHashMap or none.
FutureType ==
  /\ future \in [Builders -> LookUps \union {None}]
  /\ \A th \in Builders : pc[th] = "waiting" => future[th] # None
  /\ waited \in [Builders -> 0 .. Patience]

TxType ==
  /\ cache \subseteq Txs /\ building \subseteq Txs
  /\ fate \in [Txs -> {"none", "cached", "packed", "dropped", "lost"}]

MapType ==
  /\ preHashMap \in [Heights -> LookUps \union {None}]
  /\ failures \in 0 .. MaxFailures /\ cut \subseteq Heights

PlaceType ==
  /\ pc \in [Threads -> Places]
  /\ at \in [Threads -> Heights \union {None}]

RestType ==
  /\ phase \in 0 .. Interval /\ top \in Heights
  /\ batches \in 0 .. MaxJobs
  /\ reread \in BOOLEAN

LEMMA TypeParts == TypeOK <=> FutureType /\ TxType /\ MapType /\ PlaceType /\ RestType
BY DEF TypeOK, FutureType, TxType, MapType, PlaceType, RestType, Places

LEMMA TypePartsNext == FutureType' /\ TxType' /\ MapType' /\ PlaceType' /\ RestType' => TypeOK'
BY DEF TypeOK, FutureType, TxType, MapType, PlaceType, RestType, Places

\* A thread that does not come to wait, and a future that stays or goes.
LEMMA FutureStep ==
  ASSUME TypeOK, NEW th \in Threads,
         \A u \in Threads \ {th} : pc'[u] = pc[u],
         \/ UNCHANGED <<future, waited>> /\ pc'[th] # "waiting"
         \/ th \in Builders /\ Stop(th) /\ pc'[th] # "waiting"
  PROVE  FutureType'
BY ThreadsType DEF TypeOK, FutureType, Stop, Patience

LEMMA JobsType ==
  ASSUME TypeOK, Jobs < MaxJobs
  PROVE  batches + 1 \in 0 .. MaxJobs
<1>. DEFINE S == {t \in Txs : fate[t] # "none" \/ pc[t] # "idle"}
<1>1. IsFiniteSet(S)
  BY PackingAssumption, FS_Subset
<1>2. Cardinality(S) \in Nat
  BY <1>1, FS_CardinalityType
<1>. QED
  BY <1>2, PackingAssumption DEF TypeOK, Jobs

LEMMA TypeStep ==
  ASSUME TypeOK, AtHeight, [Next]_vars
  PROVE  TypeOK'
<1>. USE ThreadsType
<1>0. FutureType /\ TxType /\ MapType /\ PlaceType /\ RestType
  BY TypeParts
<1>1. CASE Notify
  <2>1. PlaceType' /\ RestType'
    BY <1>0, <1>1 DEF Notify, PlaceType, RestType, Places, Interval
  <2>2. FutureType'
    BY <1>0, <1>1 DEF Notify, FutureType, PlaceType
  <2>3. TxType' /\ MapType'
    BY <1>0, <1>1 DEF Notify, TxType, MapType, txVars, mapVars
  <2>. QED
    BY <2>1, <2>2, <2>3, TypePartsNext
<1>2. CASE Round
  <2>1. CASE cache = {} /\ Step("packer", "idle") /\ UNCHANGED txVars
    <3>1. PlaceType' /\ FutureType'
      BY <1>2, <2>1, StepType, FutureStep DEF Round, PlaceType, Places
    <3>. QED
      BY <1>0, <1>2, <2>1, <3>1, TypePartsNext DEF Round, TxType, MapType, RestType, txVars, mapVars, timeVars
  <2>2. CASE \E height \in Heights : Begin("packer", height) /\ building' = cache /\ UNCHANGED <<cache, fate>>
    <3>1. PlaceType' /\ FutureType'
      BY <1>2, <2>2, BeginType, FutureStep DEF Round, PlaceType, Places
    <3>. QED
      BY <1>0, <1>2, <2>2, <3>1, TypePartsNext DEF Round, TxType, MapType, RestType, mapVars, timeVars
  <2>3. CASE /\ Step("packer", "idle")
             /\ fate' = [t \in Txs |-> IF t \in cache THEN "dropped" ELSE fate[t]]
             /\ cache' = {} /\ UNCHANGED building
    <3>1. PlaceType' /\ FutureType'
      BY <1>2, <2>3, StepType, FutureStep DEF Round, PlaceType, Places
    <3>2. TxType'
      BY <1>0, <2>3 DEF TxType
    <3>. QED
      BY <1>0, <1>2, <3>1, <3>2, TypePartsNext DEF Round, MapType, RestType, mapVars, timeVars
  <2>. QED
    BY <1>2, <2>1, <2>2, <2>3 DEF Round
<1>3. CASE \E th \in Threads : IsSeekTask(th)
  <2>1. PICK th \in Threads : IsSeekTask(th)
    BY <1>3
  <2>2. PICK to \in Places \ {"waiting"} : Step(th, to)
    BY <2>1, CommittedType DEF IsSeekTask, Places
  <2>3. PlaceType' /\ FutureType'
    BY <2>1, <2>2, StepType, FutureStep DEF IsSeekTask, PlaceType
  <2>. QED
    BY <1>0, <2>1, <2>3, TypePartsNext DEF IsSeekTask, TxType, MapType, RestType, txVars, mapVars, timeVars
<1>4. CASE \E th \in Threads : CommitLookupTask(th)
  <2>1. PICK th \in Threads : CommitLookupTask(th)
    BY <1>4
  <2>2. at[th] \in Heights
    BY <2>1 DEF CommitLookupTask, AtHeight
  <2>3. PICK map \in Cuts :
          /\ Put(map, at[th])
          /\ cut' = (cut \union {h \in Mapped : map[h] = None}) \ {at[th]}
    BY <2>1 DEF CommitLookupTask
  <2>4. MapType'
    BY <1>0, <2>2, <2>3, CutsType, PutType DEF MapType, Maps, Mapped
  <2>5. Committed(th) \in Places \ {"waiting"} /\ Step(th, Committed(th))
    BY <2>1, CommittedType DEF CommitLookupTask, Places
  <2>6. PlaceType' /\ FutureType'
    BY <2>1, <2>5, StepType, FutureStep DEF CommitLookupTask, PlaceType
  <2>. QED
    BY <1>0, <2>1, <2>4, <2>6, TypePartsNext DEF CommitLookupTask, TxType, RestType, txVars, timeVars
<1>5. CASE \E th \in Builders : GetPrehash(th)
  <2>1. PICK th \in Builders : GetPrehash(th)
    BY <1>5
  <2>2. MapType' /\ RestType'
    BY <1>0, <2>1 DEF GetPrehash, MapType, RestType, mapVars, timeVars
  <2>3. CASE at[th] \in Mapped
    <3>1. Step(th, "waiting") /\ future' = [future EXCEPT ![th] = preHashMap[at[th]]] /\ UNCHANGED txVars
      BY <2>1, <2>3 DEF GetPrehash
    <3>2. PlaceType' /\ \A u \in Threads \ {th} : pc'[u] = pc[u]
      BY <3>1, StepType DEF PlaceType, Places
    <3>3. preHashMap[at[th]] \in LookUps /\ preHashMap[at[th]] # None
      BY <1>0, <2>3 DEF MapType, Mapped
    <3>4. FutureType'
      BY <1>0, <2>1, <3>1, <3>2, <3>3 DEF FutureType, GetPrehash
    <3>. QED
      BY <1>0, <2>2, <3>1, <3>2, <3>4, TypePartsNext DEF TxType, txVars
  <2>4. CASE at[th] \notin Mapped
    <3>1. PlaceType' /\ FutureType'
      BY <2>1, <2>4, StepType, FutureStep DEF GetPrehash, PlaceType, Places
    <3>2. TxType'
      BY <1>0, <2>1, <2>4, ClearType DEF GetPrehash, TxType, txVars
    <3>. QED
      BY <2>2, <3>1, <3>2, TypePartsNext
  <2>. QED
    BY <2>3, <2>4
<1>6. CASE \E th \in Builders : ForceCommitSeekJob(th)
  <2>1. PICK th \in Builders : ForceCommitSeekJob(th)
    BY <1>6
  <2>2. at[th] \in Heights
    BY <2>1 DEF ForceCommitSeekJob, AtHeight
  <2>3. MapType'
    BY <1>0, <2>1, <2>2, PutType DEF ForceCommitSeekJob, MapType, Maps
  <2>4. PlaceType' /\ FutureType'
    BY <2>1, StepType, FutureStep DEF ForceCommitSeekJob, PlaceType, Places
  <2>5. TxType'
    BY <1>0, <2>1 DEF ForceCommitSeekJob, TxType
  <2>. QED
    BY <1>0, <2>1, <2>3, <2>4, <2>5, TypePartsNext DEF ForceCommitSeekJob, RestType, timeVars
<1>7. CASE \E th \in Builders : Build(th)
  <2>1. PICK th \in Builders : Build(th)
    BY <1>7
  <2>2. PlaceType' /\ FutureType'
    BY <2>1, StepType, FutureStep DEF Build, PlaceType, Places
  <2>3. TxType'
    BY <1>0, <2>1, ClearType DEF Build, TxType, txVars
  <2>. QED
    BY <1>0, <2>1, <2>2, <2>3, TypePartsNext DEF Build, MapType, RestType, mapVars, timeVars
<1>8. CASE \E th \in Builders : ReadFailure(th)
  <2>1. PICK th \in Builders : ReadFailure(th)
    BY <1>8
  <2>2. PlaceType' /\ FutureType'
    BY <2>1, StepType, FutureStep DEF ReadFailure, AfterFailure, PlaceType, Places
  <2>3. at[th] \in Heights
    BY <2>1 DEF ReadFailure, AtHeight
  <2>4. future[th] \in LookUps
    BY <1>0, <2>1 DEF FutureType, ReadFailure
  <2>5. ReadBy(future[th], th) \in LookUps
    BY <2>1, <2>4 DEF ReadBy, LookUps
  <2>6. MapType'
    BY <1>0, <2>1, <2>3, <2>5 DEF ReadFailure, MapType
  <2>. QED
    BY <1>0, <2>1, <2>2, <2>6, TypePartsNext DEF ReadFailure, TxType, RestType, txVars, timeVars
<1>9. CASE \E th \in Builders : TimeOut(th)
  <2>1. PICK th \in Builders : TimeOut(th)
    BY <1>9
  <2>2. PlaceType' /\ FutureType'
    BY <2>1, StepType, FutureStep DEF TimeOut, PlaceType, Places
  <2>. QED
    BY <1>0, <2>1, <2>2, TypePartsNext DEF TimeOut, TxType, MapType, RestType, txVars, mapVars, timeVars
<1>10. CASE Tick
  <2>1. MapType'
    BY <1>0, <1>10, OlderType DEF Tick, MapType
  <2>2. \A th \in Builders : pc[th] = "waiting" => waited[th] # Patience
    BY <1>10 DEF Tick, Due
  <2>3. waited' \in [Builders -> 0 .. Patience]
    BY <1>0, <1>10, <2>2 DEF Tick, FutureType, Patience
  <2>4. FutureType'
    BY <1>0, <1>10, <2>3, OlderType DEF Tick, FutureType
  <2>5. RestType'
    BY <1>0, <1>10 DEF Tick, RestType, Interval
  <2>. QED
    BY <1>0, <1>10, <2>1, <2>4, <2>5, TypePartsNext DEF Tick, TxType, PlaceType, txVars
<1>11. CASE \E t \in Txs : Verify(t)
  <2>1. PICK t \in Txs : Verify(t)
    BY <1>11
  <2>2. PlaceType' /\ FutureType'
    BY <1>0, <2>1, BeginType, FutureStep DEF Verify, PlaceType, RestType
  <2>. QED
    BY <1>0, <2>1, <2>2, TypePartsNext DEF Verify, TxType, MapType, RestType, txVars, mapVars, timeVars
<1>12. CASE \E t \in Txs : AddCache(t)
  <2>1. PICK t \in Txs : AddCache(t)
    BY <1>12
  <2>2. TxType'
    BY <1>0, <2>1 DEF AddCache, TxType
  <2>3. PlaceType' /\ FutureType'
    <3>1. CASE Step(t, "idle")
      BY <2>1, <3>1, StepType, FutureStep DEF AddCache, PlaceType, Places
    <3>2. CASE /\ at' = [at EXCEPT ![t] = None]
               /\ pc' = [pc EXCEPT ![t] = "idle",
                                   !["packer"] = IF Cardinality(cache') >= Threshold /\ @ = "idle" THEN "round" ELSE @]
      BY <1>0, <2>1, <3>2 DEF AddCache, PlaceType, FutureType, Places
    <3>. QED
      BY <2>1, <3>1, <3>2 DEF AddCache
  <2>. QED
    BY <1>0, <2>1, <2>2, <2>3, TypePartsNext DEF AddCache, MapType, RestType, mapVars, timeVars
<1>13. CASE StartBatch
  <2>1. PlaceType' /\ FutureType'
    BY <1>0, <1>13, BeginType, FutureStep DEF StartBatch, PlaceType, RestType
  <2>2. RestType'
    BY <1>0, <1>13, JobsType DEF StartBatch, RestType, timeVars
  <2>. QED
    BY <1>0, <1>13, <2>1, <2>2, TypePartsNext DEF StartBatch, TxType, MapType, txVars, mapVars
<1>14. CASE ProcessContract
  <2>1. PlaceType' /\ FutureType'
    BY <1>0, <1>14 DEF ProcessContract, PlaceType, FutureType, RestType, Places
  <2>. QED
    BY <1>0, <1>14, <2>1, TypePartsNext DEF ProcessContract, TxType, MapType, RestType, txVars, mapVars, timeVars
<1>15. CASE LoseBatch
  <2>1. PlaceType' /\ FutureType'
    BY <1>15, StepType, FutureStep DEF LoseBatch, PlaceType, Places
  <2>. QED
    BY <1>0, <1>15, <2>1, TypePartsNext DEF LoseBatch, TxType, MapType, RestType, txVars, mapVars, timeVars
<1>16. CASE NewTop
  BY <1>0, <1>16, TypePartsNext
  DEF NewTop, FutureType, TxType, MapType, PlaceType, RestType, threadVars, txVars, mapVars
<1>17. CASE UNCHANGED vars
  BY <1>17 DEF TypeOK, vars, timeVars, mapVars, threadVars, txVars
<1>. QED
  BY <1>1, <1>2, <1>3, <1>4, <1>5, <1>6, <1>7, <1>8, <1>9, <1>10, <1>11, <1>12, <1>13, <1>14, <1>15, <1>16, <1>17 DEF Next, Packer, Waiting

(***************************************************************************)
(* What has a look-up, or lost it, stays so.                               *)
(***************************************************************************)

LEMMA CommitKnown ==
  ASSUME TypeOK, AtHeight, NEW th \in Threads, CommitLookupTask(th)
  PROVE  Known \subseteq Known' /\ at[th] \in Known'
<1>1. at[th] \in Heights
  BY DEF CommitLookupTask, AtHeight
<1>2. PICK map \in Cuts :
        /\ Put(map, at[th])
        /\ cut' = (cut \union {h \in Mapped : map[h] = None}) \ {at[th]}
  BY DEF CommitLookupTask
<1>. QED
  BY <1>1, <1>2, CutsType, PutType DEF Known, Mapped, TypeOK

LEMMA ForceKnown ==
  ASSUME TypeOK, AtHeight, NEW th \in Threads, ForceCommitSeekJob(th)
  PROVE  Known \subseteq Known'
<1>1. at[th] \in Heights
  BY DEF ForceCommitSeekJob, AtHeight
<1>2. preHashMap \in Maps /\ Put(preHashMap, at[th]) /\ cut' = cut \ {at[th]}
  BY DEF ForceCommitSeekJob, TypeOK, Maps
<1>. QED
  BY <1>1, <1>2, PutType DEF Known, Mapped, TypeOK

LEMMA ReadByType ==
  ASSUME NEW look \in LookUps, NEW th \in Builders
  PROVE  /\ ReadBy(look, th) \in LookUps /\ ReadBy(look, th) # None
         /\ ReadBy(look, th).readers = look.readers \union {th}
BY NoneAssumption DEF ReadBy, LookUps

LEMMA ReadMap ==
  ASSUME TypeOK, AtHeight, NEW th \in Builders, ReadFailure(th)
  PROVE  \A h \in Heights :
           \/ preHashMap'[h] = preHashMap[h]
           \/ /\ h = at[th] /\ preHashMap[h] = future[th] /\ preHashMap[h] # None
              /\ preHashMap'[h] # None /\ preHashMap'[h].readers = preHashMap[h].readers \union {th}
<1>1. future[th] \in LookUps /\ future[th] # None
  BY NoneAssumption DEF TypeOK, ReadFailure
<1>2. preHashMap \in [Heights -> LookUps \union {None}]
  BY DEF TypeOK
<1>3. CASE preHashMap[at[th]] = future[th]
  BY <1>1, <1>2, <1>3, ReadByType DEF ReadFailure
<1>4. CASE preHashMap[at[th]] # future[th]
  BY <1>4 DEF ReadFailure
<1>. QED
  BY <1>3, <1>4

LEMMA KnownGrows ==
  ASSUME TypeOK, AtHeight, [Next]_vars
  PROVE  Known \subseteq Known'
<1>. USE ThreadsType
<1>1. CASE \E th \in Threads : CommitLookupTask(th)
  BY <1>1, CommitKnown
<1>2. CASE \E th \in Builders : ForceCommitSeekJob(th)
  BY <1>2, ForceKnown
<1>3. CASE \E th \in Builders : ReadFailure(th)
  <2>1. PICK th \in Builders : ReadFailure(th)
    BY <1>3
  <2>2. cut' = cut
    BY <2>1 DEF ReadFailure
  <2>. QED
    BY <2>1, <2>2, ReadMap DEF Known, Mapped
<1>4. CASE Tick
  BY <1>4, OlderType DEF Tick, Known, Mapped, TypeOK
<1>5. CASE UNCHANGED mapVars
  BY <1>5 DEF mapVars, Known, Mapped
<1>. QED
  BY <1>1, <1>2, <1>3, <1>4, <1>5
  DEF Next, Packer, Waiting, Notify, Round, IsSeekTask, GetPrehash, Build, TimeOut, Verify, AddCache,
      StartBatch, ProcessContract, LoseBatch, NewTop, vars

(***************************************************************************)
(* The heights of the threads.                                             *)
(***************************************************************************)

\* A step of one thread, which does not come to trust a height.
LEMMA OneThread ==
  ASSUME AtHeight, LookupInv, Known \subseteq Known', NEW th \in Threads,
         \A u \in Threads \ {th} : pc'[u] = pc[u] /\ at'[u] = at[u],
         pc'[th] \notin {"idle", "round"} => at'[th] \in Heights,
         pc'[th] # "trusting",
         pc'[th] \in {"getting", "verified"} => at'[th] \in Known',
         at'["verifier"] = at["verifier"] \/ pc'["contract"] # "trusting"
  PROVE  AtHeight' /\ LookupInv'
<1>1. \A u \in Threads : pc'[u] \notin {"idle", "round"} => at'[u] \in Heights
  BY DEF AtHeight
<1>2. \A u \in Threads : pc'[u] = "trusting" => u # th /\ u = "contract" /\ at'["verifier"] = at["verifier"]
  BY DEF AtHeight
<1>3. \A u \in Threads : pc'[u] \in {"getting", "verified"} => at'[u] \in Known'
  BY DEF LookupInv
<1>4. \A u \in Threads : pc'[u] = "trusting" /\ at'[u] = at'["verifier"] => at'[u] \in Known'
  BY <1>2 DEF LookupInv
<1>. QED
  BY <1>1, <1>2, <1>3, <1>4 DEF AtHeight, LookupInv

\* The steps of a thread that stays on its height or gives it up.
LEMMA StepThread ==
  ASSUME TypeOK, AtHeight, LookupInv, Known \subseteq Known',
         NEW th \in Threads, NEW to \in Places \ {"trusting"}, Step(th, to),
         to \notin {"idle", "round"} => at[th] \in Heights,
         to \in {"getting", "verified"} => at[th] \in Known',
         th = "verifier" => to # "idle"
  PROVE  AtHeight' /\ LookupInv'
<1>1. /\ pc'[th] = to /\ (to # "idle" => at' = at)
      /\ \A u \in Threads \ {th} : pc'[u] = pc[u] /\ at'[u] = at[u]
  BY StepType
<1>2. at'["verifier"] = at["verifier"]
  BY <1>1, ThreadsType
<1>. QED
  BY <1>1, <1>2, OneThread

LEMMA LookupStep ==
  ASSUME TypeOK, AtHeight, LookupInv, [Next]_vars
  PROVE  AtHeight' /\ LookupInv'
<1>. USE ThreadsType
<1>a. Known \subseteq Known'
  BY KnownGrows
<1>1. CASE Notify
  <2>1. pc' = [pc EXCEPT !["packer"] = IF @ = "idle" THEN "round" ELSE @] /\ at' = at
    BY <1>1 DEF Notify
  <2>2. pc \in [Threads -> Places]
    BY TypeParts DEF PlaceType
  <2>. QED
    BY <1>a, <2>1, <2>2 DEF AtHeight, LookupInv
<1>2. CASE Round
  <2>1. CASE Step("packer", "idle")
    BY <1>a, <2>1, StepThread DEF Places
  <2>2. CASE \E height \in Heights : Begin("packer", height)
    BY <1>a, <2>2, BeginType, OneThread
  <2>. QED
    BY <1>2, <2>1, <2>2 DEF Round
<1>3. CASE \E th \in Threads : IsSeekTask(th)
  <2>1. PICK th \in Threads : IsSeekTask(th)
    BY <1>3
  <2>2. at[th] \in Heights
    BY <2>1 DEF IsSeekTask, AtHeight
  <2>3. CASE at[th] \in Mapped
    <3>1. Step(th, Committed(th)) /\ Committed(th) \in Places \ {"trusting", "idle"}
      BY <2>1, <2>3, CommittedType DEF IsSeekTask, Places
    <3>2. at[th] \in Known'
      BY <1>a, <2>3 DEF Known
    <3>. QED
      BY <1>a, <2>2, <3>1, <3>2, StepThread
  <2>4. CASE at[th] \notin Mapped
    BY <1>a, <2>1, <2>2, <2>4, StepThread DEF IsSeekTask, Places
  <2>. QED
    BY <2>3, <2>4
<1>4. CASE \E th \in Threads : CommitLookupTask(th)
  <2>1. PICK th \in Threads : CommitLookupTask(th)
    BY <1>4
  <2>2. at[th] \in Heights
    BY <2>1 DEF CommitLookupTask, AtHeight
  <2>3. Step(th, Committed(th)) /\ Committed(th) \in Places \ {"trusting", "idle"}
    BY <2>1, CommittedType DEF CommitLookupTask, Places
  <2>4. at[th] \in Known'
    BY <2>1, CommitKnown
  <2>. QED
    BY <1>a, <2>2, <2>3, <2>4, StepThread
<1>5. CASE \E th \in Builders : GetPrehash(th)
  <2>1. PICK th \in Builders : GetPrehash(th)
    BY <1>5
  <2>2. at[th] \in Heights
    BY <2>1 DEF GetPrehash, AtHeight
  <2>3. Step(th, "waiting") \/ Step(th, "idle")
    BY <2>1 DEF GetPrehash
  <2>4. th # "verifier"
    BY DEF Builders
  <2>. QED
    BY <1>a, <2>2, <2>3, <2>4, StepThread DEF Places
<1>6. CASE \E th \in Builders : ForceCommitSeekJob(th) \/ Build(th) \/ ReadFailure(th) \/ TimeOut(th)
  <2>1. PICK th \in Builders : ForceCommitSeekJob(th) \/ Build(th) \/ ReadFailure(th) \/ TimeOut(th)
    BY <1>6
  <2>2. at[th] \in Heights
    BY <2>1 DEF ForceCommitSeekJob, Build, ReadFailure, TimeOut, AtHeight
  <2>3. Step(th, "forcing") \/ Step(th, "idle")
    BY <2>1 DEF ForceCommitSeekJob, Build, ReadFailure, TimeOut, AfterFailure
  <2>4. th # "verifier"
    BY DEF Builders
  <2>. QED
    BY <1>a, <2>2, <2>3, <2>4, StepThread DEF Places
<1>7. CASE \E t \in Txs : Verify(t)
  <2>1. PICK t \in Txs : Verify(t)
    BY <1>7
  <2>2. top \in Heights /\ Begin(t, top)
    BY <2>1 DEF Verify, TypeOK
  <2>. QED
    BY <1>a, <2>2, BeginType, OneThread
<1>8. CASE \E t \in Txs : AddCache(t)
  <2>1. PICK t \in Txs : AddCache(t)
    BY <1>8
  <2>2. CASE Step(t, "idle")
    BY <1>a, <2>2, StepThread DEF Places
  <2>3. CASE /\ at' = [at EXCEPT ![t] = None]
             /\ pc' = [pc EXCEPT ![t] = "idle",
                                 !["packer"] = IF Cardinality(cache') >= Threshold /\ @ = "idle" THEN "round" ELSE @]
    <3>1. /\ pc'[t] = "idle" /\ pc'["packer"] \in {"idle", "round"}
          /\ \A u \in Threads \ {t} : at'[u] = at[u]
          /\ \A u \in Threads \ {t, "packer"} : pc'[u] = pc[u]
      BY <2>1, <2>3, TypeParts DEF AddCache, MutexFree, PlaceType
    <3>. QED
      BY <1>a, <3>1 DEF AtHeight, LookupInv
  <2>. QED
    BY <2>1, <2>2, <2>3 DEF AddCache
<1>9. CASE StartBatch
  <2>1. top \in Heights /\ Begin("verifier", top) /\ pc["contract"] = "idle"
    BY <1>9 DEF StartBatch, TypeOK
  <2>2. /\ pc'["verifier"] = "checking" /\ at'["verifier"] = top
        /\ \A u \in Threads \ {"verifier"} : pc'[u] = pc[u] /\ at'[u] = at[u]
    BY <2>1, BeginType
  <2>3. pc'["contract"] # "trusting"
    BY <2>1, <2>2
  <2>. QED
    BY <1>a, <2>1, <2>2, <2>3, OneThread
<1>10. CASE ProcessContract
  <2>1. PICK h \in Heights :
          /\ at' = [at EXCEPT !["contract"] = IF top > h THEN top ELSE h]
          /\ pc' = [pc EXCEPT !["verifier"] = "idle",
                              !["contract"] = IF top > h THEN "checking" ELSE "trusting"]
    BY <1>10 DEF ProcessContract
  <2>2. /\ pc \in [Threads -> Places] /\ at \in [Threads -> Heights \union {None}] /\ top \in Heights
    BY TypeParts DEF PlaceType, RestType
  <2>3. /\ pc'["verifier"] = "idle" /\ at'["verifier"] = at["verifier"]
        /\ pc'["contract"] \in {"checking", "trusting"} /\ at'["contract"] \in Heights
        /\ \A u \in Threads \ {"verifier", "contract"} : pc'[u] = pc[u] /\ at'[u] = at[u]
    BY <2>1, <2>2
  <2>4. at["verifier"] \in Known'
    BY <1>a, <1>10 DEF ProcessContract, LookupInv
  <2>. QED
    BY <1>a, <2>3, <2>4 DEF AtHeight, LookupInv
<1>11. CASE LoseBatch
  BY <1>a, <1>11, StepThread DEF LoseBatch, Places
<1>12. CASE UNCHANGED <<pc, at>>
  BY <1>a, <1>12 DEF AtHeight, LookupInv
<1>. QED
  BY <1>1, <1>2, <1>3, <1>4, <1>5, <1>6, <1>7, <1>8, <1>9, <1>10, <1>11, <1>12
  DEF Next, Packer, Waiting, Tick, NewTop, vars, threadVars

(***************************************************************************)
(* The cache and the block in the making.                                  *)
(***************************************************************************)

LEMMA WholeStep ==
  ASSUME TypeOK, WholeCache, NoneLost, [Next]_vars
  PROVE  WholeCache' /\ NoneLost'
<1>. USE ThreadsType
<1>0. pc \in [Threads -> Places]
  BY TypeParts DEF PlaceType
<1>1. CASE Round
  <2>1. CASE Step("packer", "idle")
    BY <1>1, <2>1, StepType DEF Round, WholeCache, NoneLost, Places, txVars
  <2>2. CASE building' = cache /\ UNCHANGED <<cache, fate>>
    BY <2>2 DEF WholeCache, NoneLost
  <2>. QED
    BY <1>1, <2>1, <2>2 DEF Round
<1>2. CASE \E th \in Builders : GetPrehash(th)
  <2>1. PICK th \in Builders : GetPrehash(th)
    BY <1>2
  <2>2. CASE UNCHANGED txVars
    <3>1. pc'["packer"] = pc["packer"] \/ pc["packer"] \in {"getting", "trusting"}
      BY <2>1, StepType DEF GetPrehash, Places
    <3>. QED
      BY <2>2, <3>1 DEF WholeCache, NoneLost, txVars
  <2>3. CASE th = "packer" /\ Clear("dropped")
    BY <2>1, <2>3, ClearType DEF GetPrehash, WholeCache
  <2>. QED
    BY <2>1, <2>2, <2>3 DEF GetPrehash
<1>3. CASE \E th \in Builders : Build(th)
  <2>1. PICK th \in Builders : Build(th)
    BY <1>3
  <2>2. CASE th # "packer" /\ UNCHANGED txVars
    BY <2>1, <2>2, StepType DEF Build, WholeCache, NoneLost, txVars, Places
  <2>3. CASE th = "packer" /\ \E outcome \in {"packed", "dropped"} : Clear(outcome)
    BY <2>1, <2>3, ClearType DEF Build, WholeCache
  <2>. QED
    BY <2>1, <2>2, <2>3 DEF Build
<1>4. CASE \E th \in Builders : ForceCommitSeekJob(th)
  <2>1. PICK th \in Builders : ForceCommitSeekJob(th)
    BY <1>4
  <2>2. pc'[th] = "idle" /\ \A u \in Threads \ {th} : pc'[u] = pc[u]
    BY <2>1, StepType DEF ForceCommitSeekJob, Places
  <2>. QED
    BY <2>1, <2>2 DEF ForceCommitSeekJob, WholeCache, NoneLost
<1>5. CASE \E t \in Txs : AddCache(t)
  <2>1. PICK t \in Txs : AddCache(t)
    BY <1>5
  <2>2. pc'["packer"] \in {"idle", "round"}
    BY <1>0, <2>1 DEF AddCache, MutexFree, Step
  <2>3. NoneLost'
    BY <2>1 DEF AddCache, NoneLost, TypeOK
  <2>. QED
    BY <2>2, <2>3 DEF WholeCache
<1>6. CASE UNCHANGED txVars /\ (pc'["packer"] = pc["packer"] \/ pc'["packer"] \in {"idle", "round", "forcing"})
  BY <1>6 DEF WholeCache, NoneLost, txVars
<1>7. CASE \E th \in Threads : IsSeekTask(th) \/ CommitLookupTask(th)
  <2>1. PICK th \in Threads : IsSeekTask(th) \/ CommitLookupTask(th)
    BY <1>7
  <2>2. UNCHANGED txVars
    BY <2>1 DEF IsSeekTask, CommitLookupTask
  <2>3. pc'["packer"] = pc["packer"] \/ pc["packer"] \in {"checking", "inserting"}
    BY <1>0, <2>1 DEF IsSeekTask, CommitLookupTask, Step
  <2>. QED
    BY <2>2, <2>3 DEF WholeCache, NoneLost, txVars
<1>8. CASE \E th \in Builders : ReadFailure(th) \/ TimeOut(th)
  <2>1. PICK th \in Builders : ReadFailure(th) \/ TimeOut(th)
    BY <1>8
  <2>2. pc'["packer"] = pc["packer"] \/ pc'["packer"] = "forcing"
    BY <1>0, <2>1 DEF ReadFailure, TimeOut, AfterFailure, Step
  <2>. QED
    BY <1>6, <2>1, <2>2 DEF ReadFailure, TimeOut
<1>9. CASE Notify
  BY <1>0, <1>6, <1>9 DEF Notify
<1>10. CASE \E t \in Txs : Verify(t)
  BY <1>0, <1>6, <1>10 DEF Verify, Begin
<1>11. CASE StartBatch \/ ProcessContract \/ LoseBatch
  BY <1>0, <1>6, <1>11 DEF StartBatch, ProcessContract, LoseBatch, Begin, Step
<1>12. CASE UNCHANGED <<pc, txVars>>
  BY <1>6, <1>12
<1>. QED
  BY <1>1, <1>2, <1>3, <1>4, <1>5, <1>7, <1>8, <1>9, <1>10, <1>11, <1>12
  DEF Next, Packer, Waiting, Tick, NewTop, vars, threadVars

(***************************************************************************)
(* The readers of bad results.                                             *)
(***************************************************************************)

\* preHashMap is left alone, and nobody leaves "forcing" or comes to wait.
LEMMA ReadersStay ==
  ASSUME ReadersInv, UNCHANGED <<preHashMap, reread>>,
         \A u \in Threads : pc[u] = "forcing" => pc'[u] = "forcing" /\ at'[u] = at[u],
         \A u \in Builders : pc'[u] = "waiting" => pc[u] = "waiting" /\ future'[u] = future[u],
         TypeOK
  PROVE  ReadersInv'
<1>1. \A h \in Heights : preHashMap[h] # None => preHashMap[h].readers \subseteq Threads
  BY ThreadsType DEF TypeOK, LookUps
<1>. QED
  BY <1>1 DEF ReadersInv

\* One thread takes a step that leaves preHashMap alone.
LEMMA ReadersOne ==
  ASSUME TypeOK, ReadersInv, UNCHANGED <<preHashMap, reread>>, NEW th \in Threads,
         \A u \in Threads \ {th} : pc'[u] = pc[u] /\ at'[u] = at[u],
         pc[th] # "forcing", pc'[th] # "waiting",
         \A u \in Builders \ {th} : future'[u] = future[u]
  PROVE  ReadersInv'
<1>1. \A u \in Threads : pc[u] = "forcing" => pc'[u] = "forcing" /\ at'[u] = at[u]
  OBVIOUS
<1>2. \A u \in Builders : pc'[u] = "waiting" => pc[u] = "waiting" /\ future'[u] = future[u]
  BY ThreadsType
<1>. QED
  BY <1>1, <1>2, ReadersStay

\* A look-up is replaced at the height of the thread, which was not forcing or
\* stops.
LEMMA ReadersPut ==
  ASSUME TypeOK, ReadersInv, UNCHANGED <<reread, future>>, NEW th \in Threads,
         NEW map \in Maps, Put(map, at[th]), at[th] \in Heights,
         \A h \in Heights : map[h] = preHashMap[h] \/ map[h] = None,
         \A u \in Threads \ {th} : pc'[u] = pc[u] /\ at'[u] = at[u],
         pc'[th] # "waiting"
  PROVE  ReadersInv'
<1>1. /\ preHashMap'[at[th]].readers = {}
      /\ \A k \in Heights \ {at[th]} : preHashMap'[k] = map[k]
  BY PutType
<1>2. \A h \in Heights : preHashMap[h] # None => preHashMap[h].readers \subseteq Threads
  BY ThreadsType DEF TypeOK, LookUps
<1>3. \A h \in Heights : preHashMap'[h] # None =>
        \A u \in preHashMap'[h].readers : pc'[u] = "forcing" /\ at'[u] = h
  <2>. SUFFICES ASSUME NEW h \in Heights, preHashMap'[h] # None, NEW u \in preHashMap'[h].readers
                PROVE  pc'[u] = "forcing" /\ at'[u] = h
    OBVIOUS
  <2>1. h # at[th] /\ preHashMap'[h] = preHashMap[h] /\ preHashMap[h] # None
    BY <1>1
  <2>2. u \in Threads /\ pc[u] = "forcing" /\ at[u] = h
    BY <1>2, <2>1 DEF ReadersInv
  <2>. QED
    BY <2>1, <2>2
<1>. QED
  BY <1>3, ThreadsType DEF ReadersInv

LEMMA ReadersStep ==
  ASSUME TypeOK, AtHeight, ReadersInv, [Next]_vars
  PROVE  ReadersInv'
<1>. USE ThreadsType
<1>0. pc \in [Threads -> Places] /\ at \in [Threads -> Heights \union {None}]
  BY TypeParts DEF PlaceType
<1>1. CASE Notify \/ Round \/ \E t \in Txs : Verify(t) \/ AddCache(t)
  <2>1. UNCHANGED <<preHashMap, reread, future>>
    BY <1>1 DEF Notify, Round, Verify, AddCache, mapVars
  <2>2. \A u \in Threads : pc[u] = "forcing" => pc'[u] = "forcing" /\ at'[u] = at[u]
    BY <1>0, <1>1 DEF Notify, Round, Verify, AddCache, Begin, Step
  <2>3. \A u \in Builders : pc'[u] = "waiting" => pc[u] = "waiting"
    BY <1>0, <1>1 DEF Notify, Round, Verify, AddCache, Begin, Step
  <2>. QED
    BY <2>1, <2>2, <2>3, ReadersStay
<1>2. CASE \E th \in Threads : IsSeekTask(th)
  <2>1. PICK th \in Threads : IsSeekTask(th)
    BY <1>2
  <2>2. PICK to \in Places \ {"waiting"} : Step(th, to)
    BY <2>1, CommittedType DEF IsSeekTask, Places
  <2>. QED
    BY <2>1, <2>2, StepType, ReadersOne DEF IsSeekTask, mapVars
<1>3. CASE \E th \in Threads : CommitLookupTask(th)
  <2>1. PICK th \in Threads : CommitLookupTask(th)
    BY <1>3
  <2>2. at[th] \in Heights /\ Committed(th) \in Places \ {"waiting"}
    BY <2>1, CommittedType DEF CommitLookupTask, AtHeight, Places
  <2>3. PICK map \in Cuts : Put(map, at[th])
    BY <2>1 DEF CommitLookupTask
  <2>4. \A u \in Threads \ {th} : pc'[u] = pc[u] /\ at'[u] = at[u]
    BY <2>1, <2>2, StepType DEF CommitLookupTask
  <2>5. pc'[th] # "waiting"
    BY <2>1, <2>2, StepType DEF CommitLookupTask
  <2>6. UNCHANGED <<reread, future>>
    BY <2>1 DEF CommitLookupTask
  <2>. QED
    BY <2>2, <2>3, <2>4, <2>5, <2>6, CutsType, ReadersPut
<1>4. CASE \E th \in Builders : GetPrehash(th)
  <2>1. PICK th \in Builders : GetPrehash(th)
    BY <1>4
  <2>2. UNCHANGED <<preHashMap, reread>> /\ pc[th] # "forcing"
    BY <2>1 DEF GetPrehash, mapVars
  <2>3. CASE at[th] \notin Mapped
    BY <2>1, <2>2, <2>3, StepType, ReadersOne DEF GetPrehash, Places
  <2>4. CASE at[th] \in Mapped
    <3>1. future' = [future EXCEPT ![th] = preHashMap[at[th]]] /\ Step(th, "waiting")
      BY <2>1, <2>4 DEF GetPrehash
    <3>2. pc'[th] = "waiting" /\ \A u \in Threads \ {th} : pc'[u] = pc[u] /\ at'[u] = at[u]
      BY <3>1, StepType DEF Places
    <3>3. th \notin future'[th].readers
      BY <2>2, <2>4, <3>1 DEF ReadersInv, Mapped, TypeOK
    <3>4. \A u \in Builders : pc'[u] = "waiting" => u \notin future'[u].readers
      BY <3>1, <3>2, <3>3 DEF ReadersInv, TypeOK
    <3>5. \A h \in Heights : preHashMap[h] # None => preHashMap[h].readers \subseteq Threads
      BY DEF TypeOK, LookUps
    <3>. QED
      BY <2>2, <3>2, <3>4, <3>5 DEF ReadersInv
  <2>. QED
    BY <2>3, <2>4
<1>5. CASE \E th \in Builders : ForceCommitSeekJob(th)
  <2>1. PICK th \in Builders : ForceCommitSeekJob(th)
    BY <1>5
  <2>2. at[th] \in Heights /\ preHashMap \in Maps
    BY <2>1 DEF ForceCommitSeekJob, AtHeight, TypeOK, Maps
  <2>3. pc'[th] = "idle" /\ \A u \in Threads \ {th} : pc'[u] = pc[u] /\ at'[u] = at[u]
    BY <2>1, StepType DEF ForceCommitSeekJob, Places
  <2>4. Put(preHashMap, at[th]) /\ UNCHANGED <<reread, future>>
    BY <2>1 DEF ForceCommitSeekJob
  <2>. QED
    BY <2>2, <2>3, <2>4, ReadersPut
<1>6. CASE \E th \in Builders : Build(th) \/ TimeOut(th)
  <2>1. PICK th \in Builders : Build(th) \/ TimeOut(th)
    BY <1>6
  <2>2. UNCHANGED <<preHashMap, reread>> /\ pc[th] = "waiting" /\ Stop(th) /\ (Step(th, "idle") \/ Step(th, "forcing"))
    BY <2>1 DEF Build, TimeOut, mapVars
  <2>3. \A u \in Builders \ {th} : future'[u] = future[u]
    BY <2>2 DEF Stop, TypeOK
  <2>4. pc'[th] # "waiting" /\ \A u \in Threads \ {th} : pc'[u] = pc[u] /\ at'[u] = at[u]
    BY <2>2, StepType DEF Places
  <2>. QED
    BY <2>2, <2>3, <2>4, ReadersOne
<1>7. CASE \E th \in Builders : ReadFailure(th)
  <2>1. PICK th \in Builders : ReadFailure(th)
    BY <1>7
  <2>2. ~reread'
    BY <2>1 DEF ReadFailure, ReadersInv
  <2>3. pc'[th] = "forcing" /\ at' = at /\ \A u \in Threads \ {th} : pc'[u] = pc[u]
    BY <2>1, StepType DEF ReadFailure, AfterFailure, Places
  <2>4. \A u \in Builders : pc'[u] = "waiting" => u \notin future'[u].readers
    BY <2>1, <2>3 DEF ReadFailure, Stop, ReadersInv, TypeOK
  <2>5. \A h \in Heights : preHashMap[h] # None => preHashMap[h].readers \subseteq Threads
    BY DEF TypeOK, LookUps
  <2>6. \A h \in Heights : preHashMap'[h] # None =>
          \A u \in preHashMap'[h].readers : pc'[u] = "forcing" /\ at'[u] = h
    BY <2>1, <2>3, <2>5, ReadMap DEF ReadersInv
  <2>. QED
    BY <2>2, <2>4, <2>6 DEF ReadersInv
<1>8. CASE Tick
  <2>1. \A h \in Heights : preHashMap'[h] # None =>
          preHashMap[h] # None /\ preHashMap'[h].readers = preHashMap[h].readers
    BY <1>8, OlderType DEF Tick, TypeOK
  <2>2. \A u \in Builders : pc[u] = "waiting" => future'[u].readers = future[u].readers
    BY <1>8, OlderType DEF Tick, TypeOK
  <2>3. UNCHANGED <<pc, at, reread>>
    BY <1>8 DEF Tick
  <2>. QED
    BY <2>1, <2>2, <2>3 DEF ReadersInv
<1>9. CASE StartBatch \/ ProcessContract \/ LoseBatch
  <2>1. UNCHANGED <<preHashMap, reread, future>>
    BY <1>9 DEF StartBatch, ProcessContract, LoseBatch, mapVars
  <2>2. \A u \in Threads : pc[u] = "forcing" => pc'[u] = "forcing" /\ at'[u] = at[u]
    <3>1. CASE StartBatch
      BY <1>0, <3>1 DEF StartBatch, Begin
    <3>2. CASE ProcessContract
      BY <1>0, <3>2 DEF ProcessContract
    <3>3. CASE LoseBatch
      BY <1>0, <3>3 DEF LoseBatch, Step
    <3>. QED
      BY <1>9, <3>1, <3>2, <3>3
  <2>3. \A u \in Builders : pc'[u] = "waiting" => pc[u] = "waiting"
    BY <1>0, <1>9 DEF StartBatch, ProcessContract, LoseBatch, Begin, Step
  <2>. QED
    BY <2>1, <2>2, <2>3, ReadersStay
<1>10. CASE UNCHANGED <<pc, at, future, preHashMap, reread>>
  BY <1>10 DEF ReadersInv
<1>. QED
  BY <1>1, <1>2, <1>3, <1>4, <1>5, <1>6, <1>7, <1>8, <1>9, <1>10
  DEF Next, Packer, Waiting, NewTop, vars, threadVars, mapVars

(***************************************************************************)
(* The theorems.                                                           *)
(***************************************************************************)

LEMMA Initially == Init => IInv
<1>. SUFFICES ASSUME Init PROVE IInv
  OBVIOUS
<1>1. FutureType
  BY ThreadsType DEF Init, FutureType, Patience
<1>2. TxType
  BY DEF Init, TxType
<1>3. MapType
  BY PackingAssumption DEF Init, MapType
<1>9. RestType
  <2>1. phase \in 0 .. Interval /\ top \in Heights /\ batches \in 0 .. MaxJobs
    BY PackingAssumption DEF Init, Interval
  <2>2. reread \in BOOLEAN
    BY DEF Init
  <2>. QED
    BY <2>1, <2>2 DEF RestType
<1>4. PlaceType
  BY DEF Init, PlaceType, Places
<1>5. TypeOK
  BY <1>1, <1>2, <1>3, <1>4, <1>9, TypeParts
<1>6. AtHeight /\ LookupInv
  BY DEF Init, AtHeight, LookupInv
<1>7. WholeCache /\ NoneLost
  BY DEF Init, WholeCache, NoneLost
<1>8. ReadersInv
  BY ThreadsType DEF Init, ReadersInv
<1>. QED
  BY <1>5, <1>6, <1>7, <1>8 DEF IInv

LEMMA Inductive == IInv /\ [Next]_vars => IInv'
BY TypeStep, LookupStep, WholeStep, ReadersStep DEF IInv

THEOREM Invariance == Spec => []IInv
BY Initially, Inductive, PTL DEF Spec

\* Every variable has its type: what a waiting thread holds is a look-up, and no
\* look-up outlives its time (CreateBlock, commitLookupTask).
THEOREM TypeCorrect == Spec => []TypeOK
<1>1. IInv => TypeOK
  BY DEF IInv
<1>. QED
  BY <1>1, Invariance, PTL

\* No block fails for want of a look-up, unless the trimming of preHashMap has
\* thrown it out (GetPrehash after commitLookupTask).
THEOREM LookupsFound == Spec => []LookupFound
<1>1. IInv => LookupFound
  BY ThreadsType DEF IInv, LookupInv, LookupFound, Known
<1>. QED
  BY <1>1, Invariance, PTL

\* No thread reads the bad result of the same look-up twice
\* (BuildBlock's ForceCommitSeekJob).
THEOREM FailuresReplaced == Spec => []FailedOnce
<1>1. IInv => FailedOnce
  BY DEF IInv, ReadersInv, FailedOnce
<1>. QED
  BY <1>1, Invariance, PTL

\* Clearing the cache takes no transaction that was not in the block
\* (processTransactionCacheFunc).
THEOREM NothingLost == Spec => []NoneLost
<1>1. IInv => NoneLost
  BY DEF IInv
<1>. QED
  BY <1>1, Invariance, PTL
=============================================================================
