-------------------------- MODULE ContractDispatch --------------------------
(***************************************************************************)
(* How a contract request reaches a packager: DependencyManager,           *)
(* MessageDispatcher and TimerProcessor (ca/dispatchtx.cpp), and           *)
(* ContractTransactionCache (ca/contract_transaction_cache.cpp).           *)
(*                                                                         *)
(* A request names the contract addresses it depends on.  The node where   *)
(* it is made (its origin) sends it to a dispatcher, unless the hash of    *)
(* another request is listed under one of those addresses; then a timer    *)
(* of the origin holds it until it may be sent or is old enough to be      *)
(* forced.  A dispatcher notes the request, broadcasts its hash to all     *)
(* nodes, who list it, and keeps its message.  The dispatcher's own timer  *)
(* groups what it has noted by shared addresses, sends each group to a     *)
(* packager and wipes both caches.                                         *)
(*                                                                         *)
(* A request that is sent from the cache gets a new time and a new hash;   *)
(* a request of the model is the transaction whatever its hash.  The time  *)
(* between two flushes (3 s, longer or shorter by how the counter falls)   *)
(* is left open.                                                           *)
(***************************************************************************)
EXTENDS Naturals, Sequences, FiniteSets

CONSTANTS
  Nodes,
  Requests,
  Origin,       \* Origin[r]: the node where r is made
  Dispatchers,  \* the nodes a request may be sent to
  Addresses,
  Deps,         \* Deps[r]: the addresses in r's contractstoragelist
  Parts,        \* groups a flush sends at most (PARTS, 8)
  ForceAge,     \* FORCE_SEND_TIMEOUT (15 s), in units of 15 s
  MaxAge,       \* bound: the age at which the model stops counting
  SendFails,    \* whether sending may fail
  PackFails     \* whether FindContractPackNode may find nobody

ASSUME ContractDispatchAssumption ==
  /\ Origin \in [Requests -> Nodes]
  /\ Dispatchers \subseteq Nodes
  /\ Deps \in [Requests -> SUBSET Addresses]
  /\ Parts \in Nat \ {0}
  /\ ForceAge \in Nat /\ MaxAge \in Nat
  /\ SendFails \in BOOLEAN /\ PackFails \in BOOLEAN

VARIABLES
  stage,      \* how far each request is
  at,         \* where it is: its origin, then the dispatcher it was sent to
  held,       \* _cachedTransactions of each node
  age,        \* how long a request has been held
  check,      \* how far _CheckCachedTransactions of each node is
  overdue,    \* the requests whose time in the cache will compare as too long
  scan,       \* those it has yet to test, under the shared cache lock
  sending,    \* transactionsToSend, as far as not yet sent
  removing,   \* transactionsToRemove
  listed,     \* the hashes in dependency_tx_hashes_ of each node
  mail,       \* dependency broadcasts under way, with the node they go to
  confirmed,  \* the requests each node has saved in a block
  depCache,   \* contract_dep_cache_ of each dispatcher
  msgCache,   \* contract_msg_cache_
  flush,      \* how far the dispatcher's ProcessingFunc is
  ungrouped,  \* keys the grouping has yet to visit, under dep_mutex_
  groups,     \* grouped_deps, as far as messages are yet to be collected
  batches,    \* grouped_msgs, then grouped_data
  sends,      \* how often each request was sent to a dispatcher
  flushes     \* how many flushes sent it to a packager

cacheVars == <<held, age, check, overdue, scan, sending, removing>>
listVars == <<listed, mail, confirmed>>
dispatcherVars == <<depCache, msgCache>>
flushVars == <<flush, ungrouped, groups, batches, flushes>>
vars == <<stage, at, cacheVars, listVars, dispatcherVars, flushVars, sends>>

Stages == {"new", "held", "travelling", "noted", "announced", "stored", "refused"}
Checks == {"idle", "clocked", "testing", "sending"}
Flushes == {"idle", "grouping", "grouped", "collecting", "collected", "sent"}

Init ==
  /\ stage = [r \in Requests |-> "new"]
  /\ at = Origin
  /\ held = [n \in Nodes |-> {}]
  /\ age = [r \in Requests |-> 0]
  /\ check = [n \in Nodes |-> "idle"]
  /\ overdue = [n \in Nodes |-> {}]
  /\ scan = [n \in Nodes |-> {}]
  /\ sending = [n \in Nodes |-> {}]
  /\ removing = [n \in Nodes |-> {}]
  /\ listed = [n \in Nodes |-> {}]
  /\ mail = {}
  /\ confirmed = [n \in Nodes |-> {}]
  /\ depCache = [n \in Nodes |-> {}]
  /\ msgCache = [n \in Nodes |-> {}]
  /\ flush = [n \in Nodes |-> "idle"]
  /\ ungrouped = [n \in Nodes |-> {}]
  /\ groups = [n \in Nodes |-> <<>>]
  /\ batches = [n \in Nodes |-> <<>>]
  /\ sends = [r \in Requests |-> 0]
  /\ flushes = [r \in Requests |-> 0]

\* HasDuplicate: the two share an address.
Share(r, q) == Deps[r] \cap Deps[q] # {}

\* A hash is listed under every address of its request, in one critical
\* section, and removed from under all of them in one; so the set of listed
\* requests says what dependency_tx_hashes_ holds.
CanSendTransaction(n, r) == \A q \in listed[n] : ~Share(r, q)

(***************************************************************************)
(* The origin: submission and the cache of held requests.                  *)
(***************************************************************************)

\* contractTransactionRequest sends to a dispatcher chosen by the time of the
\* call, so to any of them.
Send(r) ==
  /\ stage' = [stage EXCEPT ![r] = "travelling"]
  /\ \E d \in Dispatchers : at' = [at EXCEPT ![r] = d]
  /\ sends' = [sends EXCEPT ![r] = @ + 1]

\* A request is made, and nothing is listed that it must wait for.
SubmitAtOnce(r) ==
  /\ stage[r] = "new"
  /\ CanSendTransaction(Origin[r], r)
  /\ \/ Send(r)
     \/ /\ SendFails
        /\ stage' = [stage EXCEPT ![r] = "refused"]
        /\ UNCHANGED <<at, sends>>
  /\ UNCHANGED <<cacheVars, listVars, dispatcherVars, flushVars>>

\* A request is made that must wait.  AddFailedTransaction waits for the cache's
\* lock while held requests are tested.  If a second has begun since the timer
\* read its clock, the new timestamp is the greater of the two, and the unsigned
\* difference currentTime - timestamp wraps around to a very great age.
SubmitHeld(r) ==
  LET n == Origin[r] IN
  /\ stage[r] = "new"
  /\ ~CanSendTransaction(n, r)
  /\ check[n] # "testing"
  /\ stage' = [stage EXCEPT ![r] = "held"]
  /\ held' = [held EXCEPT ![n] = @ \union {r}]
  /\ \/ UNCHANGED overdue
     \/ /\ check[n] = "clocked"
        /\ overdue' = [overdue EXCEPT ![n] = @ \union {r}]
  /\ UNCHANGED <<at, age, check, scan, sending, removing, sends,
                 listVars, dispatcherVars, flushVars>>

\* 15 seconds pass for a held request.
Age(r) ==
  /\ stage[r] = "held" /\ age[r] < MaxAge
  /\ age' = [age EXCEPT ![r] = @ + 1]
  /\ UNCHANGED <<stage, at, held, check, overdue, scan, sending, removing,
                 sends, listVars, dispatcherVars, flushVars>>

\* Variant: no request is ever old enough to be forced.
NeverOld(n) == {}

\* The requests that have been held for FORCE_SEND_TIMEOUT.
OldEnough(n) == {r \in held[n] : age[r] >= ForceAge}

\* The timer finds the cache not empty and reads the clock.
ReadClock(n) ==
  /\ check[n] = "idle" /\ held[n] # {}
  /\ check' = [check EXCEPT ![n] = "clocked"]
  /\ overdue' = [overdue EXCEPT ![n] = OldEnough(n)]
  /\ UNCHANGED <<stage, at, held, age, scan, sending, removing, sends,
                 listVars, dispatcherVars, flushVars>>

\* It takes the cache's lock, in shared mode.
LockCache(n) ==
  /\ check[n] = "clocked"
  /\ check' = [check EXCEPT ![n] = "testing"]
  /\ scan' = [scan EXCEPT ![n] = held[n]]
  /\ UNCHANGED <<stage, at, held, age, overdue, sending, removing, sends,
                 listVars, dispatcherVars, flushVars>>

\* It tests one held request.  Forcing also publishes the confirmation of
\* the hash the request has in the cache; no such hash is listed anywhere,
\* since only a request that was sent, under a new hash, is listed.
Test(n) ==
  /\ check[n] = "testing"
  /\ \E r \in scan[n] :
       /\ scan' = [scan EXCEPT ![n] = @ \ {r}]
       /\ IF r \in overdue[n] \/ CanSendTransaction(n, r)
          THEN /\ sending' = [sending EXCEPT ![n] = @ \union {r}]
               /\ removing' = [removing EXCEPT ![n] = @ \union {r}]
          ELSE UNCHANGED <<sending, removing>>
  /\ UNCHANGED <<stage, at, held, age, check, overdue, sends,
                 listVars, dispatcherVars, flushVars>>

\* Variant: the requests to send leave the cache before they are sent.
UnlockCacheErasing(n) ==
  /\ check[n] = "testing" /\ scan[n] = {}
  /\ check' = [check EXCEPT ![n] = "sending"]
  /\ held' = [held EXCEPT ![n] = @ \ removing[n]]
  /\ UNCHANGED <<stage, at, age, overdue, scan, sending, removing, sends,
                 listVars, dispatcherVars, flushVars>>

\* All are tested and the lock is released.
UnlockCache(n) ==
  /\ check[n] = "testing" /\ scan[n] = {}
  /\ check' = [check EXCEPT ![n] = "sending"]
  /\ UNCHANGED <<stage, at, held, age, overdue, scan, sending, removing, sends,
                 listVars, dispatcherVars, flushVars>>

\* _SendCachedTransaction, for one of those to send; the caller logs a failure.
SendCached(n) ==
  /\ check[n] = "sending"
  /\ \E r \in sending[n] :
       /\ sending' = [sending EXCEPT ![n] = @ \ {r}]
       /\ \/ Send(r)
          \/ SendFails /\ UNCHANGED <<stage, at, sends>>
  /\ UNCHANGED <<held, age, check, overdue, scan, removing,
                 listVars, dispatcherVars, flushVars>>

\* Variants: the requests stay in the cache, or the whole cache is cleared.
KeptAll(n) == held[n]
KeptNone(n) == {}

\* transactionsToRemove leave the cache, those whose send failed among them.
Kept(n) == held[n] \ removing[n]

RemoveTried(n) ==
  /\ check[n] = "sending" /\ sending[n] = {}
  /\ check' = [check EXCEPT ![n] = "idle"]
  /\ held' = [held EXCEPT ![n] = Kept(n)]
  /\ removing' = [removing EXCEPT ![n] = {}]
  /\ overdue' = [overdue EXCEPT ![n] = {}]
  /\ UNCHANGED <<stage, at, age, scan, sending, sends,
                 listVars, dispatcherVars, flushVars>>

(***************************************************************************)
(* The dispatcher: the handler of a request (a network thread each).       *)
(***************************************************************************)

\* The request passes the handler's checks and AddContractInfo notes its
\* dependencies; the grouping keeps dep_mutex_ while it runs.
Receive(r) ==
  LET n == at[r] IN
  /\ stage[r] = "travelling" /\ flush[n] # "grouping"
  /\ stage' = [stage EXCEPT ![r] = "noted"]
  /\ depCache' = [depCache EXCEPT ![n] = @ \union {r}]
  /\ UNCHANGED <<at, msgCache, sends, cacheVars, listVars, flushVars>>

\* Or it fails them, or is lost on the way.
Refuse(r) ==
  /\ stage[r] = "travelling"
  /\ stage' = [stage EXCEPT ![r] = "refused"]
  /\ UNCHANGED <<at, sends, cacheVars, listVars, dispatcherVars, flushVars>>

\* BroadcastAddedDependency, after dep_mutex_ is released: the hash is listed
\* here and sent to every other node.
Announce(r) ==
  LET n == at[r] IN
  /\ stage[r] = "noted"
  /\ stage' = [stage EXCEPT ![r] = "announced"]
  /\ IF Deps[r] = {}
     THEN UNCHANGED <<listed, mail>>
     ELSE /\ listed' = [listed EXCEPT ![n] = @ \union {r}]
          /\ mail' = mail \union ((Nodes \ {n}) \X {r})
  /\ UNCHANGED <<at, confirmed, sends, cacheVars, dispatcherVars, flushVars>>

\* AddContractMessageRequest, which the handler calls last.
Store(r) ==
  /\ stage[r] = "announced"
  /\ stage' = [stage EXCEPT ![r] = "stored"]
  /\ msgCache' = [msgCache EXCEPT ![at[r]] = @ \union {r}]
  /\ UNCHANGED <<at, depCache, sends, cacheVars, listVars, flushVars>>

\* StoreBroadcastDependencies.  A broadcast may arrive late, or never.
Deliver ==
  /\ \E m \in mail :
       /\ mail' = mail \ {m}
       /\ listed' = [listed EXCEPT ![m[1]] = @ \union {m[2]}]
  /\ UNCHANGED <<stage, at, confirmed, sends, cacheVars, dispatcherVars, flushVars>>

\* A node saves a block with r in it: ClearDependency.
Confirm(n, r) ==
  /\ flushes[r] > 0 /\ r \notin confirmed[n]
  /\ confirmed' = [confirmed EXCEPT ![n] = @ \union {r}]
  /\ listed' = [listed EXCEPT ![n] = @ \ {r}]
  /\ UNCHANGED <<stage, at, mail, sends, cacheVars, dispatcherVars, flushVars>>

(***************************************************************************)
(* The dispatcher: ProcessingFunc.                                         *)
(***************************************************************************)

BeginGrouping(n) ==
  /\ flush[n] = "idle" /\ depCache[n] # {}
  /\ flush' = [flush EXCEPT ![n] = "grouping"]
  /\ ungrouped' = [ungrouped EXCEPT ![n] = depCache[n]]
  /\ UNCHANGED <<stage, at, sends, groups, batches, flushes,
                 cacheVars, listVars, dispatcherVars>>

\* Variant: the two lists of addresses are compared as wholes.
Alike(n, r) == {q \in depCache[n] : q # r /\ Deps[q] = Deps[r]}

\* The requests noted here that share an address with r.
Neighbours(n, r) == {q \in depCache[n] : q # r /\ Share(r, q)}

\* keys joins the first group it meets, or becomes a group of its own.
Merge(gs, keys) ==
  LET meets == {i \in DOMAIN gs : gs[i] \cap keys # {}}
  IN  IF meets = {}
      THEN Append(gs, keys)
      ELSE LET first == CHOOSE i \in meets : \A j \in meets : i <= j
           IN  [gs EXCEPT ![first] = @ \union keys]

\* One turn of the loop over contract_dep_cache_, which is not ordered.
Group(n) ==
  /\ flush[n] = "grouping"
  /\ \E r \in ungrouped[n] :
       /\ ungrouped' = [ungrouped EXCEPT ![n] = @ \ {r}]
       /\ groups' = [groups EXCEPT ![n] = Merge(@, {r} \union Neighbours(n, r))]
  /\ UNCHANGED <<stage, at, sends, flush, batches, flushes,
                 cacheVars, listVars, dispatcherVars>>

\* The loop ends and dep_mutex_ is released.
EndGrouping(n) ==
  /\ flush[n] = "grouping" /\ ungrouped[n] = {}
  /\ flush' = [flush EXCEPT ![n] = "grouped"]
  /\ UNCHANGED <<stage, at, sends, ungrouped, groups, batches, flushes,
                 cacheVars, listVars, dispatcherVars>>

\* The messages at hand of the next group are collected, if there are any.
\* contract_msg_cache_ is read through a reference with its mutex released, so
\* a message stored meanwhile is found or is not.
CollectGroup(n) ==
  LET msgs == Head(groups[n]) \cap msgCache[n] IN
  /\ flush[n] \in {"grouped", "collecting"} /\ groups[n] # <<>>
  /\ flush' = [flush EXCEPT ![n] = "collecting"]
  /\ groups' = [groups EXCEPT ![n] = Tail(@)]
  /\ batches' = [batches EXCEPT ![n] = IF msgs = {} THEN @ ELSE Append(@, msgs)]
  /\ UNCHANGED <<stage, at, sends, ungrouped, flushes, cacheVars, listVars, dispatcherVars>>

\* GroupData: at most Parts batches, the first of which takes the remainder.
GroupData(gs) ==
  LET size == Len(gs)
      perPart == size \div Parts
      remain == size % Parts
      First(i) == IF i = 1 THEN 1 ELSE remain + (i - 1) * perPart + 1
      Part(i) == UNION {gs[j] : j \in First(i) .. remain + i * perPart}
  IN  IF size <= Parts THEN gs ELSE [i \in 1 .. Parts |-> Part(i)]

\* With nothing to send, the flush is over and both caches stay.
EndCollecting(n) ==
  /\ flush[n] = "collecting" /\ groups[n] = <<>>
  /\ batches' = [batches EXCEPT ![n] = GroupData(@)]
  /\ flush' = [flush EXCEPT ![n] = IF batches[n] = <<>> THEN "idle" ELSE "collected"]
  /\ UNCHANGED <<stage, at, sends, ungrouped, groups, flushes,
                 cacheVars, listVars, dispatcherVars>>

\* A packager is sought for each batch, and those that have one are sent.
\* With none for any batch, the flush is over and both caches stay.
Distribute(n) ==
  /\ flush[n] = "collected"
  /\ \E found \in SUBSET DOMAIN batches[n] :
       /\ PackFails \/ found = DOMAIN batches[n]
       /\ LET sent == UNION {batches[n][i] : i \in found} IN
          flushes' = [r \in Requests |->
                        IF r \in sent THEN flushes[r] + 1 ELSE flushes[r]]
       /\ flush' = [flush EXCEPT ![n] = IF found = {} THEN "idle" ELSE "sent"]
       /\ batches' = [batches EXCEPT ![n] = IF found = {} THEN <<>> ELSE @]
  /\ UNCHANGED <<stage, at, sends, ungrouped, groups, cacheVars, listVars, dispatcherVars>>

\* Variant: the caches are left as they are.
KeepCaches(n) ==
  /\ flush[n] = "sent"
  /\ flush' = [flush EXCEPT ![n] = "idle"]
  /\ batches' = [batches EXCEPT ![n] = <<>>]
  /\ UNCHANGED <<stage, at, sends, ungrouped, groups, flushes,
                 cacheVars, listVars, dispatcherVars>>

\* ClearCaches, under both mutexes.
ClearCaches(n) ==
  /\ flush[n] = "sent"
  /\ flush' = [flush EXCEPT ![n] = "idle"]
  /\ depCache' = [depCache EXCEPT ![n] = {}]
  /\ msgCache' = [msgCache EXCEPT ![n] = {}]
  /\ batches' = [batches EXCEPT ![n] = <<>>]
  /\ UNCHANGED <<stage, at, sends, ungrouped, groups, flushes, cacheVars, listVars>>

CheckStep(n) ==
  ReadClock(n) \/ LockCache(n) \/ Test(n) \/ UnlockCache(n) \/ SendCached(n) \/ RemoveTried(n)

FlushStep(n) ==
  \/ BeginGrouping(n) \/ Group(n) \/ EndGrouping(n)
  \/ CollectGroup(n) \/ EndCollecting(n) \/ Distribute(n) \/ ClearCaches(n)

Next ==
  \/ \E r \in Requests :
       \/ SubmitAtOnce(r) \/ SubmitHeld(r) \/ Age(r)
       \/ Receive(r) \/ Refuse(r) \/ Announce(r) \/ Store(r)
  \/ \E n \in Nodes : CheckStep(n) \/ FlushStep(n) \/ \E r \in Requests : Confirm(n, r)
  \/ Deliver

\* The timer of held requests goes on firing, its thread makes progress, and
\* time passes.  Nothing is assumed of dispatchers, packagers or the network.
Spec ==
  /\ Init /\ [][Next]_vars
  /\ \A n \in Nodes : WF_vars(CheckStep(n))
  /\ \A r \in Requests : WF_vars(Age(r))

(***************************************************************************)
(* Properties.                                                             *)
(***************************************************************************)

\* The type invariant; the timer's thread tests and sends what is held.
RequestTypes ==
  /\ stage \in [Requests -> Stages]
  /\ at \in [Requests -> Nodes]
  /\ age \in [Requests -> 0 .. MaxAge]
  /\ sends \in [Requests -> Nat]

CacheTypes ==
  /\ held \in [Nodes -> SUBSET Requests]
  /\ check \in [Nodes -> Checks]
  /\ overdue \in [Nodes -> SUBSET Requests]
  /\ scan \in [Nodes -> SUBSET Requests]
  /\ sending \in [Nodes -> SUBSET Requests]
  /\ removing \in [Nodes -> SUBSET Requests]
  /\ \A n \in Nodes : scan[n] \union sending[n] \subseteq held[n]

ListTypes ==
  /\ listed \in [Nodes -> SUBSET Requests]
  /\ mail \in SUBSET (Nodes \X Requests)
  /\ confirmed \in [Nodes -> SUBSET Requests]
  /\ depCache \in [Nodes -> SUBSET Requests]
  /\ msgCache \in [Nodes -> SUBSET Requests]

FlushTypes ==
  /\ flush \in [Nodes -> Flushes]
  /\ ungrouped \in [Nodes -> SUBSET Requests]
  /\ groups \in [Nodes -> Seq(SUBSET Requests)]
  /\ batches \in [Nodes -> Seq(SUBSET Requests)]
  /\ flushes \in [Requests -> Nat]

TypeOK == RequestTypes /\ CacheTypes /\ ListTypes /\ FlushTypes

\* A request goes to a dispatcher once, though it stays in the cache while the
\* timer sends it and other threads add to that cache.
SentOnce == \A r \in Requests : sends[r] <= 1

\* A request that must wait stays in its origin's cache until it is sent
\* ("Remove sent transactions from cache", contract_transaction_cache.cpp:95).
HeldUntilSent == \A r \in Requests : stage[r] = "held" => r \in held[Origin[r]]

\* Two requests noted here that share an address are in one group when every
\* key has been visited, whatever the order of the visits: the groups are
\* joined greedily, in one pass.
SharedTogether ==
  \A n \in Nodes : flush[n] = "grouping" /\ ungrouped[n] = {} =>
    \A r, q \in depCache[n] : Share(r, q) =>
      \E i \in DOMAIN groups[n] : {r, q} \subseteq groups[n][i]

\* One flush at most sends a request, though requests arrive while it runs and
\* the wiped caches are filled again.
FlushedOnce == \A r \in Requests : flushes[r] <= 1

\* "The data received from the initiator is stored" (dispatchtx.h:73): what a
\* dispatcher has accepted is stored there until a flush sends it.
StoredUntilFlushed ==
  \A r \in Requests :
    stage[r] = "stored" /\ flushes[r] = 0 =>
      r \in depCache[at[r]] /\ r \in msgCache[at[r]]

\* A held request is sent in the end, whether or not the requests it waits for
\* are ever confirmed at its origin.
HeldReleased == \A r \in Requests : stage[r] = "held" ~> stage[r] # "held"

(***************************************************************************)
(* The parts of the inductive invariant that the proofs rest on.           *)
(***************************************************************************)

\* What the timer's thread holds in its hands in each part of the check.
CheckInv == \A n \in Nodes :
  /\ check[n] # "testing" => scan[n] = {}
  /\ check[n] \in {"idle", "clocked"} => (sending[n] = {} /\ removing[n] = {})
  /\ sending[n] \subseteq removing[n] /\ removing[n] \subseteq held[n]

\* What is held has not been sent, unless it is among those to remove.
HeldInv ==
  /\ \A r \in Requests : stage[r] \in {"new", "held"} => sends[r] = 0
  /\ \A n \in Nodes : \A r \in held[n] :
       /\ Origin[r] = n /\ stage[r] # "new"
       /\ \/ stage[r] = "held"
          \/ check[n] = "sending" /\ r \in removing[n] \ sending[n]

\* When no send fails, those to remove that are not still to be sent were sent.
TriedInv == \A n \in Nodes : \A r \in removing[n] \ sending[n] : stage[r] # "held"

\* What a dispatcher has noted is with it, and with nobody else.
NotedInv == \A n \in Nodes :
  /\ \A r \in depCache[n] \union msgCache[n] :
       at[r] = n /\ stage[r] \in {"noted", "announced", "stored"}
  /\ flush[n] # "grouping" => ungrouped[n] = {}
  /\ flush[n] \notin {"grouping", "grouped", "collecting"} => groups[n] = <<>>
  /\ ungrouped[n] \subseteq depCache[n]
  /\ \A i \in DOMAIN groups[n] : groups[n][i] \subseteq depCache[n]
  /\ \A i \in DOMAIN batches[n] : batches[n][i] \subseteq depCache[n]

\* What has been sent to a packager is about to be wiped, or is gone.
FlushInv ==
  /\ \A r \in Requests :
       stage[r] \notin {"noted", "announced", "stored"} => flushes[r] = 0
  /\ \A n \in Nodes : flush[n] # "sent" =>
       \A r \in depCache[n] : flushes[r] = 0

\* Each key that was visited has a group with all its neighbours.
GroupInv == \A n \in Nodes : flush[n] = "grouping" =>
  \A r \in depCache[n] \ ungrouped[n] : \E i \in DOMAIN groups[n] :
    {r} \union Neighbours(n, r) \subseteq groups[n][i]

IInv ==
  /\ TypeOK /\ CheckInv /\ HeldInv /\ SentOnce
  /\ NotedInv /\ FlushInv /\ FlushedOnce /\ GroupInv

=============================================================================
