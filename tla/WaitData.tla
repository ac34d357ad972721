------------------------------ MODULE WaitData ------------------------------
(***************************************************************************)
(* GlobalDataManager (common/global_data.cpp): the rendezvous between a    *)
(* thread that asks several peers something and the network threads that   *)
(* deliver the peers' answers.  Every request/response exchange of the     *)
(* node (block sync, pre-hash seek, missing-block seek) goes through it.   *)
(*                                                                         *)
(* A call creates a GlobalData object under an id, registers the peers it  *)
(* asks, sends the requests, and blocks on a condition variable until the  *)
(* object has RetNum answers or the timeout expires.  The id is the hash   *)
(* of the current microsecond, so two calls that start in the same         *)
(* microsecond get the same id: the map insert of the second one fails     *)
(* silently and both then work on the first one's object.                  *)
(***************************************************************************)
EXTENDS Naturals, Sequences, FiniteSets

CONSTANTS
  Calls,      \* the request/response exchanges of one process
  Nodes,      \* the peers
  Targets,    \* Targets[c]: the peers call c asks (node_ids_to_send)
  RetNum,     \* RetNum[c]: the answers call c asks CreateWait for
  MaxClock,   \* bound on the clock that CreateWait reads
  None        \* no object

ASSUME WaitDataAssumption ==
  /\ Targets \in [Calls -> SUBSET Nodes]
  /\ RetNum \in [Calls -> Nat]
  /\ MaxClock \in Nat
  /\ None \notin Calls

VARIABLES
  clock,      \* GetUTCTimestamp()
  globalData, \* _globalData: id -> object (named after the call that made it)
  msgId,      \* the id each call got
  pc,         \* where each call is
  asked,      \* the peers each call has registered and sent its request to
  resIds,     \* GlobalData::res_ids of each object
  data,       \* GlobalData::data of each object, each answer by its sender
  held,       \* the object WaitData of each call holds a shared_ptr to
  signalled,  \* calls blocked on the condition that notify_all has woken
  adding,     \* waitDataToAdd between its two critical sections
  acks,       \* answers on the network: lost by never being delivered,
              \* duplicated by being delivered more than once
  retData     \* what WaitData handed back to each call

vars == <<clock, globalData, msgId, pc, asked, resIds, data, held,
          signalled, adding, acks, retData>>

Ids == 0..MaxClock

PCs == {"idle", "asking", "entered", "blocked", "copied", "done"}

Init ==
  /\ clock = 0
  /\ globalData = [m \in Ids |-> None]
  /\ msgId = [c \in Calls |-> 0]
  /\ pc = [c \in Calls |-> "idle"]
  /\ asked = [c \in Calls |-> {}]
  /\ resIds = [c \in Calls |-> {}]
  /\ data = [c \in Calls |-> <<>>]
  /\ held = [c \in Calls |-> None]
  /\ signalled = {}
  /\ adding = {}
  /\ acks = {}
  /\ retData = [c \in Calls |-> <<>>]

(***************************************************************************)
(* The calling thread.                                                     *)
(***************************************************************************)

\* CreateWait: std::map::insert keeps the object already there.  Any number of
\* calls may read the same microsecond.
CreateWait(c) ==
  /\ pc[c] = "idle"
  /\ msgId' = [msgId EXCEPT ![c] = clock]
  /\ globalData' = IF globalData[clock] = None
                     THEN [globalData EXCEPT ![clock] = c]
                     ELSE globalData
  /\ pc' = [pc EXCEPT ![c] = "asking"]
  /\ UNCHANGED <<clock, asked, resIds, data, held, signalled, adding, acks,
                 retData>>

\* AddResNode followed by the send of the request to that peer.
AskNode(c, n) ==
  LET o == globalData[msgId[c]] IN
  /\ pc[c] = "asking"
  /\ n \in Targets[c] \ asked[c]
  /\ o # None
  /\ resIds' = [resIds EXCEPT ![o] = @ \union {n}]
  /\ asked' = [asked EXCEPT ![c] = @ \union {n}]
  /\ UNCHANGED <<clock, globalData, msgId, pc, data, held, signalled,
                 adding, acks, retData>>

\* AddResNode does not find the id: the caller gives up (return -6).
AskFails(c) ==
  /\ pc[c] = "asking"
  /\ Targets[c] \ asked[c] # {}
  /\ globalData[msgId[c]] = None
  /\ pc' = [pc EXCEPT ![c] = "done"]
  /\ UNCHANGED <<clock, globalData, msgId, asked, resIds, data, held,
                 signalled, adding, acks, retData>>

\* Variant: WaitData goes on when the lookup finds nothing.
WaitLookupUnchecked(c) ==
  /\ pc[c] = "asking"
  /\ Targets[c] = asked[c]
  /\ held' = [held EXCEPT ![c] = globalData[msgId[c]]]
  /\ pc' = [pc EXCEPT ![c] = "entered"]
  /\ UNCHANGED <<clock, globalData, msgId, asked, resIds, data,
                 signalled, adding, acks, retData>>

\* WaitData, first critical section: look the object up.
WaitLookup(c) ==
  LET o == globalData[msgId[c]] IN
  /\ pc[c] = "asking"
  /\ Targets[c] = asked[c]
  /\ held' = [held EXCEPT ![c] = o]
  /\ pc' = [pc EXCEPT ![c] = IF o = None THEN "done" ELSE "entered"]
  /\ UNCHANGED <<clock, globalData, msgId, asked, resIds, data,
                 signalled, adding, acks, retData>>

\* The object still lacks answers: wait_for releases the object's mutex.
WaitBlock(c) ==
  /\ pc[c] = "entered"
  /\ Len(data[held[c]]) < RetNum[held[c]]
  /\ pc' = [pc EXCEPT ![c] = "blocked"]
  /\ UNCHANGED <<clock, globalData, msgId, asked, resIds, data, held,
                 signalled, adding, acks, retData>>

\* Enough answers already: copy them without waiting.
WaitReady(c) ==
  /\ pc[c] = "entered"
  /\ Len(data[held[c]]) >= RetNum[held[c]]
  /\ retData' = [retData EXCEPT ![c] = data[held[c]]]
  /\ pc' = [pc EXCEPT ![c] = "copied"]
  /\ UNCHANGED <<clock, globalData, msgId, asked, resIds, data, held,
                 signalled, adding, acks>>

\* wait_for returns: notified, timed out, or woken for no reason (there is
\* no predicate).  The answers are copied before the mutex is released.
WaitWake(c) ==
  /\ pc[c] = "blocked"
  /\ retData' = [retData EXCEPT ![c] = data[held[c]]]
  /\ pc' = [pc EXCEPT ![c] = "copied"]
  /\ signalled' = signalled \ {c}
  /\ UNCHANGED <<clock, globalData, msgId, asked, resIds, data, held,
                 adding, acks>>

\* Variant: WaitData returns without erasing its entry.
WaitLeave(c) ==
  /\ pc[c] = "copied"
  /\ pc' = [pc EXCEPT ![c] = "done"]
  /\ UNCHANGED <<clock, globalData, msgId, asked, resIds, data, held,
                 signalled, adding, acks, retData>>

\* WaitData, last critical section: erase whatever the id maps to.
WaitErase(c) ==
  /\ pc[c] = "copied"
  /\ globalData' = [globalData EXCEPT ![msgId[c]] = None]
  /\ pc' = [pc EXCEPT ![c] = "done"]
  /\ UNCHANGED <<clock, msgId, asked, resIds, data, held, signalled,
                 adding, acks, retData>>

(***************************************************************************)
(* The peers and the network threads.                                      *)
(***************************************************************************)

\* A peer that was sent the request answers it.
Answer(c, n) ==
  /\ n \in asked[c]
  /\ [id |-> msgId[c], node |-> n] \notin acks
  /\ acks' = acks \union {[id |-> msgId[c], node |-> n]}
  /\ UNCHANGED <<clock, globalData, msgId, pc, asked, resIds, data,
                 held, signalled, adding, retData>>

\* waitDataToAdd, first critical section: look the object up.
AddLookup(a) ==
  LET o == globalData[a.id] IN
  /\ a \in acks
  /\ o # None
  /\ adding' = adding \union {[obj |-> o, node |-> a.node]}
  /\ UNCHANGED <<clock, globalData, msgId, pc, asked, resIds, data,
                 held, signalled, acks, retData>>

\* Variants: the answer is stored and nobody is notified; or the peer stays
\* registered, so that its next answer counts as well.
AddDataSilent(a) ==
  /\ a \in adding
  /\ a.node \in resIds[a.obj]
  /\ adding' = adding \ {a}
  /\ resIds' = [resIds EXCEPT ![a.obj] = @ \ {a.node}]
  /\ data' = [data EXCEPT ![a.obj] = Append(@, a.node)]
  /\ UNCHANGED <<clock, globalData, msgId, pc, asked, held, signalled,
                 acks, retData>>

AddDataAgain(a) ==
  /\ a \in adding
  /\ a.node \in resIds[a.obj]
  /\ Len(data[a.obj]) < 2 * Cardinality(Nodes)
  /\ adding' = adding \ {a}
  /\ data' = [data EXCEPT ![a.obj] = Append(@, a.node)]
  /\ UNCHANGED <<clock, globalData, msgId, pc, asked, resIds, held,
                 signalled, acks, retData>>

\* waitDataToAdd, second critical section: each registered peer counts once.
AddData(a) ==
  LET enough == Len(data[a.obj]) + 1 >= RetNum[a.obj] IN
  /\ a \in adding
  /\ a.node \in resIds[a.obj]
  /\ adding' = adding \ {a}
  /\ resIds' = [resIds EXCEPT ![a.obj] = @ \ {a.node}]
  /\ data' = [data EXCEPT ![a.obj] = Append(@, a.node)]
  /\ signalled' = IF enough
                    THEN signalled \union
                           {c \in Calls : pc[c] = "blocked" /\ held[c] = a.obj}
                    ELSE signalled
  /\ UNCHANGED <<clock, globalData, msgId, pc, asked, held, acks,
                 retData>>

\* waitDataToAdd, second critical section: the peer is not (any more) expected.
AddRefused(a) ==
  /\ a \in adding
  /\ a.node \notin resIds[a.obj]
  /\ adding' = adding \ {a}
  /\ UNCHANGED <<clock, globalData, msgId, pc, asked, resIds, data,
                 held, signalled, acks, retData>>

Tick ==
  /\ clock < MaxClock
  /\ clock' = clock + 1
  /\ UNCHANGED <<globalData, msgId, pc, asked, resIds, data, held, signalled,
                 adding, acks, retData>>

CallStep(c) ==
  \/ CreateWait(c)
  \/ \E n \in Nodes : AskNode(c, n)
  \/ AskFails(c)
  \/ WaitLookup(c)
  \/ WaitBlock(c)
  \/ WaitReady(c)
  \/ WaitWake(c)
  \/ WaitErase(c)

NetStep ==
  \/ \E c \in Calls, n \in Nodes : Answer(c, n)
  \/ \E a \in acks : AddLookup(a)
  \/ \E a \in adding : AddData(a)
  \/ \E a \in adding : AddRefused(a)

Next ==
  \/ \E c \in Calls : CallStep(c)
  \/ NetStep
  \/ Tick

(***************************************************************************)
(* A thread that is not blocked runs, and wait_for returns after its       *)
(* timeout at the latest; nothing is promised about the network.           *)
(***************************************************************************)
Fairness ==
  /\ \A c \in Calls : WF_vars(CallStep(c) /\ pc[c] # "idle")

Spec == Init /\ [][Next]_vars /\ Fairness

(***************************************************************************)
(* Properties.                                                             *)
(***************************************************************************)

\* The type invariant; WaitData dereferences its object only while it has one.
TypeOK ==
  /\ clock \in Ids
  /\ globalData \in [Ids -> Calls \union {None}]
  /\ msgId \in [Calls -> Ids]
  /\ pc \in [Calls -> PCs]
  /\ asked \in [Calls -> SUBSET Nodes]
  /\ resIds \in [Calls -> SUBSET Nodes]
  /\ data \in [Calls -> Seq(Nodes)]
  /\ held \in [Calls -> Calls \union {None}]
  /\ \A c \in Calls : pc[c] \in {"entered", "blocked"} => held[c] \in Calls
  /\ signalled \subseteq Calls
  /\ adding \subseteq [obj : Calls, node : Nodes]
  /\ acks \subseteq [id : Ids, node : Nodes]
  /\ retData \in [Calls -> Seq(Nodes)]

\* A call whose object already has the answers it waits for has been
\* notified: the size check and the block are one critical section, so a
\* quorum that completes just before wait_for is not slept through.
NoLostWakeup ==
  \A c \in Calls :
    pc[c] = "blocked" /\ Len(data[held[c]]) >= RetNum[held[c]]
      => c \in signalled

\* No other call got the id of c.
Started(c) == pc[c] # "idle"
Alone(c) == \A d \in Calls : Started(d) /\ msgId[d] = msgId[c] => d = c

\* The answers handed to a caller come from distinct peers that this very
\* call asked, whatever the network duplicates or delays: the callers divide
\* by the number of answers to find what "70%" or "two thirds" of the peers
\* agree on.  It takes an id that no other call has.
DistinctAnswers ==
  \A c \in Calls : Alone(c) =>
    /\ \A i \in DOMAIN retData[c] : retData[c][i] \in asked[c]
    /\ \A i, j \in DOMAIN retData[c] :
         retData[c][i] = retData[c][j] => i = j

\* The inductive strengthening of DistinctAnswers.  A call that has not begun
\* has left no trace; an id leads to an object with that id; and the object of
\* a call that shares its id with nobody expects and has counted only peers
\* that this call asked.
Untouched == \A c \in Calls : ~Started(c) =>
  asked[c] = {} /\ resIds[c] = {} /\ data[c] = <<>> /\ retData[c] = <<>>

SameId ==
  /\ \A m \in Ids : globalData[m] # None =>
       Started(globalData[m]) /\ msgId[globalData[m]] = m
  /\ \A c \in Calls : pc[c] \in {"entered", "blocked"} =>
       Started(held[c]) /\ msgId[held[c]] = msgId[c]

CountedOnce ==
  \A o \in Calls : Started(o) /\ Alone(o) =>
    /\ resIds[o] \subseteq asked[o]
    /\ \A i \in DOMAIN data[o] : data[o][i] \in asked[o] \ resIds[o]
    /\ \A i, j \in DOMAIN data[o] : data[o][i] = data[o][j] => i = j

DistinctInv ==
  Untouched /\ SameId /\ CountedOnce /\ DistinctAnswers

\* When two calls share an id the object cannot tell their requests apart, but
\* a peer still counts at most once per call that asked it under that id.
AnswersBounded ==
  \A o \in Calls, n \in Nodes :
    Cardinality({i \in DOMAIN data[o] : data[o][i] = n})
      + (IF n \in resIds[o] THEN 1 ELSE 0)
    <= Cardinality({c \in Calls : n \in asked[c] /\ msgId[c] = msgId[o]})

\* Every entry of _globalData goes away: WaitData erases it, and a call that
\* gives up after CreateWait only does so because it is already gone.
EntriesErased == \A m \in Ids : globalData[m] # None ~> globalData[m] = None

=============================================================================
