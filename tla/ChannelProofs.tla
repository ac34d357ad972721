--------------------------- MODULE ChannelProofs ---------------------------
(***************************************************************************)
(* That the first connection of a descriptor is a channel in both          *)
(* directions, and that no pack comes out twice on any connection, for any *)
(* number of threads, connections, packs and cells.                        *)
(***************************************************************************)
EXTENDS TransportProofs

(***************************************************************************)
(* Packs and their cells.                                                  *)
(***************************************************************************)

\* The cells before those of pack n + 1.
Before(n) == n * PackCells

LEMMA BeforeNext ==
  ASSUME NEW n \in Nat
  PROVE  /\ Before(n) \in Nat /\ Before(0) = 0
         /\ Before(n + 1) = Before(n) + PackCells
BY SizesAssumption DEF Before

\* The head of a pack is its first cell, the end its last one.
LEMMA PlaceInPack ==
  ASSUME NEW n \in Nat, NEW i \in 1 .. PackCells
  PROVE  /\ (Before(n) + i) % PackCells = 1 <=> i = 1
         /\ (Before(n) + i) % PackCells = 0 <=> i = PackCells
<1>1. CASE i = PackCells
  <2>1. (Before(n) + i) % PackCells = 0
    BY <1>1, SizesAssumption DEF Before
  <2> QED  BY <1>1, <2>1, SizesAssumption
<1>2. CASE i # PackCells
  <2>1. (Before(n) + i) % PackCells = i
    BY <1>2, SizesAssumption DEF Before
  <2> QED  BY <1>2, <2>1, SizesAssumption
<1> QED  BY <1>1, <1>2

LEMMA PackOfCell ==
  ASSUME NEW n \in Nat, NEW x, x.pos \in {Before(n) + 1, Before(n) + PackCells}
  PROVE  Pack(x) = n + 1
<1>1. (x.pos - 1) \div PackCells = n
  BY SizesAssumption DEF Before
<1> QED  BY <1>1 DEF Pack

LEMMA PacksUpTo ==
  ASSUME NEW m \in Nat
  PROVE  /\ m \div PackCells \in Nat
         /\ (m + PackCells) \div PackCells = m \div PackCells + 1
         /\ (m + 1) \div PackCells \in {m \div PackCells, m \div PackCells + 1}
         /\ \A n \in Nat : Before(n) <= m => n <= m \div PackCells
BY SizesAssumption DEF Before

\* A pack has one head.
LEMMA HeadOfPack ==
  ASSUME NEW m \in Nat, m % PackCells = 1
  PROVE  m = Before((m - 1) \div PackCells) + 1
<1>1. m = PackCells * (m \div PackCells) + 1 /\ m \div PackCells \in Nat
  BY SizesAssumption
<1>2. (m - 1) \div PackCells = m \div PackCells
  BY <1>1, SizesAssumption
<1> QED  BY <1>1, <1>2, SizesAssumption DEF Before

LEMMA OneHead ==
  ASSUME NEW m \in Nat, NEW n \in Nat, NEW c, NEW d,
         IsHead(Cell(c, m)), IsHead(Cell(d, n)), Pack(Cell(c, m)) = Pack(Cell(d, n))
  PROVE  m = n
<1>1. m % PackCells = 1 /\ n % PackCells = 1
  BY DEF IsHead, Cell
<1>2. (m - 1) \div PackCells = (n - 1) \div PackCells
  <2>1. (m - 1) \div PackCells \in Int /\ (n - 1) \div PackCells \in Int
    BY SizesAssumption
  <2> QED  BY <2>1 DEF Pack, Cell
<1> QED  BY <1>1, <1>2, HeadOfPack

(***************************************************************************)
(* What the first connection sends.                                        *)
(***************************************************************************)

\* Nobody else's bytes are written to it: there has been nobody else.
OwnOnly == \A i \in DOMAIN put[First] : put[First][i] = Cell(First, i)

\* Its holder, or the next one, goes on where the socket's bytes end.
FirstWritten ==
  conn = First =>
    /\ \A w \in Writers : HoldsFdMutex(w) => Front(w) = Len(put[First])
    /\ First \in buffers /\ (\A w \in Writers : ~HoldsFdMutex(w)) =>
         popped[First] = Len(put[First])

FirstCounted ==
  taken[First] <= Len(put[First]) /\ Len(put[First]) <= pushed[First]

\* The peer has the end of the packs it has received, and of no other.
FirstReceived ==
  LET n == Len(received[First]) IN
  /\ \A i \in 1 .. n : received[First][i] = i
  /\ Before(n) <= taken[First] /\ taken[First] < Before(n) + PackCells

FirstOut == OwnOnly /\ FirstWritten /\ FirstCounted /\ FirstReceived

LEMMA FirstType == First \in Conns /\ First \in Keys /\ First # NoConn
BY SizesAssumption, KeyType DEF First, Conns

LEMMA FirstFacts ==
  ASSUME TypeOK
  PROVE  /\ put[First] \in Seq(Cells) /\ received[First] \in Seq(Int)
         /\ pushed[First] \in Nat /\ popped[First] \in Nat /\ taken[First] \in Nat
         /\ opened \in Nat /\ (conn = First => opened = 1)
<1>1. First \in Conns
  BY FirstType
<1>2. /\ put[First] \in Seq(Cells) /\ received[First] \in Seq(Int)
      /\ pushed[First] \in Nat /\ popped[First] \in Nat /\ taken[First] \in Nat
  BY <1>1 DEF TypeOK, OutTypes
<1>3. opened \in Nat
  BY SizesAssumption DEF TypeOK, ConnTypes, Conns
<1>4. conn = First => opened = 1
  BY DEF TypeOK, ConnTypes, First, NoConn
<1> QED  BY <1>2, <1>3, <1>4

\* While the first connection is open there is no other key.
LEMMA OnlyKey ==
  ASSUME TypeOK, WriteInv, conn = First, NEW w \in Writers, writer[w].at # "idle"
  PROVE  writer[w].key = First
<1>1. writer[w].key \in Conns /\ writer[w].key <= 1
  BY FirstFacts DEF TypeOK, OutTypes, WriteInv, KeysOpened
<1> QED  BY <1>1 DEF First, Conns

LEMMA InitFirstOut == Init => FirstOut
<1> SUFFICES ASSUME Init  PROVE FirstOut
  OBVIOUS
<1>1. \A w \in Writers : ~HoldsFdMutex(w)
  BY IdleWriterType DEF Init, HoldsFdMutex
<1>2. /\ put[First] = <<>> /\ taken[First] = 0 /\ received[First] = <<>>
      /\ pushed[First] = 0 /\ popped[First] = 0
  BY FirstType DEF Init
<1>3. Before(0) = 0 /\ PackCells > 0 /\ PackCells \in Nat
  BY BeforeNext, SizesAssumption
<1> QED
  BY <1>1, <1>2, <1>3 DEF FirstOut, OwnOnly, FirstWritten, FirstCounted, FirstReceived

\* The first connection is closed for good, and its buffer dropped for good.
LEMMA ClosingKeepsFirstOut ==
  ASSUME FirstOut, UNCHANGED <<pushed, popped, put, taken, received, writer>>,
         conn' = First => conn = First, First \in buffers' => First \in buffers
  PROVE  FirstOut'
BY DEF FirstOut, OwnOnly, FirstWritten, FirstCounted, FirstReceived, HoldsFdMutex, Front

LEMMA SendKeepsFirstOut ==
  ASSUME TypeOK, FirstOut, NEW s \in Senders, NEW c \in Conns, SendOneMessage(s, c)
  PROVE  FirstOut'
<1>1. UNCHANGED <<conn, opened, buffers, popped, put, taken, received, writer>>
  BY DEF SendOneMessage
<1>2. pushed'[First] \in {pushed[First], pushed[First] + PackCells}
  <2>1. pushed' = pushed \/ pushed' = [pushed EXCEPT ![c] = @ + PackCells]
    BY DEF SendOneMessage
  <2> QED  BY <2>1, FirstType DEF TypeOK, OutTypes
<1>3. FirstCounted'
  BY <1>1, <1>2, FirstFacts, SizesAssumption DEF FirstOut, FirstCounted
<1> QED
  BY <1>1, <1>3 DEF FirstOut, OwnOnly, FirstWritten, FirstReceived, HoldsFdMutex, Front

\* A thread that does not hold the mutex goes to a state in which it does not.
LEMMA NotHoldingKeepsFirstOut ==
  ASSUME FirstOut, NEW w \in Writers, ~HoldsFdMutex(w), ~HoldsFdMutex(w)',
         \A v \in Writers \ {w} : writer'[v] = writer[v],
         UNCHANGED <<conn, buffers, pushed, popped, put, taken, received>>
  PROVE  FirstOut'
<1>1. \A v \in Writers : HoldsFdMutex(v)' =>
        HoldsFdMutex(v) /\ writer'[v] = writer[v] /\ Front(v)' = Front(v)
  BY DEF HoldsFdMutex, Front
<1>2. \A v \in Writers : HoldsFdMutex(v) => HoldsFdMutex(v)' /\ writer'[v] = writer[v]
  BY DEF HoldsFdMutex
<1>3. FirstWritten'
  BY <1>1, <1>2 DEF FirstOut, FirstWritten
<1> QED  BY <1>3 DEF FirstOut, OwnOnly, FirstCounted, FirstReceived

LEMMA PopKeepsFirstOut ==
  ASSUME TypeOK, FirstOut, NEW w \in Writers, NEW c \in Conns, WritePop(w, c)
  PROVE  FirstOut'
<1> DEFINE x == Writing("waiting", c, 0, 0)
<1>1. /\ UNCHANGED <<conn, opened, buffers, pushed, popped, put, taken, received>>
      /\ ~HoldsFdMutex(w)
  BY DEF WritePop, HoldsFdMutex
<1>2. x \in WriterStates /\ x.at = "waiting"
  BY WritingType, KeyType
<1>3. /\ \A v \in Writers \ {w} : writer'[v] = writer[v]
      /\ writer'[w] \in {writer[w], x}
  BY DEF TypeOK, OutTypes, WritePop
<1> HIDE DEF x
<1>4. ~HoldsFdMutex(w)'
  BY <1>1, <1>2, <1>3 DEF HoldsFdMutex
<1> QED  BY <1>1, <1>3, <1>4, NotHoldingKeepsFirstOut

LEMMA CopyKeepsFirstOut ==
  ASSUME TypeOK, WriteInv, FirstOut, NEW w \in Writers, WriteCopy(w)
  PROVE  FirstOut'
<1> DEFINE c == writer[w].key
<1> USE WriterFacts, KeyType
<1>1. /\ UNCHANGED <<conn, opened, buffers, pushed, popped, put, taken, received>>
      /\ \A v \in Writers : ~HoldsFdMutex(v)
      /\ c \in Conns
  BY DEF TypeOK, OutTypes, WriteCopy, FdMutexFree
<1>2. CASE c \in buffers /\ popped[c] < pushed[c]
  <2> DEFINE x == Writing("writing", c, popped[c], pushed[c])
  <2>1. popped[c] \in Nat /\ pushed[c] \in Nat /\ c \in Keys
    BY <1>1 DEF TypeOK, OutTypes
  <2>2. /\ x \in WriterStates /\ x.at = "writing"
        /\ x.from = popped[c] /\ x.done = 0
    BY <2>1, WritingType
  <2> HIDE DEF x
  <2>3. writer'[w] = x /\ \A v \in Writers \ {w} : writer'[v] = writer[v]
    BY <1>2 DEF TypeOK, OutTypes, WriteCopy, x
  <2>4. \A v \in Writers : HoldsFdMutex(v)' => v = w
    BY <1>1, <2>3 DEF HoldsFdMutex
  <2>5. Front(w)' = popped[c] /\ HoldsFdMutex(w)'
    BY <2>1, <2>2, <2>3 DEF Front, HoldsFdMutex
  <2>6. conn = First => c = First
    BY OnlyKey DEF WriteCopy
  <2>7. FirstWritten'
    BY <1>1, <1>2, <2>4, <2>5, <2>6 DEF FirstOut, FirstWritten
  <2> QED  BY <1>1, <2>7 DEF FirstOut, OwnOnly, FirstCounted, FirstReceived
<1>3. CASE ~(c \in buffers /\ popped[c] < pushed[c])
  <2>1. writer'[w] = IdleWriter /\ \A v \in Writers \ {w} : writer'[v] = writer[v]
    BY <1>3 DEF TypeOK, OutTypes, WriteCopy
  <2>2. ~HoldsFdMutex(w)'
    BY <2>1, IdleWriterType DEF HoldsFdMutex
  <2> QED  BY <1>1, <2>1, <2>2, NotHoldingKeepsFirstOut
<1> QED  BY <1>2, <1>3

LEMMA CellKeepsFirstOut ==
  ASSUME TypeOK, WriteInv, FirstOut, NEW w \in Writers, WriteCell(w)
  PROVE  FirstOut'
<1> DEFINE k == writer[w].key
           new == Cell(k, Front(w) + 1)
<1> USE WriterFacts, KeyType
<1>1. /\ UNCHANGED <<conn, opened, buffers, pushed, popped, taken, received>>
      /\ conn \in Conns
      /\ writer[w].at = "writing" /\ Front(w) < writer[w].upto
      /\ put' = [put EXCEPT ![conn] = Append(@, new)]
  BY DEF TypeOK, ConnTypes, WriteCell, Unwritten, Writable, Front
<1>2. HoldsFdMutex(w) /\ k \in Conns /\ Front(w) \in Nat
  BY <1>1 DEF HoldsFdMutex, Front
<1>3. /\ writer'[w] = OneMore(writer[w])
      /\ \A v \in Writers \ {w} : writer'[v] = writer[v]
  BY DEF TypeOK, OutTypes, WriteCell
<1>4. /\ writer'[w].at = "writing" /\ writer'[w].from = writer[w].from
      /\ writer'[w].done = writer[w].done + 1
  BY <1>1, <1>3, OneMoreType
<1>5. Front(w)' = Front(w) + 1 /\ HoldsFdMutex(w)'
  BY <1>4 DEF Front, HoldsFdMutex
<1>6. \A v \in Writers : HoldsFdMutex(v)' => v = w
  BY <1>2, <1>3, HoldingFacts
<1> HIDE DEF new
<1>7. CASE conn # First
  <2>1. put'[First] = put[First]
    BY <1>1, <1>7, FirstType DEF TypeOK, OutTypes
  <2> QED
    BY <1>1, <1>7, <2>1
       DEF FirstOut, OwnOnly, FirstWritten, FirstCounted, FirstReceived
<1>8. CASE conn = First
  <2> DEFINE n == Len(put[First])
  <2>1. k = First /\ Front(w) = n
    BY <1>1, <1>2, <1>8, OnlyKey DEF FirstOut, FirstWritten
  <2>2. new = Cell(First, n + 1)
    BY <2>1 DEF new
  <2>3. put'[First] = Append(put[First], new) /\ put[First] \in Seq(Cells) /\ n \in Nat
    <3>1. put \in [Conns -> Seq(Cells)]
      BY DEF TypeOK, OutTypes
    <3>2. put'[First] = Append(put[First], new)
      BY <1>1, <1>8, <3>1
    <3>3. put[First] \in Seq(Cells)
      BY FirstFacts
    <3> QED  BY <3>2, <3>3
  <2>4. Len(put'[First]) = n + 1 /\ OwnOnly'
    BY <2>2, <2>3 DEF FirstOut, OwnOnly
  <2>5. FirstWritten'
    BY <1>5, <1>6, <2>1, <2>4 DEF FirstWritten
  <2>6. FirstCounted'
    <3>1. writer[w].upto <= pushed[First]
      BY <1>2, <2>1 DEF WriteInv, HolderSound
    <3> QED
      BY <1>1, <1>2, <2>1, <2>3, <2>4, <3>1, FirstFacts DEF FirstOut, FirstCounted
  <2> QED  BY <1>1, <2>4, <2>5, <2>6 DEF FirstOut, FirstReceived
<1> QED  BY <1>7, <1>8

LEMMA StopKeepsFirstOut ==
  ASSUME TypeOK, WriteInv, FirstOut, NEW w \in Writers, WriteFull(w) \/ WriteFails(w)
  PROVE  FirstOut'
<1> USE WriterFacts, KeyType
<1>1. PICK at \in {"popping", "failed"} : writer' = [writer EXCEPT ![w] = Now(@, at)]
  BY DEF WriteFull, WriteFails
<1>2. /\ UNCHANGED <<conn, opened, buffers, pushed, popped, put, taken, received>>
      /\ writer[w].at = "writing"
  BY DEF WriteFull, WriteFails, Unwritten
<1>3. /\ writer'[w] = Now(writer[w], at)
      /\ \A v \in Writers \ {w} : writer'[v] = writer[v]
  BY <1>1 DEF TypeOK, OutTypes
<1>4. /\ writer'[w].at = at /\ writer'[w].from = writer[w].from
      /\ writer'[w].done = writer[w].done
  BY <1>3, NowType
<1>5. /\ HoldsFdMutex(w) /\ HoldsFdMutex(w)' /\ Front(w)' = Front(w)
      /\ \A v \in Writers : HoldsFdMutex(v)' => v = w
  BY <1>2, <1>3, <1>4, HoldingFacts DEF HoldsFdMutex, Front
<1>6. FirstWritten'
  BY <1>2, <1>5 DEF FirstOut, FirstWritten
<1> QED  BY <1>2, <1>6 DEF FirstOut, OwnOnly, FirstCounted, FirstReceived

LEMMA PoppedKeepsFirstOut ==
  ASSUME TypeOK, WriteInv, FirstOut, NEW w \in Writers, WritePopped(w)
  PROVE  FirstOut'
<1> DEFINE k == writer[w].key
<1> USE WriterFacts, KeyType
<1>1. /\ UNCHANGED <<conn, opened, buffers, pushed, put, taken, received>>
      /\ HoldsFdMutex(w) /\ k \in Conns /\ writer[w].at # "idle"
  BY DEF WritePopped, HoldsFdMutex
<1>2. /\ writer'[w] = IdleWriter /\ writer'[w].at = "idle"
      /\ \A v \in Writers \ {w} : writer'[v] = writer[v]
  BY IdleWriterType DEF TypeOK, OutTypes, WritePopped
<1>3. \A v \in Writers : ~HoldsFdMutex(v)'
  BY <1>1, <1>2 DEF HoldsFdMutex, WriteInv, OneHolder
<1>4. ASSUME conn = First, First \in buffers  PROVE popped'[First] = Len(put[First])
  <2>1. k = First /\ Front(w) = Len(put[First])
    BY <1>1, <1>4, OnlyKey DEF FirstOut, FirstWritten
  <2>2. popped[First] = writer[w].from
    BY <1>1, <1>4, <2>1 DEF WriteInv, HolderSound
  <2>3. popped' = [popped EXCEPT ![First] =
                     Least(popped[First] + writer[w].done, pushed[First])]
    BY <1>4, <2>1 DEF WritePopped
  <2>4. popped'[First] = Least(Front(w), pushed[First])
    BY <2>2, <2>3, FirstType DEF TypeOK, OutTypes, Front
  <2>5. Front(w) \in Nat /\ pushed[First] \in Nat /\ Front(w) <= pushed[First]
    BY <2>1, FirstFacts DEF FirstOut, FirstCounted
  <2> QED  BY <2>1, <2>4, <2>5, LeastType
<1>5. FirstWritten'
  BY <1>1, <1>3, <1>4 DEF FirstWritten
<1> QED  BY <1>1, <1>5 DEF FirstOut, OwnOnly, FirstCounted, FirstReceived

LEMMA FailedKeepsFirstOut ==
  ASSUME FirstOut, NEW w \in Writers, WriteFailed(w)
  PROVE  FirstOut'
<1>1. UNCHANGED <<pushed, popped, put, taken, received>> /\ conn' # First
  BY FirstType DEF WriteFailed, DeleteByFd, Closed
<1> QED
  BY <1>1 DEF FirstOut, OwnOnly, FirstWritten, FirstCounted, FirstReceived

\* The peer's next cell is the end of the pack it has begun, or it is not.
LEMMA TakesKeepsFirstOut ==
  ASSUME TypeOK, FirstOut, NEW c \in Conns, PeerTakes(c)
  PROVE  /\ FirstOut'
         /\ \/ received'[First] = received[First]
            \/ received'[First] = Append(received[First], Len(received[First]) + 1)
<1> USE FirstType, FirstFacts
<1>1. UNCHANGED <<conn, opened, buffers, pushed, popped, put, writer>>
  BY DEF PeerTakes
<1>2. OwnOnly' /\ FirstWritten'
  BY <1>1 DEF FirstOut, OwnOnly, FirstWritten, HoldsFdMutex, Front
<1>3. CASE c # First
  <2>1. taken'[First] = taken[First] /\ received'[First] = received[First]
    BY <1>3 DEF TypeOK, OutTypes, PeerTakes
  <2> QED  BY <1>1, <1>2, <2>1 DEF FirstOut, FirstCounted, FirstReceived
<1>4. CASE c = First
  <2> DEFINE t == taken[First]
             n == Len(received[First])
             x == put[First][t + 1]
  <2>1. t < Len(put[First]) /\ taken'[First] = t + 1
    BY <1>4 DEF TypeOK, OutTypes, PeerTakes
  <2>2. x.conn = First /\ x.pos = t + 1
    <3>1. x = Cell(First, t + 1)
      BY <2>1 DEF FirstOut, OwnOnly
    <3> QED  BY <3>1, CellType
  <2>3. received'[First] = IF IsEnd(x) THEN Append(received[First], Pack(x))
                                       ELSE received[First]
    BY <1>4, <2>2 DEF TypeOK, OutTypes, PeerTakes
  <2>4. n \in Nat /\ Before(n) \in Nat /\ Before(n + 1) = Before(n) + PackCells
    BY BeforeNext
  <2>5. /\ Before(n) <= t /\ t < Before(n) + PackCells
        /\ \A i \in 1 .. n : received[First][i] = i
    BY DEF FirstOut, FirstReceived
  <2>6. FirstCounted'
    BY <1>1, <2>1 DEF FirstOut, FirstCounted
  <2> DEFINE i == t + 1 - Before(n)
  <2>7. i \in 1 .. PackCells /\ Before(n) + i = x.pos
    <3>1. t \in Nat /\ PackCells \in Nat
      BY SizesAssumption
    <3>2. Before(n) <= t /\ t < Before(n) + PackCells
      BY <2>5
    <3>3. Before(n) \in Nat /\ x.pos = t + 1
      BY <2>2, <2>4
    <3> HIDE FirstFacts, FirstType DEF n, t, x
    <3> QED  BY <3>1, <3>2, <3>3
  <2> HIDE DEF x
  <2>8. IsEnd(x) <=> i = PackCells
    <3>1. x.pos % PackCells = 0 <=> i = PackCells
      <4>1. (Before(n) + i) % PackCells = 0 <=> i = PackCells
        <5> HIDE FirstFacts, FirstType DEF n, t, i
        <5> QED  BY <2>4, <2>7, PlaceInPack
      <4> QED  BY <2>7, <4>1
    <3> QED  BY <3>1 DEF IsEnd
  <2>9. CASE IsEnd(x)
    <3>1. Pack(x) = n + 1
      BY <2>4, <2>7, <2>8, <2>9, PackOfCell
    <3>2. received'[First] = Append(received[First], n + 1)
      BY <2>3, <2>9, <3>1
    <3>3. /\ Len(received'[First]) = n + 1
          /\ \A j \in 1 .. n + 1 : received'[First][j] = j
      <4>1. PICK s \in Seq(Int) : s = received[First]
        BY FirstFacts
      <4>2. received'[First] = Append(s, n + 1) /\ Len(s) = n
        BY <3>2, <4>1
      <4>3. \A j \in 1 .. n : s[j] = j
        BY <2>5, <4>1
      <4> HIDE FirstFacts, FirstType DEF n
      <4> QED  BY <2>4, <4>2, <4>3
    <3>4. Before(n + 1) = t + 1
      BY <2>4, <2>5, <2>8, <2>9, SizesAssumption
    <3>5. FirstReceived'
      BY <2>1, <3>3, <3>4, SizesAssumption DEF FirstReceived
    <3> QED  BY <1>2, <1>4, <2>6, <3>2, <3>5 DEF FirstOut
  <2>10. CASE ~IsEnd(x)
    <3>1. received'[First] = received[First]
      BY <2>3, <2>10
    <3>2. i < PackCells
      BY <2>7, <2>8, <2>10, SizesAssumption
    <3>3. FirstReceived'
      <4>1. t + 1 < Before(n) + PackCells /\ Before(n) <= t + 1
        <5>1. t \in Nat /\ PackCells \in Nat
          BY SizesAssumption
        <5>2. Before(n) <= t /\ Before(n) \in Nat
          BY <2>4, <2>5
        <5> HIDE FirstFacts, FirstType DEF n, t
        <5> QED  BY <3>2, <5>1, <5>2
      <4> QED  BY <2>1, <2>5, <3>1, <4>1 DEF FirstReceived
    <3> QED  BY <1>2, <2>6, <3>1, <3>3 DEF FirstOut
  <2> QED  BY <2>9, <2>10
<1> QED  BY <1>3, <1>4

\* What is lost stays lost.
LEMMA LostForGood ==
  ASSUME TypeOK, [Next]_vars
  PROVE  /\ conn' = First => conn = First
         /\ First \in buffers' => First \in buffers
         /\ Lost => Lost'
<1>1. CASE Open
  <2>1. /\ conn' = opened + 1 /\ buffers' = buffers \union {opened + 1}
        /\ opened \in Nat \ {0}
    BY <1>1 DEF TypeOK, ConnTypes, Open, Conns
  <2> QED  BY <2>1 DEF Open, First, Lost
<1>2. CASE ~Open
  <2>1. conn' = conn \/ conn' = NoConn
    BY <1>2
       DEF Next, Working, WriterStep, EpollStep, ReaderStep, vars,
           DropBuffer, CloseFd, SendOneMessage, PeerSends, PushWrite, PeerTakes,
           WritePop, WriteCopy, WriteCell, WriteFull, WritePopped, WriteFails,
           WriteFailed, EpollWait, EpollIn, EpollOut, EpollWrite,
           ReadPop, Read, ReadNothing, ReadFails, ReadFailed, AddRead, AddNowhere,
           ParsePack, ParseEnd, ParseGarbage, Rearm, DeleteByFd, Closed
  <2>2. buffers' \subseteq buffers
    BY <1>2
       DEF Next, Working, WriterStep, EpollStep, ReaderStep, vars,
           DropBuffer, CloseFd, SendOneMessage, PeerSends, PushWrite, PeerTakes,
           WritePop, WriteCopy, WriteCell, WriteFull, WritePopped, WriteFails,
           WriteFailed, EpollWait, EpollIn, EpollOut, EpollWrite,
           ReadPop, Read, ReadNothing, ReadFails, ReadFailed, AddRead, AddNowhere,
           ParsePack, ParseEnd, ParseGarbage, Rearm, DeleteByFd
  <2> QED  BY <2>1, <2>2, FirstType DEF Lost
<1> QED  BY <1>1, <1>2

\* What neither gives the first connection a pack nor takes one of it can only
\* cut it.
LEMMA OutCut ==
  ASSUME TypeOK, [Next]_vars, pushed'[First] = pushed[First],
         received'[First] = received[First]
  PROVE  [Out!Next]_(Out!chan)
<1>1. CASE Lost' = Lost
  BY <1>1 DEF Out!chan
<1>2. CASE Lost' # Lost
  <2>1. Lost' = TRUE
    BY <1>2, LostForGood DEF Lost
  <2> QED  BY <2>1 DEF Out!Next, Out!Cut
<1> QED  BY <1>1, <1>2

\* The steps that are no write, no send and no read of the peer.
LEMMA OtherSteps ==
  ASSUME \/ DropBuffer \/ CloseFd \/ Open \/ PeerSends \/ EpollStep
         \/ \E s \in Senders : PushWrite(s)
         \/ \E r \in Readers : ReaderStep(r)
         \/ UNCHANGED vars
  PROVE  UNCHANGED <<pushed, popped, put, taken, received, writer>>
BY DEF DropBuffer, CloseFd, Closed, Open, PeerSends, EpollStep, EpollWait, EpollIn,
       EpollOut, EpollWrite, PushWrite, ReaderStep, ReadPop, Read, ReadNothing, ReadFails,
       ReadFailed, AddRead, AddNowhere, ParsePack, ParseEnd, ParseGarbage, Rearm, vars,
       outVars

\* The steps of the descriptor are, for what its first connection sends, steps
\* of a channel.
LEMMA NextFirstOut ==
  ASSUME TypeOK, WriteInv, FirstOut, [Next]_vars
  PROVE  FirstOut' /\ [Out!Next]_(Out!chan)
<1>1. ASSUME UNCHANGED <<pushed, popped, put, taken, received, writer>>
      PROVE  FirstOut' /\ [Out!Next]_(Out!chan)
  BY <1>1, LostForGood, ClosingKeepsFirstOut, OutCut
<1>2. ASSUME NEW w \in Writers, WriterStep(w)
      PROVE  FirstOut' /\ [Out!Next]_(Out!chan)
  <2>1. FirstOut'
    BY <1>2, PopKeepsFirstOut, CopyKeepsFirstOut, CellKeepsFirstOut, StopKeepsFirstOut,
       PoppedKeepsFirstOut, FailedKeepsFirstOut, Zenon DEF WriterStep
  <2>2. UNCHANGED <<pushed, received>>
    BY <1>2
       DEF WriterStep, WritePop, WriteCopy, WriteCell, WriteFull, WritePopped, WriteFails,
           WriteFailed
  <2> QED  BY <2>1, <2>2, OutCut
<1>3. ASSUME NEW s \in Senders, NEW c \in Conns, SendOneMessage(s, c)
      PROVE  FirstOut' /\ [Out!Next]_(Out!chan)
  <2>1. FirstOut' /\ UNCHANGED <<conn, buffers, received>>
    BY <1>3, SendKeepsFirstOut DEF SendOneMessage
  <2>2. CASE pushed'[First] = pushed[First]
    BY <2>1, <2>2, OutCut
  <2>3. CASE pushed'[First] # pushed[First]
    <3>1. pushed' = [pushed EXCEPT ![First] = @ + PackCells]
      BY <1>3, <2>3, FirstType DEF TypeOK, OutTypes, SendOneMessage
    <3>2. pushed'[First] = pushed[First] + PackCells
      BY <3>1, FirstType DEF TypeOK, OutTypes
    <3>3. pushed'[First] \div PackCells = pushed[First] \div PackCells + 1
      BY <3>2, FirstFacts, PacksUpTo
    <3> QED  BY <2>1, <3>3 DEF Out!Next, Out!Send, Lost
  <2> QED  BY <2>2, <2>3
<1>4. ASSUME NEW c \in Conns, PeerTakes(c)
      PROVE  FirstOut' /\ [Out!Next]_(Out!chan)
  <2> DEFINE n == Len(received[First])
  <2>1. FirstOut' /\ UNCHANGED <<conn, buffers, pushed>>
    BY <1>4, TakesKeepsFirstOut DEF PeerTakes
  <2>2. CASE received'[First] = received[First]
    BY <2>1, <2>2, OutCut
  <2>3. CASE received'[First] = Append(received[First], n + 1)
    <3>1. n \in Nat /\ Len(received'[First]) = n + 1
      BY <2>3, FirstFacts
    <3>2. received'[First] = [i \in 1 .. n + 1 |-> i]
      <4>1. \A i \in 1 .. n : received[First][i] = i
        BY DEF FirstOut, FirstReceived
      <4> QED  BY <2>3, <3>1, <4>1, FirstFacts
    <3>3. n + 1 <= pushed[First] \div PackCells
      <4>1. Before(n + 1) <= taken'[First]
        BY <2>1, <3>1 DEF FirstOut, FirstReceived
      <4>2. taken'[First] <= pushed'[First] /\ taken'[First] \in Nat
        <5>1. TypeOK'  BY NextTypeOK
        <5>2. /\ put'[First] \in Seq(Cells) /\ taken'[First] \in Nat
              /\ pushed'[First] \in Nat
          BY <5>1, FirstType DEF TypeOK, OutTypes
        <5> QED  BY <2>1, <5>2 DEF FirstOut, FirstCounted
      <4>3. Before(n + 1) <= pushed[First]
        <5>1. Before(n + 1) \in Nat
          BY <3>1, BeforeNext
        <5> QED  BY <2>1, <4>1, <4>2, <5>1, FirstFacts
      <4>4. n + 1 \in Nat /\ pushed[First] \in Nat
        BY <3>1, FirstFacts
      <4> QED  BY <4>3, <4>4, PacksUpTo, Zenon
    <3>4. n + 1 \in n + 1 .. pushed[First] \div PackCells
      BY <3>1, <3>3, PacksUpTo, FirstFacts
    <3> QED  BY <2>1, <3>2, <3>4 DEF Out!Next, Out!Deliver, Lost
  <2> QED  BY <1>4, <2>2, <2>3, TakesKeepsFirstOut
<1>5. ASSUME NEW r \in Readers, ReaderStep(r)
      PROVE  FirstOut' /\ [Out!Next]_(Out!chan)
  BY <1>1, <1>5, OtherSteps
<1>6. CASE \/ DropBuffer \/ CloseFd \/ Open \/ PeerSends \/ EpollStep
           \/ \E s \in Senders : PushWrite(s)
           \/ UNCHANGED vars
  BY <1>1, <1>6, OtherSteps
<1> QED  BY <1>2, <1>3, <1>4, <1>5, <1>6 DEF Next, Working

LEMMA InitOut == Init => Out!Init
<1> SUFFICES ASSUME Init  PROVE Out!Init
  OBVIOUS
<1>1. pushed[First] = 0 /\ received[First] = <<>> /\ conn = First /\ First \in buffers
  BY FirstType DEF Init, First
<1>2. 0 \div PackCells = 0
  BY SizesAssumption
<1> QED  BY <1>1, <1>2 DEF Out!Init, Lost

\* The first connection of a descriptor is a channel from the node to its peer:
\* packs are received whole, once each and in the order in which they were
\* sent, whatever the threads do and however the connection ends.
THEOREM SendingIsChannel == Spec => OutChannel
<1>1. Init => TypeOK /\ WriteInv /\ FirstOut
  BY InitTypeOK, InitWriteInv, InitFirstOut
<1>2. TypeOK /\ WriteInv /\ FirstOut /\ [Next]_vars =>
        TypeOK' /\ WriteInv' /\ FirstOut' /\ [Out!Next]_(Out!chan)
  BY NextTypeOK, NextWriteInv, NextFirstOut
<1> QED  BY <1>1, <1>2, InitOut, PTL DEF Spec, OutChannel, Out!Safe

(***************************************************************************)
(* Whose turn it is to read the first connection.  EpollWait takes a       *)
(* readable descriptor out of the set, and one event, one entry of         *)
(* queueReader or one thread then stands for it until Rearm.               *)
(***************************************************************************)

Reads(r) == reader[r].at # "idle" /\ reader[r].key = First
Waits == "in" \in events /\ eventKey = First

\* Nothing is read for a connection that has not been opened yet.
KeysSeen ==
  /\ "in" \in events => eventKey \in 1 .. opened
  /\ \A k \in Keys : readQ[k] > 0 => k \in 1 .. opened
  /\ \A r \in Readers : reader[r].at # "idle" => reader[r].key \in 1 .. opened
  /\ registered => conn # NoConn

OneTurn ==
  /\ readQ[First] <= 1
  /\ \A q, r \in Readers : Reads(q) /\ Reads(r) => q = r
  /\ \A r \in Readers : Reads(r) => readQ[First] = 0
  /\ Waits => readQ[First] = 0 /\ \A r \in Readers : ~Reads(r)
  /\ conn = First /\ registered =>
       ~Waits /\ readQ[First] = 0 /\ \A r \in Readers : ~Reads(r)

Turns == KeysSeen /\ OneTurn

LEMMA ReaderFacts ==
  ASSUME TypeOK, NEW r \in Readers
  PROVE  /\ reader[r] \in ReaderStates /\ reader[r].key \in Keys
         /\ reader[r].chunk \in Seq(Cells)
         /\ reader[r].at = "parsing" => reader[r].key \in Conns
BY DEF TypeOK, InTypes, ReaderStates

LEMMA ReadingFacts ==
  ASSUME NEW at, NEW c
  PROVE  /\ Reading(at, c).at = at /\ Reading(at, c).key = c
         /\ Reading(at, c).chunk = <<>>
BY DEF Reading

LEMMA NowReaderFacts ==
  ASSUME NEW x \in ReaderStates, NEW at
  PROVE  Now(x, at).at = at /\ Now(x, at).key = x.key /\ Now(x, at).chunk = x.chunk
BY DEF Now, ReaderStates

LEMMA InitTurns == Init => Turns
<1> SUFFICES ASSUME Init  PROVE Turns
  OBVIOUS
<1>1. \A r \in Readers : reader[r].at = "idle"
  BY ReadingFacts DEF Init, IdleReader
<1>2. \A k \in Keys : readQ[k] = 0
  BY DEF Init, Keys
<1>3. conn # NoConn /\ events = {}
  BY DEF Init, NoConn
<1>4. KeysSeen
  BY <1>1, <1>2, <1>3 DEF KeysSeen
<1>5. OneTurn
  BY <1>1, <1>2, <1>3, FirstType DEF OneTurn, Reads, Waits
<1> QED  BY <1>4, <1>5 DEF Turns

\* A thread goes on with what it has begun, or is done with it.
LEMMA GoingOnKeepsTurns ==
  ASSUME TypeOK, Turns, UNCHANGED <<opened, readQ>>,
         (conn' = conn /\ registered' = registered) \/ (conn' = NoConn /\ ~registered'),
         "in" \in events' => "in" \in events /\ eventKey' = eventKey,
         \A r \in Readers : reader'[r].at # "idle" =>
           reader[r].at # "idle" /\ reader'[r].key = reader[r].key
  PROVE  Turns'
<1>1. KeysSeen'
  BY DEF Turns, KeysSeen
<1>2. \A r \in Readers : Reads(r)' => Reads(r)
  BY DEF Reads
<1>3. Waits' => Waits
  BY DEF Waits
<1>4. conn' = First /\ registered' => conn = First /\ registered
  BY FirstType
<1>5. OneTurn'
  BY <1>2, <1>3, <1>4 DEF Turns, OneTurn
<1> QED  BY <1>1, <1>5 DEF Turns

LEMMA OpenKeepsTurns ==
  ASSUME TypeOK, Turns, Open
  PROVE  Turns'
<1>1. /\ UNCHANGED <<readQ, reader, events, eventKey>>
      /\ conn' = opened + 1 /\ opened' = opened + 1
      /\ opened \in Nat /\ opened >= 1
  BY DEF TypeOK, ConnTypes, Open, inVars, Conns
<1>2. conn' # First /\ conn' # NoConn /\ 1 .. opened \subseteq 1 .. opened'
  BY <1>1 DEF First, NoConn
<1>3. KeysSeen'
  BY <1>1, <1>2 DEF Turns, KeysSeen
<1>4. OneTurn'
  BY <1>1, <1>2 DEF Turns, OneTurn, Reads, Waits
<1> QED  BY <1>3, <1>4 DEF Turns

LEMMA WaitKeepsTurns ==
  ASSUME TypeOK, Turns, EpollWait
  PROVE  Turns'
<1>1. /\ UNCHANGED <<conn, opened, readQ, reader>>
      /\ events = {} /\ registered /\ eventKey' = conn
      /\ "in" \in events' <=> Readable
      /\ registered' = ~Readable
  BY DEF EpollWait, inVars
<1>2. conn \in 1 .. opened
  BY <1>1 DEF Turns, KeysSeen, TypeOK, ConnTypes, Conns
<1>3. KeysSeen'
  BY <1>1, <1>2 DEF Turns, KeysSeen
<1>4. OneTurn'
  <2>1. Waits' => conn = First /\ registered
    BY <1>1 DEF Waits
  <2>2. conn' = First /\ registered' => conn = First /\ registered /\ ~Waits'
    BY <1>1 DEF Waits
  <2> QED  BY <1>1, <2>1, <2>2 DEF Turns, OneTurn, Reads
<1> QED  BY <1>3, <1>4 DEF Turns

LEMMA InKeepsTurns ==
  ASSUME TypeOK, Turns, EpollIn
  PROVE  Turns'
<1>1. /\ UNCHANGED <<conn, opened, registered, reader, eventKey>>
      /\ "in" \in events /\ "in" \notin events'
      /\ \A k \in Keys : readQ'[k] = IF k = eventKey THEN readQ[k] + 1 ELSE readQ[k]
  BY DEF TypeOK, InTypes, EpollIn, With
<1>2. KeysSeen'
  BY <1>1 DEF Turns, KeysSeen
<1>3. readQ'[First] = IF Waits THEN readQ[First] + 1 ELSE readQ[First]
  BY <1>1, FirstType DEF Waits
<1>4. ~Waits' /\ \A r \in Readers : Reads(r)' <=> Reads(r)
  BY <1>1 DEF Waits, Reads
<1>5. OneTurn'
  BY <1>1, <1>3, <1>4, FirstType DEF Turns, OneTurn, TypeOK, InTypes
<1> QED  BY <1>2, <1>5 DEF Turns

LEMMA ReadPopKeepsTurns ==
  ASSUME TypeOK, Turns, NEW r \in Readers, NEW c \in Keys, ReadPop(r, c)
  PROVE  Turns'
<1>1. /\ UNCHANGED <<conn, opened, registered, events, eventKey>>
      /\ reader[r].at = "idle" /\ readQ[c] > 0
      /\ \A k \in Keys : readQ'[k] = IF k = c THEN readQ[k] - 1 ELSE readQ[k]
      /\ reader'[r].at = "reading" /\ reader'[r].key = c
      /\ \A q \in Readers \ {r} : reader'[q] = reader[q]
  BY ReadingFacts DEF TypeOK, InTypes, ReadPop, Without, epollVars
<1>2. \A k \in Keys : readQ[k] \in Nat
  BY DEF TypeOK, InTypes
<1>3. KeysSeen'
  BY <1>1, <1>2 DEF Turns, KeysSeen
<1>4. Waits' <=> Waits
  BY <1>1 DEF Waits
<1>5. CASE c = First
  <2>1. readQ[First] = 1 /\ readQ'[First] = 0
    BY <1>1, <1>2, <1>5, FirstType DEF Turns, OneTurn
  <2>2. \A q \in Readers : Reads(q)' => q = r
    BY <1>1, <2>1 DEF Turns, OneTurn, Reads
  <2>3. OneTurn'
    BY <1>1, <1>4, <2>1, <2>2 DEF Turns, OneTurn
  <2> QED  BY <1>3, <2>3 DEF Turns
<1>6. CASE c # First
  <2>1. readQ'[First] = readQ[First]
    BY <1>1, <1>6, FirstType
  <2>2. \A q \in Readers : Reads(q)' <=> Reads(q)
    BY <1>1, <1>6 DEF Reads
  <2>3. OneTurn'
    BY <1>1, <1>4, <2>1, <2>2 DEF Turns, OneTurn
  <2> QED  BY <1>3, <2>3 DEF Turns
<1> QED  BY <1>5, <1>6

\* While the first connection is open every reader is one of it, and the only one.
LEMMA OnlyReader ==
  ASSUME TypeOK, Turns, conn = First, NEW r \in Readers, reader[r].at # "idle"
  PROVE  Reads(r) /\ \A q \in Readers \ {r} : reader[q].at = "idle"
<1>1. opened = 1
  BY FirstFacts
<1>2. \A q \in Readers : reader[q].at # "idle" => Reads(q)
  BY <1>1 DEF Turns, KeysSeen, Reads, First
<1> QED  BY <1>2 DEF Turns, OneTurn

LEMMA RearmKeepsTurns ==
  ASSUME TypeOK, Turns, NEW r \in Readers, Rearm(r)
  PROVE  Turns'
<1>1. /\ UNCHANGED <<conn, opened, readQ, events, eventKey>>
      /\ reader[r].at = "rearm" /\ reader'[r].at = "idle"
      /\ \A q \in Readers \ {r} : reader'[q] = reader[q]
      /\ registered' => conn # NoConn \/ registered
  BY ReadingFacts DEF TypeOK, InTypes, Rearm, IdleReader
<1>2. KeysSeen'
  BY <1>1 DEF Turns, KeysSeen
<1>3. \A q \in Readers : Reads(q)' => Reads(q)
  BY <1>1 DEF Reads
<1>4. Waits' <=> Waits
  BY <1>1 DEF Waits
<1>5. conn = First => ~Waits /\ readQ[First] = 0 /\ \A q \in Readers : ~Reads(q)'
  <2> SUFFICES ASSUME conn = First
               PROVE  ~Waits /\ readQ[First] = 0 /\ \A q \in Readers : ~Reads(q)'
    OBVIOUS
  <2>1. Reads(r) /\ \A q \in Readers \ {r} : reader[q].at = "idle"
    BY <1>1, OnlyReader
  <2>2. \A q \in Readers : ~Reads(q)'
    BY <1>1, <2>1 DEF Reads
  <2> QED  BY <2>1, <2>2 DEF Turns, OneTurn
<1>6. OneTurn'
  BY <1>1, <1>3, <1>4, <1>5 DEF Turns, OneTurn
<1> QED  BY <1>2, <1>6 DEF Turns

\* What the steps of a reader that neither begin nor end its turn leave of it.
LEMMA ReaderGoesOn ==
  ASSUME TypeOK, NEW r \in Readers,
         \/ Read(r) \/ ReadNothing(r) \/ ReadFails(r) \/ ReadFailed(r)
         \/ AddRead(r) \/ AddNowhere(r)
         \/ ParsePack(r) \/ ParseEnd(r) \/ ParseGarbage(r)
  PROVE  /\ UNCHANGED <<opened, readQ, events, eventKey>>
         /\ (conn' = conn /\ registered' = registered) \/ (conn' = NoConn /\ ~registered')
         /\ \A q \in Readers : reader'[q].at # "idle" =>
              reader[q].at # "idle" /\ reader'[q].key = reader[q].key
<1> USE ReaderFacts, ReadingFacts, NowReaderFacts
<1>1. /\ UNCHANGED <<opened, readQ, events, eventKey>>
      /\ (conn' = conn /\ registered' = registered) \/ (conn' = NoConn /\ ~registered')
  BY DEF Read, ReadNothing, ReadFails, ReadFailed, AddRead, AddNowhere, ParsePack,
         ParseEnd, ParseGarbage, DeleteByFd, Closed, epollVars
<1>2. reader[r].at # "idle"
  BY DEF Read, ReadNothing, ReadFails, ReadFailed, AddRead, AddNowhere, ParsePack,
         ParseEnd, ParseGarbage
<1>3. reader \in [Readers -> ReaderStates]
  BY DEF TypeOK, InTypes
<1>4. \A q \in Readers \ {r} : reader'[q] = reader[q]
  BY <1>3
     DEF Read, ReadNothing, ReadFails, ReadFailed, AddRead, AddNowhere, ParsePack,
         ParseEnd, ParseGarbage
<1>5. reader'[r].at = "idle" \/ reader'[r].key = reader[r].key
  <2>1. CASE Read(r)
    BY <1>3, <2>1 DEF Read
  <2>2. CASE ReadNothing(r) \/ ReadFails(r) \/ AddRead(r)
    <3>1. PICK at : reader' = [reader EXCEPT ![r] = Now(@, at)]
      BY <2>2 DEF ReadNothing, ReadFails, AddRead
    <3>2. reader'[r] = Now(reader[r], at)
      BY <1>3, <3>1
    <3> QED  BY <3>2
  <2>3. CASE ReadFailed(r)
    BY <1>3, <2>3 DEF ReadFailed, IdleReader
  <2>4. CASE AddNowhere(r) \/ ParseEnd(r) \/ ParseGarbage(r)
    BY <1>3, <2>4 DEF AddNowhere, ParseEnd, ParseGarbage, AfterRead
  <2>5. CASE ParsePack(r)
    BY <2>5 DEF ParsePack
  <2> QED  BY <2>1, <2>2, <2>3, <2>4, <2>5
<1> QED  BY <1>1, <1>2, <1>4, <1>5

LEMMA NextTurns ==
  ASSUME TypeOK, Turns, [Next]_vars
  PROVE  Turns'
<1>1. CASE Open  BY <1>1, OpenKeepsTurns
<1>2. CASE EpollStep
  <2>1. CASE EpollOut \/ EpollWrite
    BY <2>1, GoingOnKeepsTurns DEF EpollOut, EpollWrite, inVars
  <2> QED  BY <1>2, <2>1, WaitKeepsTurns, InKeepsTurns DEF EpollStep
<1>3. ASSUME NEW r \in Readers, ReaderStep(r)  PROVE Turns'
  BY <1>3, ReadPopKeepsTurns, RearmKeepsTurns, ReaderGoesOn, GoingOnKeepsTurns
     DEF ReaderStep, Keys
<1>4. ASSUME NEW w \in Writers, WriterStep(w)  PROVE Turns'
  <2>1. /\ UNCHANGED <<opened, readQ, events, eventKey, reader>>
        /\ (conn' = conn /\ registered' = registered) \/ (conn' = NoConn /\ ~registered')
    BY <1>4
       DEF WriterStep, WritePop, WriteCopy, WriteCell, WriteFull, WritePopped, WriteFails,
           WriteFailed, DeleteByFd, Closed, epollVars, inVars
  <2> QED  BY <2>1, GoingOnKeepsTurns
<1>5. CASE \/ DropBuffer \/ CloseFd \/ PeerSends
           \/ \E s \in Senders, c \in Conns : SendOneMessage(s, c)
           \/ \E s \in Senders : PushWrite(s)
           \/ \E c \in Conns : PeerTakes(c)
           \/ UNCHANGED vars
  <2>1. /\ UNCHANGED <<opened, readQ, events, eventKey, reader>>
        /\ (conn' = conn /\ registered' = registered) \/ (conn' = NoConn /\ ~registered')
    BY <1>5
       DEF DropBuffer, CloseFd, Closed, PeerSends, SendOneMessage, PushWrite, PeerTakes,
           epollVars, inVars, vars
  <2> QED  BY <2>1, GoingOnKeepsTurns
<1> QED  BY <1>1, <1>2, <1>3, <1>4, <1>5 DEF Next, Working

(***************************************************************************)
(* What CorrectCache leaves.                                               *)
(***************************************************************************)

\* y is x without its first k cells.
IsRest(y, x, k) ==
  k \in 0 .. Len(x) /\ Len(y) = Len(x) - k /\ \A i \in 1 .. Len(y) : y[i] = x[i + k]

LEMMA SubSeqIsRest ==
  ASSUME NEW x \in Seq(Cells), NEW k \in 0 .. Len(x)
  PROVE  IsRest(SubSeq(x, k + 1, Len(x)), x, k)
BY DEF IsRest

\* Cells none of which is an end go together.
LEMMA CorrectedIsRest ==
  ASSUME NEW x \in Seq(Cells), NEW y \in Corrected(x)
  PROVE  \E k \in 0 .. Len(x) :
           /\ IsRest(y, x, k)
           /\ \A m \in 0 .. Len(x) : (\A i \in 1 .. m : ~IsEnd(x[i])) => m <= k
<1>1. CASE \E i \in DOMAIN x : IsEnd(x[i])
  <2>1. PICK k \in DOMAIN x : IsEnd(x[k]) /\ y = SubSeq(x, k + 1, Len(x))
    BY <1>1, Zenon DEF Corrected
  <2>2. IsRest(y, x, k) /\ k \in 0 .. Len(x)
    BY <2>1, SubSeqIsRest
  <2>3. ASSUME NEW m \in 0 .. Len(x), \A i \in 1 .. m : ~IsEnd(x[i])  PROVE m <= k
    BY <2>1, <2>3
  <2> QED  BY <2>2, <2>3
<1>2. CASE ~\E i \in DOMAIN x : IsEnd(x[i])
  <2>1. y = <<>>  BY <1>2, Zenon DEF Corrected
  <2>2. IsRest(y, x, Len(x)) /\ Len(x) \in 0 .. Len(x)
    BY <2>1 DEF IsRest
  <2> QED  BY <2>2
<1> QED  BY <1>1, <1>2

\* A cache that begins with a length loses that cell, and with it those up to
\* the first end.
LEMMA GarbageLeaves ==
  ASSUME TypeOK, NEW r \in Readers, ParseGarbage(r)
  PROVE  LET c == reader[r].key IN
         \E y \in Seq(Cells), k \in 0 .. Len(cache[c]) :
           /\ cache' = [cache EXCEPT ![c] = y]
           /\ IsRest(y, cache[c], k)
           /\ StartsAtHead(cache[c]) =>
                /\ HasPack(cache[c]) /\ ~Sound(cache[c])
                /\ \A m \in 1 .. Len(cache[c]) :
                     (\A i \in 2 .. m : ~IsEnd(cache[c][i])) => m <= k
<1> DEFINE c == reader[r].key
           x == cache[c]
           t == Tail(x)
           Ends(k) == \A m \in 1 .. Len(x) : (\A i \in 2 .. m : ~IsEnd(x[i])) => m <= k
<1>1. c \in Conns /\ x \in Seq(Cells) /\ x # <<>>
  BY ReaderFacts DEF TypeOK, InTypes, ParseGarbage
<1>2. /\ t \in Seq(Cells) /\ Len(t) = Len(x) - 1 /\ Len(x) \in Nat \ {0}
      /\ \A i \in 1 .. Len(t) : t[i] = x[i + 1]
  BY <1>1
<1>3. PICK y : /\ cache' = [cache EXCEPT ![c] = y]
               /\ \/ y \in Corrected(t) /\ (StartsAtHead(x) => HasPack(x) /\ ~Sound(x))
                  \/ y \in {x} \union Corrected(x) /\ ~StartsAtHead(x)
  BY DEF ParseGarbage
<1> HIDE DEF x, t, c
<1>4. CASE y \in Corrected(t) /\ (StartsAtHead(x) => HasPack(x) /\ ~Sound(x))
  <2>1. y \in Seq(Cells)
    BY <1>2, <1>4, CorrectedType
  <2>2. PICK k \in 0 .. Len(t) :
          /\ IsRest(y, t, k)
          /\ \A m \in 0 .. Len(t) : (\A i \in 1 .. m : ~IsEnd(t[i])) => m <= k
    BY <1>2, <1>4, CorrectedIsRest
  <2>3. k + 1 \in 0 .. Len(x) /\ IsRest(y, x, k + 1)
    BY <1>2, <2>2 DEF IsRest
  <2>4. ASSUME NEW m \in 1 .. Len(x), \A i \in 2 .. m : ~IsEnd(x[i])  PROVE m <= k + 1
    <3>1. m - 1 \in 0 .. Len(t) /\ \A i \in 1 .. m - 1 : ~IsEnd(t[i])
      BY <1>2, <2>4
    <3> QED  BY <2>2, <3>1
  <2> QED  BY <1>3, <1>4, <2>1, <2>3, <2>4 DEF x, c
<1>5. CASE y \in {x} \union Corrected(x) /\ ~StartsAtHead(x)
  <2>1. CASE y = x
    <3>1. IsRest(y, x, 0) /\ 0 \in 0 .. Len(x)
      BY <1>1, <2>1 DEF IsRest
    <3> QED  BY <1>1, <1>3, <1>5, <2>1, <3>1 DEF x, c
  <2>2. CASE y \in Corrected(x)
    <3>1. y \in Seq(Cells) /\ \E k \in 0 .. Len(x) : IsRest(y, x, k)
      BY <1>1, <2>2, CorrectedType, CorrectedIsRest
    <3> QED  BY <1>3, <1>5, <3>1 DEF x, c
  <2> QED  BY <1>5, <2>1, <2>2
<1> QED  BY <1>3, <1>4, <1>5

(***************************************************************************)
(* What the first connection receives.                                     *)
(***************************************************************************)

Adding(r) == reader[r].at = "adding" /\ reader[r].key = First

\* Cells of the packs delivered of it.
Done == Before(Len(delivered[First][First]))

FirstDelivered ==
  \A i \in DOMAIN delivered[First][First] : delivered[First][First][i] = i

\* Its cache goes on where the packs delivered end, up to the first byte of
\* another connection: its own are behind none of those.
CacheOwn ==
  \A i \in DOMAIN cache[First] : cache[First][i].conn = First =>
     /\ cache[First][i].pos = Done + i
     /\ Done + i <= consumed[First]
     /\ \A j \in 1 .. i - 1 : cache[First][j].conn = First

\* And so do the bytes that are about to be added to it.
ChunkOwn ==
  \A r \in Readers : Adding(r) /\ First \in buffers =>
    \A i \in DOMAIN reader[r].chunk : reader[r].chunk[i].conn = First =>
      /\ reader[r].chunk[i].pos = Done + Len(cache[First]) + i
      /\ Done + Len(cache[First]) + i <= consumed[First]
      /\ \A j \in 1 .. i - 1 : reader[r].chunk[j].conn = First
      /\ \A j \in DOMAIN cache[First] : cache[First][j].conn = First

\* While it is open nothing is missing between its cache and its socket.
FirstRead ==
  conn = First /\ First \in buffers =>
    /\ \A j \in DOMAIN cache[First] : cache[First][j].conn = First
    /\ (\A r \in Readers : ~Adding(r)) => consumed[First] = Done + Len(cache[First])
    /\ \A r \in Readers : Adding(r) =>
         /\ \A i \in DOMAIN reader[r].chunk : reader[r].chunk[i].conn = First
         /\ consumed[First] = Done + Len(cache[First]) + Len(reader[r].chunk)

FirstIn ==
  /\ FirstDelivered /\ CacheOwn /\ ChunkOwn /\ FirstRead
  /\ consumed[First] <= arrived[First]

LEMMA FirstInFacts ==
  ASSUME TypeOK
  PROVE  /\ cache[First] \in Seq(Cells) /\ delivered[First][First] \in Seq(Int)
         /\ consumed[First] \in Nat /\ arrived[First] \in Nat
         /\ Len(delivered[First][First]) \in Nat /\ Done \in Nat
<1>1. /\ cache[First] \in Seq(Cells) /\ delivered[First][First] \in Seq(Int)
      /\ consumed[First] \in Nat /\ arrived[First] \in Nat
  BY FirstType DEF TypeOK, InTypes
<1>2. Len(delivered[First][First]) \in Nat
  BY <1>1
<1>3. Done \in Nat
  BY <1>2, BeforeNext, Zenon DEF Done
<1> QED  BY <1>1, <1>2, <1>3

LEMMA InitFirstIn == Init => FirstIn
<1> SUFFICES ASSUME Init  PROVE FirstIn
  OBVIOUS
<1>1. \A r \in Readers : ~Adding(r)
  BY ReadingFacts DEF Init, IdleReader, Adding
<1>2. /\ cache[First] = <<>> /\ delivered[First][First] = <<>>
      /\ consumed[First] = 0 /\ arrived[First] = 0
  BY FirstType DEF Init
<1>3. Done = 0
  BY <1>2, BeforeNext DEF Done
<1> QED
  BY <1>1, <1>2, <1>3
     DEF FirstIn, FirstDelivered, CacheOwn, ChunkOwn, FirstRead

\* What neither reads, adds nor cuts out bytes of the first connection.
LEMMA OthersKeepFirstIn ==
  ASSUME TypeOK, FirstIn,
         cache'[First] = cache[First], consumed'[First] = consumed[First],
         delivered'[First][First] = delivered[First][First],
         arrived'[First] \in Nat, arrived[First] <= arrived'[First],
         conn' = First => conn = First, First \in buffers' => First \in buffers,
         \A r \in Readers : Adding(r)' => Adding(r) /\ reader'[r].chunk = reader[r].chunk,
         conn' = First /\ First \in buffers' => \A r \in Readers : Adding(r) => Adding(r)'
  PROVE  FirstIn'
<1>1. Done' = Done
  BY DEF Done
<1>2. FirstDelivered' /\ CacheOwn'
  BY <1>1 DEF FirstIn, FirstDelivered, CacheOwn
<1>3. ChunkOwn'
  BY <1>1 DEF FirstIn, ChunkOwn
<1>4. FirstRead'
  BY <1>1 DEF FirstIn, FirstRead
<1>5. consumed'[First] <= arrived'[First]
  BY FirstInFacts DEF FirstIn
<1> QED  BY <1>2, <1>3, <1>4, <1>5 DEF FirstIn

LEMMA ReadKeepsFirstIn ==
  ASSUME TypeOK, Turns, FirstIn, NEW r \in Readers, Read(r)
  PROVE  FirstIn'
<1> DEFINE n == Least(MaxLine, arrived[conn] - consumed[conn])
           y == [i \in 1 .. n |-> Cell(conn, consumed[conn] + i)]
<1>1. /\ UNCHANGED <<conn, buffers, arrived, cache, delivered>>
      /\ reader[r].at = "reading" /\ conn \in Conns
      /\ arrived[conn] \in Nat /\ consumed[conn] \in Nat /\ consumed[conn] < arrived[conn]
  BY DEF Read, Readable, TypeOK, ConnTypes, InTypes
<1>2. n \in Nat /\ consumed[conn] + n <= arrived[conn]
  <2>1. MaxLine \in Nat /\ arrived[conn] - consumed[conn] \in Nat
    BY <1>1, SizesAssumption
  <2>2. n \in Nat /\ n <= arrived[conn] - consumed[conn]
    BY <2>1, LeastType
  <2> QED  BY <1>1, <2>2
<1>3. /\ reader'[r].at = "adding" /\ reader'[r].key = reader[r].key
      /\ reader'[r].chunk = y
      /\ \A q \in Readers \ {r} : reader'[q] = reader[q]
  BY DEF TypeOK, InTypes, Read
<1>4. /\ consumed'[conn] = consumed[conn] + n
      /\ \A c \in Conns \ {conn} : consumed'[c] = consumed[c]
  BY <1>1 DEF TypeOK, InTypes, Read
<1>5. /\ Len(y) = n /\ DOMAIN y = 1 .. n
      /\ \A i \in 1 .. n : y[i].conn = conn /\ y[i].pos = consumed[conn] + i
  BY <1>1, <1>2, CellType
<1> HIDE DEF n, y
<1>6. Done' = Done
  BY <1>1 DEF Done
<1>7. FirstDelivered'
  BY <1>1 DEF FirstIn, FirstDelivered
<1>8. consumed'[First] \in Nat /\ consumed[First] <= consumed'[First]
      /\ consumed'[First] <= arrived'[First]
  BY <1>1, <1>2, <1>4, FirstType, FirstInFacts DEF FirstIn
<1>9. CacheOwn'
  <2> SUFFICES ASSUME NEW i \in DOMAIN cache[First], cache[First][i].conn = First
               PROVE  /\ cache[First][i].pos = Done + i
                      /\ Done + i <= consumed'[First]
                      /\ \A j \in 1 .. i - 1 : cache[First][j].conn = First
    BY <1>1, <1>6 DEF CacheOwn
  <2>1. /\ cache[First][i].pos = Done + i
        /\ Done + i <= consumed[First]
        /\ \A j \in 1 .. i - 1 : cache[First][j].conn = First
    BY DEF FirstIn, CacheOwn
  <2>2. Done + i <= consumed'[First]
    <3>1. Done \in Nat /\ i \in Nat /\ consumed[First] \in Nat
      BY FirstInFacts
    <3> QED  BY <1>8, <2>1, <3>1
  <2> QED  BY <2>1, <2>2
<1>10. CASE conn # First
  <2>1. consumed'[First] = consumed[First]
    BY <1>4, <1>10, FirstType
  <2>2. ChunkOwn'
    BY <1>1, <1>3, <1>5, <1>6, <1>10, <2>1 DEF FirstIn, ChunkOwn, Adding
  <2> QED  BY <1>1, <1>7, <1>8, <1>9, <1>10, <2>2 DEF FirstIn, FirstRead
<1>11. CASE conn = First
  <2>1. Reads(r) /\ \A q \in Readers \ {r} : reader[q].at = "idle"
    BY <1>1, <1>11, OnlyReader
  <2>2. Adding(r)' /\ (\A q \in Readers : Adding(q)' => q = r)
        /\ \A q \in Readers : ~Adding(q)
    BY <1>1, <1>3, <2>1 DEF Adding, Reads
  <2>3. CASE First \notin buffers
    BY <1>1, <1>7, <1>8, <1>9, <2>3 DEF FirstIn, FirstRead, ChunkOwn
  <2>4. CASE First \in buffers
    <3>1. /\ consumed[First] = Done + Len(cache[First])
          /\ \A j \in DOMAIN cache[First] : cache[First][j].conn = First
      BY <1>11, <2>2, <2>4 DEF FirstIn, FirstRead
    <3>2. Done \in Nat /\ Len(cache[First]) \in Nat
      BY FirstInFacts
    <3>3. ChunkOwn'
      <4> SUFFICES ASSUME NEW i \in 1 .. n
                   PROVE  /\ y[i].pos = Done + Len(cache[First]) + i
                          /\ Done + Len(cache[First]) + i <= consumed'[First]
                          /\ \A j \in 1 .. i - 1 : y[j].conn = First
        BY <1>1, <1>3, <1>5, <1>6, <2>2, <3>1 DEF ChunkOwn
      <4> QED  BY <1>2, <1>4, <1>5, <1>11, <3>1, <3>2
    <3>4. FirstRead'
      BY <1>1, <1>2, <1>3, <1>4, <1>5, <1>6, <1>11, <2>2, <3>1, <3>2 DEF FirstRead
    <3> QED  BY <1>7, <1>8, <1>9, <3>3, <3>4 DEF FirstIn
  <2> QED  BY <2>3, <2>4
<1> QED  BY <1>10, <1>11

LEMMA Joined ==
  ASSUME NEW x \in Seq(Cells), NEW y \in Seq(Cells)
  PROVE  /\ Len(x) \in Nat /\ Len(y) \in Nat /\ Len(x \o y) = Len(x) + Len(y)
         /\ DOMAIN x = 1 .. Len(x) /\ DOMAIN y = 1 .. Len(y)
         /\ DOMAIN (x \o y) = 1 .. Len(x) + Len(y)
         /\ \A i \in 1 .. Len(x) : (x \o y)[i] = x[i]
         /\ \A i \in 1 .. Len(y) : (x \o y)[Len(x) + i] = y[i]
         /\ \A i \in 1 .. Len(x) + Len(y) : i \notin 1 .. Len(x) =>
              i - Len(x) \in 1 .. Len(y) /\ (x \o y)[i] = y[i - Len(x)]
<1>1. /\ Len(x) \in Nat /\ Len(y) \in Nat /\ x \o y \in Seq(Cells)
      /\ Len(x \o y) = Len(x) + Len(y)
      /\ DOMAIN x = 1 .. Len(x) /\ DOMAIN y = 1 .. Len(y)
  OBVIOUS
<1>2. DOMAIN (x \o y) = 1 .. Len(x) + Len(y)
  BY <1>1
<1>3. \A i \in 1 .. Len(x) : (x \o y)[i] = x[i]
  BY <1>1
<1>4. \A i \in 1 .. Len(y) : (x \o y)[Len(x) + i] = y[i]
  BY <1>1
<1>5. ASSUME NEW i \in 1 .. Len(x) + Len(y), i \notin 1 .. Len(x)
      PROVE  i - Len(x) \in 1 .. Len(y) /\ (x \o y)[i] = y[i - Len(x)]
  <2>1. i - Len(x) \in 1 .. Len(y) /\ Len(x) + (i - Len(x)) = i
    BY <1>1, <1>5
  <2>2. (x \o y)[Len(x) + (i - Len(x))] = y[i - Len(x)]
    BY <1>4, <2>1
  <2> QED  BY <2>1, <2>2
<1> QED  BY <1>1, <1>2, <1>3, <1>4, <1>5

LEMMA AddKeepsFirstIn ==
  ASSUME TypeOK, Turns, FirstIn, NEW r \in Readers, AddRead(r)
  PROVE  FirstIn'
<1> DEFINE k == reader[r].key
           x == cache[First]
           y == reader[r].chunk
<1>1. /\ UNCHANGED <<conn, buffers, arrived, consumed, delivered>>
      /\ reader[r].at = "adding" /\ k \in buffers /\ k \in Conns
      /\ cache' = [cache EXCEPT ![k] = @ \o y]
  BY DEF AddRead, TypeOK, ConnTypes
<1>2. /\ reader'[r].at = "parsing" /\ \A q \in Readers \ {r} : reader'[q] = reader[q]
  <2>1. /\ reader'[r] = Now(reader[r], "parsing")
        /\ \A q \in Readers \ {r} : reader'[q] = reader[q]
    BY DEF TypeOK, InTypes, AddRead
  <2> QED  BY <2>1, ReaderFacts, NowReaderFacts
<1>3. CASE k # First
  <2>1. cache'[First] = cache[First]
    BY <1>1, <1>3, FirstType DEF TypeOK, InTypes
  <2>2. \A q \in Readers : Adding(q)' <=> Adding(q)
    BY <1>1, <1>2, <1>3 DEF Adding
  <2>3. \A q \in Readers : Adding(q)' => reader'[q].chunk = reader[q].chunk
    BY <1>2 DEF Adding
  <2> QED  BY <1>1, <2>1, <2>2, <2>3, FirstInFacts, OthersKeepFirstIn
<1>4. CASE k = First
  <2>1. Adding(r) /\ \A q \in Readers : ~Adding(q)'
    BY <1>1, <1>2, <1>4 DEF Adding, Turns, OneTurn, Reads
  <2>2. x \in Seq(Cells) /\ y \in Seq(Cells) /\ cache'[First] = x \o y
    BY <1>1, <1>4, FirstType, ReaderFacts DEF TypeOK, InTypes
  <2>3. /\ Len(x) \in Nat /\ Len(y) \in Nat /\ Len(x \o y) = Len(x) + Len(y)
        /\ DOMAIN x = 1 .. Len(x) /\ DOMAIN y = 1 .. Len(y)
        /\ DOMAIN (x \o y) = 1 .. Len(x) + Len(y)
        /\ \A i \in 1 .. Len(x) : (x \o y)[i] = x[i]
        /\ \A i \in 1 .. Len(y) : (x \o y)[Len(x) + i] = y[i]
        /\ \A i \in 1 .. Len(x) + Len(y) : i \notin 1 .. Len(x) =>
             i - Len(x) \in 1 .. Len(y) /\ (x \o y)[i] = y[i - Len(x)]
    BY <2>2, Joined
  <2> DEFINE z == x \o y
  <2> HIDE DEF x, y, z
  <2>4. Done' = Done /\ Done \in Nat
    BY <1>1, FirstInFacts DEF Done
  <2>5. FirstDelivered' /\ ChunkOwn'
    BY <1>1, <2>1 DEF FirstIn, FirstDelivered, ChunkOwn
  <2>6. CacheOwn'
    <3> SUFFICES ASSUME NEW i \in 1 .. Len(x) + Len(y), z[i].conn = First
                 PROVE  /\ z[i].pos = Done + i
                        /\ Done + i <= consumed[First]
                        /\ \A j \in 1 .. i - 1 : z[j].conn = First
      BY <1>1, <2>2, <2>3, <2>4 DEF CacheOwn, z
    <3>1. CASE i \in 1 .. Len(x)
      <4>1. /\ z[i] = x[i] /\ i \in DOMAIN x
            /\ \A j \in 1 .. i - 1 : j \in 1 .. Len(x) /\ z[j] = x[j]
        BY <2>3, <3>1 DEF z
      <4>2. \A l \in DOMAIN x : x[l].conn = First =>
              /\ x[l].pos = Done + l /\ Done + l <= consumed[First]
              /\ \A j \in 1 .. l - 1 : x[j].conn = First
        BY <1>4 DEF FirstIn, CacheOwn, x
      <4>3. x[i].conn = First
        BY <4>1
      <4>4. /\ x[i].pos = Done + i /\ Done + i <= consumed[First]
            /\ \A j \in 1 .. i - 1 : x[j].conn = First
        BY <4>1, <4>2, <4>3
      <4> QED  BY <4>1, <4>4
    <3>2. CASE i \notin 1 .. Len(x)
      <4>1. i - Len(x) \in 1 .. Len(y) /\ z[i] = y[i - Len(x)]
        BY <2>3, <3>2 DEF z
      <4>2. /\ y[i - Len(x)].pos = Done + Len(x) + (i - Len(x))
            /\ Done + Len(x) + (i - Len(x)) <= consumed[First]
            /\ \A j \in 1 .. (i - Len(x)) - 1 : y[j].conn = First
            /\ \A j \in 1 .. Len(x) : x[j].conn = First
        BY <1>1, <1>4, <2>1, <2>3, <4>1 DEF FirstIn, ChunkOwn, x, y
      <4>3. ASSUME NEW j \in 1 .. i - 1  PROVE z[j].conn = First
        <5>1. CASE j \in 1 .. Len(x)
          BY <2>3, <4>2, <5>1 DEF z
        <5>2. CASE j \notin 1 .. Len(x)
          <6>1. j \in 1 .. Len(x) + Len(y) /\ j - Len(x) \in 1 .. (i - Len(x)) - 1
            BY <2>3, <5>2
          <6> QED  BY <2>3, <4>2, <5>2, <6>1 DEF z
        <5> QED  BY <5>1, <5>2
      <4> QED  BY <2>3, <2>4, <4>1, <4>2, <4>3
    <3> QED  BY <3>1, <3>2
  <2>7. FirstRead'
    <3> SUFFICES ASSUME conn = First, First \in buffers
                 PROVE  /\ \A j \in 1 .. Len(x) + Len(y) : z[j].conn = First
                        /\ consumed[First] = Done + (Len(x) + Len(y))
      BY <1>1, <2>1, <2>2, <2>3, <2>4 DEF FirstRead, z
    <3>1. /\ \A j \in 1 .. Len(x) : x[j].conn = First
          /\ \A j \in 1 .. Len(y) : y[j].conn = First
          /\ consumed[First] = Done + Len(x) + Len(y)
      BY <2>1, <2>3 DEF FirstIn, FirstRead, x, y
    <3> QED  BY <2>3, <2>4, <3>1 DEF z
  <2> QED  BY <1>1, <2>5, <2>6, <2>7 DEF FirstIn
<1> QED  BY <1>3, <1>4

\* Only the thread whose turn it is parses the first connection's cache.
LEMMA ParsingFirst ==
  ASSUME Turns, NEW r \in Readers, reader[r].at = "parsing", reader[r].key = First
  PROVE  \A q \in Readers : ~Adding(q)
BY DEF Turns, OneTurn, Reads, Adding

\* A pack cut out of a cache that begins with the first connection's bytes is
\* all its own.
LEMMA OwnPack ==
  ASSUME TypeOK, FirstIn, HasPack(cache[First]), Sound(cache[First]),
         cache[First][1].conn = First
  PROVE  /\ \A i \in 1 .. PackCells : cache[First][i].conn = First
         /\ Pack(cache[First][1]) = Len(delivered[First][First]) + 1
         /\ Done + PackCells <= consumed[First]
<1> DEFINE x == cache[First]
           n == Len(delivered[First][First])
<1>1. /\ x \in Seq(Cells) /\ Len(x) >= PackCells /\ Len(x) \in Nat /\ n \in Nat
      /\ DOMAIN x = 1 .. Len(x)
      /\ 1 \in DOMAIN x /\ PackCells \in DOMAIN x
  BY FirstInFacts, SizesAssumption DEF HasPack
<1>2. ASSUME NEW i \in 1 .. PackCells  PROVE x[i].conn = First
  <2>1. \E p : x[i] = [conn |-> First, pos |-> p]
    BY DEF Sound, Cell
  <2> HIDE DEF x
  <2> QED  BY <2>1
<1>3. /\ x[1].pos = Done + 1
      /\ Done + PackCells <= consumed[First]
  BY <1>1, <1>2, SizesAssumption DEF FirstIn, CacheOwn
<1>4. Pack(x[1]) = n + 1
  BY <1>1, <1>3, PackOfCell DEF Done
<1> QED  BY <1>2, <1>3, <1>4

LEMMA PackKeepsFirstIn ==
  ASSUME TypeOK, Turns, FirstIn, NEW r \in Readers, ParsePack(r)
  PROVE  /\ FirstIn'
         /\ \/ delivered'[First][First] = delivered[First][First]
            \/ delivered'[First][First] =
                 Append(delivered[First][First], Len(delivered[First][First]) + 1)
<1> DEFINE k == reader[r].key
           x == cache[First]
           n == Len(delivered[First][First])
           d == cache[k][1].conn
<1>1. /\ UNCHANGED <<conn, buffers, arrived, consumed, reader>>
      /\ reader[r].at = "parsing" /\ k \in Conns
      /\ HasPack(cache[k]) /\ Sound(cache[k])
      /\ cache' = [cache EXCEPT ![k] = SubSeq(@, PackCells + 1, Len(@))]
      /\ delivered' = [delivered EXCEPT ![k][d] = Append(@, Pack(cache[k][1]))]
  BY ReaderFacts DEF ParsePack
<1>2. \A q \in Readers : Adding(q)' <=> Adding(q)
  BY <1>1 DEF Adding
<1>3. delivered \in [Conns -> [Conns -> Seq(Int)]] /\ cache \in [Conns -> Seq(Cells)]
  BY DEF TypeOK, InTypes
<1>4. CASE k # First
  <2>1. cache'[First] = cache[First]
    BY <1>1, <1>3, <1>4, FirstType
  <2>2. delivered'[First] = delivered[First]
    BY <1>1, <1>3, <1>4, FirstType
  <2>3. FirstIn'
    <3>1. /\ arrived'[First] \in Nat /\ arrived[First] <= arrived'[First]
      <4>1. arrived' = arrived
        BY <1>1
      <4> QED  BY <4>1, FirstInFacts
    <3>2. delivered'[First][First] = delivered[First][First]
      BY <2>2
    <3>3. \A q \in Readers : Adding(q)' => reader'[q].chunk = reader[q].chunk
      BY <1>1
    <3> QED  BY <1>1, <1>2, <2>1, <3>1, <3>2, <3>3, OthersKeepFirstIn
  <2> QED  BY <2>2, <2>3
<1>5. CASE k = First
  <2> DEFINE y == SubSeq(x, PackCells + 1, Len(x))
  <2>1. \A q \in Readers : ~Adding(q) /\ ~Adding(q)'
    BY <1>1, <1>2, <1>5, ParsingFirst
  <2>2. /\ x \in Seq(Cells) /\ Len(x) \in Nat /\ Len(x) >= PackCells
        /\ PackCells \in 0 .. Len(x) /\ DOMAIN x = 1 .. Len(x)
        /\ 1 \in DOMAIN x /\ x[1] \in Cells /\ d \in Conns
    <3>1. /\ x \in Seq(Cells) /\ Len(x) \in Nat /\ Len(x) >= PackCells
          /\ PackCells \in 0 .. Len(x) /\ DOMAIN x = 1 .. Len(x)
          /\ 1 \in DOMAIN x
      <4>1. x \in Seq(Cells) /\ PackCells \in Nat \ {0}
        BY FirstInFacts, SizesAssumption
      <4>2. Len(x) >= PackCells
        BY <1>1, <1>5 DEF HasPack
      <4> QED  BY <4>1, <4>2
    <3>2. x[1] \in Cells
      BY <3>1
    <3> QED  BY <1>5, <3>1, <3>2 DEF Cells
  <2>3. cache'[First] = y /\ IsRest(y, x, PackCells) /\ y \in Seq(Cells)
    <3>1. cache'[First] = y
      BY <1>1, <1>3, <1>5, FirstType
    <3>2. IsRest(y, x, PackCells)
      BY <2>2, SubSeqIsRest
    <3> QED  BY <2>2, <3>1, <3>2, SizesAssumption
  <2>4. n \in Nat /\ Done \in Nat /\ consumed[First] \in Nat /\ PackCells \in Nat \ {0}
    BY FirstInFacts, SizesAssumption
  <2> HIDE DEF y
  <2>5. Len(y) \in Nat /\ DOMAIN y = 1 .. Len(y) /\ Len(y) = Len(x) - PackCells
        /\ \A i \in 1 .. Len(y) : y[i] = x[i + PackCells] /\ i + PackCells \in DOMAIN x
    BY <2>2, <2>3, <2>4 DEF IsRest
  <2>6. CASE d # First
    <3>1. delivered'[First][First] = delivered[First][First]
      <4>1. delivered'[First] = [delivered[First] EXCEPT ![d] = Append(@, Pack(x[1]))]
        BY <1>1, <1>3, <1>5, FirstType
      <4> QED  BY <1>3, <2>6, <4>1, FirstType
    <3>2. \A i \in DOMAIN x : x[i].conn # First
      <4>1. x[1].conn # First
        BY <1>5, <2>6
      <4> QED  BY <2>2, <4>1 DEF FirstIn, CacheOwn
    <3>3. ~(conn = First /\ First \in buffers)
      BY <2>2, <3>2 DEF FirstIn, FirstRead
    <3>4. \A i \in DOMAIN y : y[i].conn # First
      BY <2>5, <3>2
    <3>5. FirstDelivered' /\ CacheOwn' /\ ChunkOwn' /\ FirstRead'
      BY <1>1, <2>1, <2>3, <3>1, <3>3, <3>4
         DEF FirstIn, FirstDelivered, CacheOwn, ChunkOwn, FirstRead
    <3> QED  BY <1>1, <3>1, <3>5 DEF FirstIn
  <2>7. CASE d = First
    <3>1. /\ \A i \in 1 .. PackCells : x[i].conn = First
          /\ Pack(x[1]) = n + 1
      BY <1>1, <1>5, <2>7, OwnPack
    <3>2. delivered'[First][First] = Append(delivered[First][First], n + 1)
      <4>1. delivered'[First] = [delivered[First] EXCEPT ![First] = Append(@, n + 1)]
        BY <1>1, <1>3, <1>5, <2>7, <3>1, FirstType
      <4> QED  BY <1>3, <4>1, FirstType
    <3>3. Len(delivered'[First][First]) = n + 1 /\ FirstDelivered'
      BY <2>4, <3>2, FirstInFacts DEF FirstIn, FirstDelivered
    <3>4. Done' = Done + PackCells
      BY <2>4, <3>3, BeforeNext DEF Done
    <3>5. CacheOwn'
      <4> SUFFICES ASSUME NEW i \in 1 .. Len(y), y[i].conn = First
                   PROVE  /\ y[i].pos = Done + PackCells + i
                          /\ Done + PackCells + i <= consumed[First]
                          /\ \A j \in 1 .. i - 1 : y[j].conn = First
        BY <1>1, <2>3, <2>5, <3>4 DEF CacheOwn
      <4>1. /\ x[i + PackCells].pos = Done + (i + PackCells)
            /\ Done + (i + PackCells) <= consumed[First]
            /\ \A j \in 1 .. (i + PackCells) - 1 : x[j].conn = First
        BY <2>5 DEF FirstIn, CacheOwn
      <4>2. ASSUME NEW j \in 1 .. i - 1  PROVE y[j].conn = First
        <5>1. j \in 1 .. Len(y) /\ j + PackCells \in 1 .. (i + PackCells) - 1
          BY <2>4, <2>5
        <5> QED  BY <2>5, <4>1, <5>1
      <4> QED  BY <2>4, <2>5, <4>1, <4>2
    <3>6. FirstRead'
      <4> SUFFICES ASSUME conn = First, First \in buffers
                   PROVE  /\ \A j \in DOMAIN y : y[j].conn = First
                          /\ consumed[First] = Done + PackCells + Len(y)
        BY <1>1, <2>1, <2>3, <3>4 DEF FirstRead
      <4>1. /\ \A j \in DOMAIN x : x[j].conn = First
            /\ consumed[First] = Done + Len(x)
        BY <2>1 DEF FirstIn, FirstRead
      <4>2. consumed[First] = Done + PackCells + Len(y)
        <5>1. consumed[First] = Done + Len(x)
          BY <4>1
        <5>2. Len(x) = Len(y) + PackCells
          BY <2>2, <2>4, <2>5
        <5> HIDE DEF x
        <5> QED  BY <2>4, <5>1, <5>2
      <4>3. ASSUME NEW j \in DOMAIN y  PROVE y[j].conn = First
        <5>1. PICK i \in DOMAIN x : y[j] = x[i]
          <6>1. y[j] = x[j + PackCells] /\ j + PackCells \in DOMAIN x
            BY <2>5, <4>3
          <6> QED  BY <6>1
        <5> QED  BY <4>1, <5>1
      <4> QED  BY <4>2, <4>3
    <3>7. ChunkOwn'
      BY <2>1 DEF ChunkOwn
    <3> QED  BY <1>1, <3>2, <3>3, <3>5, <3>6, <3>7 DEF FirstIn
  <2> QED  BY <2>6, <2>7
<1> QED  BY <1>4, <1>5

\* The beginning of a pack that another connection's bytes follow is dropped
\* as a whole.
LEMMA GarbageKeepsFirstIn ==
  ASSUME TypeOK, Turns, FirstIn, NEW r \in Readers, ParseGarbage(r)
  PROVE  FirstIn'
<1> DEFINE k == reader[r].key
           x == cache[First]
<1>1. /\ UNCHANGED <<conn, buffers, arrived, consumed, delivered>>
      /\ reader[r].at = "parsing" /\ k \in Conns /\ cache[k] # <<>>
      /\ cache \in [Conns -> Seq(Cells)]
  BY ReaderFacts DEF TypeOK, InTypes, ParseGarbage
<1>2. PICK y \in Seq(Cells), m \in 0 .. Len(cache[k]) :
        /\ cache' = [cache EXCEPT ![k] = y]
        /\ IsRest(y, cache[k], m)
        /\ StartsAtHead(cache[k]) =>
             /\ HasPack(cache[k]) /\ ~Sound(cache[k])
             /\ \A l \in 1 .. Len(cache[k]) :
                  (\A i \in 2 .. l : ~IsEnd(cache[k][i])) => l <= m
  BY GarbageLeaves
<1>3. reader'[r] = AfterRead(r) /\ \A q \in Readers \ {r} : reader'[q] = reader[q]
  BY DEF TypeOK, InTypes, ParseGarbage
<1>4. reader'[r].at # "adding"
  BY <1>3, ReadingFacts DEF AfterRead
<1>5. \A q \in Readers : /\ Adding(q)' <=> Adding(q)
                         /\ Adding(q)' => reader'[q].chunk = reader[q].chunk
  BY <1>1, <1>3, <1>4 DEF Adding
<1>6. CASE k # First
  <2>1. cache'[First] = cache[First]
    BY <1>1, <1>2, <1>6, FirstType
  <2> QED  BY <1>1, <1>5, <2>1, FirstInFacts, OthersKeepFirstIn
<1>7. CASE k = First
  <2>1. \A q \in Readers : ~Adding(q) /\ ~Adding(q)'
    BY <1>1, <1>5, <1>7, ParsingFirst
  <2>2. /\ x \in Seq(Cells) /\ Len(x) \in Nat \ {0} /\ DOMAIN x = 1 .. Len(x)
        /\ 1 \in DOMAIN x /\ x # <<>>
        /\ \A i \in DOMAIN x : x[i] \in Cells
    BY <1>1, <1>7, FirstInFacts
  <2>3. /\ cache'[First] = y /\ IsRest(y, x, m) /\ Len(y) \in Nat
        /\ DOMAIN y = 1 .. Len(y)
    BY <1>1, <1>2, <1>7, FirstType
  <2>4. Done \in Nat /\ PackCells \in Nat \ {0, 1}
    BY FirstInFacts, SizesAssumption
  <2>5. x[1].conn = First => StartsAtHead(x)
    <3> SUFFICES ASSUME x[1].conn = First  PROVE IsHead(x[1])
      BY <2>2 DEF StartsAtHead
    <3>1. x[1].pos = Done + 1
      BY <2>2 DEF FirstIn, CacheOwn
    <3>2. Len(delivered[First][First]) \in Nat /\ 1 \in 1 .. PackCells
      BY <2>4, FirstInFacts
    <3> QED  BY <3>1, <3>2, PlaceInPack DEF Done, IsHead
  \* There is a byte of another connection among those of a pack.
  <2>6. \E i \in 1 .. Len(x) : i <= PackCells /\ x[i].conn # First
    <3> SUFFICES ASSUME \A i \in 1 .. Len(x) : i <= PackCells => x[i].conn = First
                 PROVE  FALSE
      OBVIOUS
    <3>1. x[1].conn = First /\ HasPack(x) /\ ~Sound(x) /\ Len(x) >= PackCells
      BY <1>2, <1>7, <2>2, <2>4, <2>5 DEF HasPack
    <3>2. ASSUME NEW i \in 1 .. PackCells  PROVE x[i] = Cell(x[1].conn, x[1].pos + i - 1)
      <4>1. i \in DOMAIN x /\ x[i].conn = First
        BY <2>2, <2>4, <3>1
      <4>2. x[i].pos = Done + i /\ x[1].pos = Done + 1
        BY <2>2, <3>1, <4>1 DEF FirstIn, CacheOwn
      <4>3. x[1].pos + i - 1 = Done + i
        BY <2>4, <4>2
      <4>4. x[i] \in Cells
        BY <2>2, <4>1
      <4> QED  BY <3>1, <4>1, <4>2, <4>3, <4>4 DEF Cells, Cell
    <3> QED  BY <3>1, <3>2 DEF Sound
  <2>7. \A i \in 1 .. Len(y) : y[i].conn # First
    <3> SUFFICES ASSUME NEW i \in 1 .. Len(y), y[i].conn = First  PROVE FALSE
      OBVIOUS
    <3>1. i + m \in DOMAIN x /\ x[i + m].conn = First /\ m \in Nat
      BY <2>2, <2>3 DEF IsRest
    <3>2. \A j \in 1 .. i + m : x[j].conn = First
      <4>1. \A j \in 1 .. (i + m) - 1 : x[j].conn = First
        BY <3>1 DEF FirstIn, CacheOwn
      <4>2. i \in Nat
        BY <2>3
      <4>3. ASSUME NEW j \in 1 .. i + m  PROVE j = i + m \/ j \in 1 .. (i + m) - 1
        BY <3>1, <4>2, <4>3
      <4> QED  BY <3>1, <4>1, <4>3
    <3>3. i + m < PackCells
      BY <2>2, <2>4, <2>6, <3>1, <3>2
    <3>4. x[1].conn = First
      BY <3>1, <3>2
    <3>5. ASSUME NEW j \in 2 .. i + m  PROVE ~IsEnd(x[j])
      <4>1. j \in DOMAIN x /\ x[j].conn = First /\ j \in 1 .. PackCells /\ j # PackCells
        BY <2>2, <2>4, <3>1, <3>2, <3>3
      <4>2. x[j].pos = Done + j
        BY <4>1 DEF FirstIn, CacheOwn
      <4>3. Len(delivered[First][First]) \in Nat
        BY FirstInFacts
      <4> QED  BY <4>1, <4>2, <4>3, PlaceInPack DEF Done, IsEnd
    <3>6. i + m <= m
      BY <1>2, <1>7, <2>2, <2>5, <3>1, <3>4, <3>5
    <3> QED  BY <3>1, <3>6
  <2>8. ~(conn = First /\ First \in buffers)
    BY <2>2, <2>6 DEF FirstIn, FirstRead
  <2>9. FirstDelivered' /\ CacheOwn' /\ ChunkOwn' /\ FirstRead'
    BY <1>1, <2>1, <2>3, <2>7, <2>8
       DEF FirstIn, FirstDelivered, CacheOwn, ChunkOwn, FirstRead
  <2> QED  BY <1>1, <2>9 DEF FirstIn
<1> QED  BY <1>6, <1>7

LEMMA InCut ==
  ASSUME TypeOK, [Next]_vars, arrived'[First] = arrived[First],
         delivered'[First][First] = delivered[First][First]
  PROVE  [In!Next]_(In!chan)
<1>1. CASE Lost' = Lost
  BY <1>1 DEF In!chan
<1>2. CASE Lost' # Lost
  <2>1. Lost' = TRUE
    BY <1>2, LostForGood DEF Lost
  <2> QED  BY <2>1 DEF In!Next, In!Cut
<1> QED  BY <1>1, <1>2

\* The steps that have nothing to do with what is read.
LEMMA OtherKeepsFirstIn ==
  ASSUME TypeOK, FirstIn, [Next]_vars,
         UNCHANGED <<arrived, consumed, cache, delivered, reader>>
  PROVE  FirstIn' /\ [In!Next]_(In!chan)
<1>1. \A r \in Readers : /\ Adding(r)' <=> Adding(r)
                         /\ Adding(r)' => reader'[r].chunk = reader[r].chunk
  BY DEF Adding
<1>2. FirstIn'
  BY <1>1, LostForGood, FirstInFacts, OthersKeepFirstIn
<1> QED  BY <1>2, InCut

LEMMA SendsKeepsFirstIn ==
  ASSUME TypeOK, FirstIn, PeerSends
  PROVE  FirstIn' /\ [In!Next]_(In!chan)
<1>1. /\ UNCHANGED <<conn, buffers, consumed, cache, delivered, reader>>
      /\ arrived' = [arrived EXCEPT ![conn] = @ + 1]
      /\ arrived \in [Conns -> Nat]
  BY DEF TypeOK, InTypes, PeerSends
<1>2. /\ arrived'[First] \in {arrived[First], arrived[First] + 1}
      /\ arrived[First] \in Nat
  BY <1>1, FirstType
<1>3. \A r \in Readers : /\ Adding(r)' <=> Adding(r)
                         /\ Adding(r)' => reader'[r].chunk = reader[r].chunk
  BY <1>1 DEF Adding
<1>4. FirstIn'
  BY <1>1, <1>2, <1>3, OthersKeepFirstIn
<1>5. arrived'[First] \div PackCells \in
        {arrived[First] \div PackCells, arrived[First] \div PackCells + 1}
  BY <1>2, PacksUpTo
<1>6. [In!Next]_(In!chan)
  BY <1>1, <1>5 DEF In!Next, In!Send, In!chan, Lost
<1> QED  BY <1>4, <1>6

\* The steps of a thread that reads, adds and cuts out.
LEMMA ReaderKeepsFirstIn ==
  ASSUME TypeOK, Turns, FirstIn, [Next]_vars, NEW r \in Readers, ReaderStep(r)
  PROVE  FirstIn' /\ [In!Next]_(In!chan)
<1> USE ReaderFacts, ReadingFacts, NowReaderFacts
<1>1. UNCHANGED arrived
  BY DEF ReaderStep, ReadPop, Read, ReadNothing, ReadFails, ReadFailed, AddRead, AddNowhere,
         ParsePack, ParseEnd, ParseGarbage, Rearm
<1>2. CASE Read(r) \/ AddRead(r) \/ ParseGarbage(r)
  <2>1. FirstIn'
    BY <1>2, ReadKeepsFirstIn, AddKeepsFirstIn, GarbageKeepsFirstIn
  <2>2. UNCHANGED delivered
    BY <1>2 DEF Read, AddRead, ParseGarbage
  <2> QED  BY <1>1, <2>1, <2>2, InCut
<1>3. CASE ParsePack(r)
  <2> DEFINE n == Len(delivered[First][First])
  <2>1. FirstIn' /\ UNCHANGED <<conn, buffers, consumed>>
    BY <1>3, PackKeepsFirstIn DEF ParsePack
  <2>2. CASE delivered'[First][First] = delivered[First][First]
    BY <1>1, <2>1, <2>2, InCut
  <2>3. CASE delivered'[First][First] = Append(delivered[First][First], n + 1)
    <3>1. n \in Nat /\ Len(delivered'[First][First]) = n + 1
      BY <2>3, FirstInFacts
    <3>2. delivered'[First][First] = [i \in 1 .. n + 1 |-> i]
      <4>1. \A i \in 1 .. n : delivered[First][First][i] = i
        BY FirstInFacts DEF FirstIn, FirstDelivered
      <4> QED  BY <2>3, <3>1, <4>1, FirstInFacts
    <3>3. n + 1 <= arrived[First] \div PackCells
      <4>1. Before(n + 1) <= arrived[First]
        <5>1. HasPack(cache[First]) /\ Sound(cache[First]) /\ cache[First][1].conn = First
          <6>1. delivered'[First][First] # delivered[First][First]
            BY <2>3, <3>1
          <6>2. reader[r].key = First
            BY <1>3, <6>1, FirstType DEF TypeOK, InTypes, ParsePack
          <6>3. cache[First][1].conn = First
            <7>1. /\ delivered' = [delivered EXCEPT ![First][cache[First][1].conn] =
                                     Append(@, Pack(cache[First][1]))]
                  /\ delivered \in [Conns -> [Conns -> Seq(Int)]]
              BY <1>3, <6>2 DEF TypeOK, InTypes, ParsePack
            <7>2. delivered'[First] = [delivered[First] EXCEPT ![cache[First][1].conn] =
                                         Append(@, Pack(cache[First][1]))]
              BY <7>1, FirstType
            <7> QED  BY <6>1, <7>1, <7>2, FirstType
          <6> QED  BY <1>3, <6>2, <6>3 DEF ParsePack
        <5>2. Done + PackCells <= consumed[First]
          BY <5>1, OwnPack
        <5>3. Before(n + 1) = Done + PackCells
          BY <3>1, BeforeNext DEF Done
        <5>4. Done \in Nat /\ PackCells \in Nat /\ consumed[First] \in Nat
              /\ arrived[First] \in Nat /\ consumed[First] <= arrived[First]
          BY FirstInFacts, SizesAssumption DEF FirstIn
        <5> QED  BY <5>2, <5>3, <5>4
      <4>2. n + 1 \in Nat /\ arrived[First] \in Nat
        BY <3>1, FirstInFacts
      <4> QED  BY <4>1, <4>2, PacksUpTo, Zenon
    <3>4. n + 1 \in n + 1 .. arrived[First] \div PackCells
      BY <3>1, <3>3, PacksUpTo, FirstInFacts
    <3> QED  BY <1>1, <2>1, <3>2, <3>4 DEF In!Next, In!Deliver, Lost
  <2> QED  BY <1>3, <2>2, <2>3, PackKeepsFirstIn
<1>4. CASE \/ \E c \in {NoConn} \union Conns : ReadPop(r, c)
           \/ ReadNothing(r) \/ ReadFails(r) \/ ReadFailed(r)
           \/ AddNowhere(r) \/ ParseEnd(r) \/ Rearm(r)
  <2>1. UNCHANGED <<consumed, cache, delivered>>
    BY <1>4 DEF ReadPop, ReadNothing, ReadFails, ReadFailed, AddNowhere, ParseEnd, Rearm
  <2>2. reader \in [Readers -> ReaderStates]
    BY DEF TypeOK, InTypes
  <2>3. \A q \in Readers \ {r} : reader'[q] = reader[q]
    BY <1>4, <2>2
       DEF ReadPop, ReadNothing, ReadFails, ReadFailed, AddNowhere, ParseEnd, Rearm
  <2>4. reader'[r].at # "adding"
    BY <1>4, <2>2
       DEF ReadPop, ReadNothing, ReadFails, ReadFailed, AddNowhere, ParseEnd, Rearm,
           AfterRead, IdleReader
  <2>5. Adding(r) => First \notin buffers
    BY <1>4
       DEF Adding, ReadPop, ReadNothing, ReadFails, ReadFailed, AddNowhere, ParseEnd, Rearm
  <2>6. \A q \in Readers : Adding(q)' => Adding(q) /\ reader'[q].chunk = reader[q].chunk
    BY <2>3, <2>4 DEF Adding
  <2>7. First \in buffers => \A q \in Readers : Adding(q) => Adding(q)'
    BY <2>3, <2>5 DEF Adding
  <2>8. FirstIn'
    BY <1>1, <2>1, <2>6, <2>7, LostForGood, FirstInFacts, OthersKeepFirstIn
  <2> QED  BY <1>1, <2>1, <2>8, InCut
<1> QED  BY <1>2, <1>3, <1>4 DEF ReaderStep

\* The steps of the descriptor are, for what its first connection receives,
\* steps of a channel.
LEMMA NextFirstIn ==
  ASSUME TypeOK, Turns, FirstIn, [Next]_vars
  PROVE  FirstIn' /\ [In!Next]_(In!chan)
<1>1. ASSUME NEW r \in Readers, ReaderStep(r)  PROVE FirstIn' /\ [In!Next]_(In!chan)
  BY <1>1, ReaderKeepsFirstIn
<1>2. CASE PeerSends
  BY <1>2, SendsKeepsFirstIn
<1>3. CASE \/ DropBuffer \/ CloseFd \/ Open \/ EpollStep
           \/ \E s \in Senders, c \in Conns : SendOneMessage(s, c)
           \/ \E s \in Senders : PushWrite(s)
           \/ \E w \in Writers : WriterStep(w)
           \/ \E c \in Conns : PeerTakes(c)
           \/ UNCHANGED vars
  <2>1. UNCHANGED <<arrived, consumed, cache, delivered, reader>>
    BY <1>3
       DEF DropBuffer, CloseFd, Open, EpollStep, EpollWait, EpollIn, EpollOut, EpollWrite,
           SendOneMessage, PushWrite, PeerTakes, WriterStep, WritePop, WriteCopy, WriteCell,
           WriteFull, WritePopped, WriteFails, WriteFailed, inVars, vars
  <2> QED  BY <2>1, OtherKeepsFirstIn
<1> QED  BY <1>1, <1>2, <1>3 DEF Next, Working

LEMMA InitIn == Init => In!Init
<1> SUFFICES ASSUME Init  PROVE In!Init
  OBVIOUS
<1>1. /\ arrived[First] = 0 /\ delivered[First][First] = <<>>
      /\ conn = First /\ First \in buffers
  BY FirstType DEF Init, First
<1>2. 0 \div PackCells = 0
  BY SizesAssumption
<1> QED  BY <1>1, <1>2 DEF In!Init, Lost

\* The first connection of a descriptor is a channel from its peer to the node:
\* packs come out of its buffer whole, once each and in the order in which the
\* peer sent them, whichever threads read, and however it ends.
THEOREM ReceivingIsChannel == Spec => InChannel
<1>1. Init => TypeOK /\ Turns /\ FirstIn
  BY InitTypeOK, InitTurns, InitFirstIn
<1>2. TypeOK /\ Turns /\ FirstIn /\ [Next]_vars =>
        TypeOK' /\ Turns' /\ FirstIn' /\ [In!Next]_(In!chan)
  BY NextTypeOK, NextTurns, NextFirstIn
<1> QED  BY <1>1, <1>2, InitIn, PTL DEF Spec, InChannel, In!Safe

(***************************************************************************)
(* No pack comes out twice, on any of the connections.  Which bytes a      *)
(* cache holds is not known once the descriptor has been reused; but every *)
(* cell that has been read is in one place at most, and the head of a pack *)
(* that has been delivered is nowhere any more.                            *)
(***************************************************************************)

\* The bytes a thread has read and not added to a cache yet.
Chunk(r) == IF reader[r].at = "adding" THEN reader[r].chunk ELSE <<>>

CellsSeen ==
  /\ \A c \in Conns : \A i \in DOMAIN cache[c] :
       cache[c][i].pos \in 1 .. consumed[cache[c][i].conn]
  /\ \A r \in Readers : \A i \in DOMAIN Chunk(r) :
       Chunk(r)[i].pos \in 1 .. consumed[Chunk(r)[i].conn]

CellsOnce ==
  /\ \A c, d \in Conns : \A i \in DOMAIN cache[c], j \in DOMAIN cache[d] :
       cache[c][i] = cache[d][j] => c = d /\ i = j
  /\ \A q, r \in Readers : \A i \in DOMAIN Chunk(q), j \in DOMAIN Chunk(r) :
       Chunk(q)[i] = Chunk(r)[j] => q = r /\ i = j
  /\ \A c \in Conns, r \in Readers : \A i \in DOMAIN cache[c], j \in DOMAIN Chunk(r) :
       cache[c][i] # Chunk(r)[j]

\* The cell x is in no cache and with no thread.
Gone(x) ==
  /\ \A c \in Conns : \A i \in DOMAIN cache[c] : cache[c][i] # x
  /\ \A r \in Readers : \A i \in DOMAIN Chunk(r) : Chunk(r)[i] # x

HeadsGone ==
  \A c, d \in Conns : \A n \in DOMAIN delivered[c][d] :
    \E h \in 1 .. consumed[d] :
      /\ IsHead(Cell(d, h)) /\ Pack(Cell(d, h)) = delivered[c][d][n]
      /\ Gone(Cell(d, h))

Once == CellsSeen /\ CellsOnce /\ HeadsGone /\ DeliveredOnce

LEMMA CellFacts ==
  ASSUME TypeOK
  PROVE  /\ cache \in [Conns -> Seq(Cells)] /\ consumed \in [Conns -> Nat]
         /\ \A c \in Conns : \A i \in DOMAIN cache[c] :
              i \in Nat \ {0} /\ cache[c][i] \in Cells
         /\ \A r \in Readers : Chunk(r) \in Seq(Cells)
         /\ \A r \in Readers : \A i \in DOMAIN Chunk(r) :
              i \in Nat \ {0} /\ Chunk(r)[i] \in Cells
<1>1. cache \in [Conns -> Seq(Cells)] /\ consumed \in [Conns -> Nat]
  BY DEF TypeOK, InTypes
<1>2. \A r \in Readers : Chunk(r) \in Seq(Cells)
  BY ReaderFacts DEF Chunk
<1> HIDE DEF Chunk
<1>3. ASSUME NEW x \in Seq(Cells), NEW i \in DOMAIN x
      PROVE  i \in Nat \ {0} /\ x[i] \in Cells
  BY <1>3
<1> QED  BY <1>1, <1>2, <1>3

LEMMA InitOnce == Init => Once
<1> SUFFICES ASSUME Init  PROVE Once
  OBVIOUS
<1>1. \A r \in Readers : Chunk(r) = <<>>
  BY ReadingFacts DEF Init, IdleReader, Chunk
<1>2. \A c \in Conns : cache[c] = <<>> /\ \A d \in Conns : delivered[c][d] = <<>>
  BY DEF Init
<1> QED
  BY <1>1, <1>2 DEF Once, CellsSeen, CellsOnce, HeadsGone, DeliveredOnce

\* Every cache loses cells at its front or none, s of them, and every thread
\* keeps its cells or has none any more.
LEMMA FewerCells ==
  ASSUME TypeOK, CellsSeen, CellsOnce, NEW s \in [Conns -> Nat],
         \A c \in Conns : \A i \in DOMAIN cache'[c] :
           /\ i \in Nat \ {0} /\ i + s[c] \in DOMAIN cache[c]
           /\ cache'[c][i] = cache[c][i + s[c]],
         \A r \in Readers : Chunk(r)' = Chunk(r) \/ Chunk(r)' = <<>>,
         consumed' = consumed
  PROVE  CellsSeen' /\ CellsOnce' /\ \A x : Gone(x) => Gone(x)'
<1>1. CellsSeen'
  BY DEF CellsSeen
<1>2. CellsOnce'
  <2>1. ASSUME NEW c \in Conns, NEW d \in Conns, NEW i \in DOMAIN cache'[c],
               NEW j \in DOMAIN cache'[d], cache'[c][i] = cache'[d][j]
        PROVE  c = d /\ i = j
    <3>1. c = d /\ i + s[c] = j + s[d]
      BY <2>1 DEF CellsOnce
    <3> QED  BY <3>1
  <2>2. ASSUME NEW q \in Readers, NEW r \in Readers, NEW i \in DOMAIN Chunk(q)',
               NEW j \in DOMAIN Chunk(r)', Chunk(q)'[i] = Chunk(r)'[j]
        PROVE  q = r /\ i = j
    <3>1. Chunk(q)' = Chunk(q) /\ Chunk(r)' = Chunk(r)
      OBVIOUS
    <3> QED  BY <2>2, <3>1 DEF CellsOnce
  <2>3. ASSUME NEW c \in Conns, NEW r \in Readers, NEW i \in DOMAIN cache'[c],
               NEW j \in DOMAIN Chunk(r)'
        PROVE  cache'[c][i] # Chunk(r)'[j]
    <3>1. Chunk(r)' = Chunk(r)
      OBVIOUS
    <3> QED  BY <3>1 DEF CellsOnce
  <2> QED  BY <2>1, <2>2, <2>3 DEF CellsOnce
<1>3. ASSUME NEW x, Gone(x)  PROVE Gone(x)'
  BY <1>3 DEF Gone
<1> QED  BY <1>1, <1>2, <1>3

\* Nothing is delivered, and nothing that is gone comes back.
LEMMA NoneDelivered ==
  ASSUME TypeOK, Once, delivered' = delivered, CellsSeen', CellsOnce',
         consumed' \in [Conns -> Nat],
         \A d \in Conns : consumed[d] <= consumed'[d],
         \A d \in Conns, h \in Nat : h \in 1 .. consumed[d] /\ Gone(Cell(d, h)) =>
           Gone(Cell(d, h))'
  PROVE  Once'
<1>1. HeadsGone'
  <2> SUFFICES ASSUME NEW c \in Conns, NEW d \in Conns, NEW n \in DOMAIN delivered[c][d]
               PROVE  \E h \in 1 .. consumed'[d] :
                        /\ IsHead(Cell(d, h)) /\ Pack(Cell(d, h)) = delivered[c][d][n]
                        /\ Gone(Cell(d, h))'
    BY DEF HeadsGone
  <2>1. PICK h \in 1 .. consumed[d] :
          /\ IsHead(Cell(d, h)) /\ Pack(Cell(d, h)) = delivered[c][d][n]
          /\ Gone(Cell(d, h))
    BY DEF Once, HeadsGone
  <2>2. h \in Nat /\ h \in 1 .. consumed'[d]
    BY CellFacts
  <2>3. Gone(Cell(d, h))'
    BY <2>1, <2>2
  <2> QED  BY <2>1, <2>2, <2>3
<1>2. DeliveredOnce'
  BY DEF Once, DeliveredOnce
<1> QED  BY <1>1, <1>2 DEF Once

\* What changes no cache.
LEMMA SameCachesKeepOnce ==
  ASSUME TypeOK, Once, UNCHANGED <<cache, consumed, delivered>>,
         \A r \in Readers : Chunk(r)' = Chunk(r) \/ Chunk(r)' = <<>>
  PROVE  Once'
<1> DEFINE s == [c \in Conns |-> 0]
<1>1. s \in [Conns -> Nat]
  OBVIOUS
<1>2. \A c \in Conns : \A i \in DOMAIN cache'[c] :
        /\ i \in Nat \ {0} /\ i + s[c] \in DOMAIN cache[c]
        /\ cache'[c][i] = cache[c][i + s[c]]
  <2> SUFFICES ASSUME NEW c \in Conns, NEW i \in DOMAIN cache[c]
               PROVE  i \in Nat \ {0} /\ i + s[c] = i
    OBVIOUS
  <2>1. i \in Nat \ {0}  BY CellFacts
  <2> QED  BY <2>1
<1> HIDE DEF s
<1>3. CellsSeen' /\ CellsOnce' /\ \A x : Gone(x) => Gone(x)'
  BY <1>1, <1>2, FewerCells DEF Once
<1>4. consumed' \in [Conns -> Nat] /\ \A d \in Conns : consumed[d] <= consumed'[d]
  BY CellFacts
<1> QED  BY <1>3, <1>4, NoneDelivered

\* What takes cells out of the front of a cache.
LEMMA FrontLeaves ==
  ASSUME TypeOK, Once, NEW k \in Conns, NEW y \in Seq(Cells), NEW m \in Nat,
         cache' = [cache EXCEPT ![k] = y], IsRest(y, cache[k], m), consumed' = consumed,
         \A r \in Readers : Chunk(r)' = Chunk(r) \/ Chunk(r)' = <<>>
  PROVE  /\ CellsSeen' /\ CellsOnce' /\ \A x : Gone(x) => Gone(x)'
         /\ m >= 1 => \A x : x = cache[k][1] => Gone(x)'
<1> DEFINE s == [c \in Conns |-> IF c = k THEN m ELSE 0]
<1> USE CellFacts
<1>1. s \in [Conns -> Nat] /\ s[k] = m /\ \A c \in Conns \ {k} : s[c] = 0
  OBVIOUS
<1>2. ASSUME NEW c \in Conns, NEW i \in DOMAIN cache'[c]
      PROVE  /\ i \in Nat \ {0} /\ i + s[c] \in DOMAIN cache[c]
             /\ cache'[c][i] = cache[c][i + s[c]]
  <2>1. CASE c = k
    <3>1. cache'[k] = y /\ DOMAIN y = 1 .. Len(y) /\ cache[k] \in Seq(Cells)
      OBVIOUS
    <3>2. /\ Len(cache[k]) \in Nat /\ DOMAIN cache[k] = 1 .. Len(cache[k])
          /\ Len(y) \in Nat /\ Len(y) = Len(cache[k]) - m
      BY <3>1 DEF IsRest
    <3> QED  BY <1>1, <2>1, <3>1, <3>2 DEF IsRest
  <2>2. CASE c # k
    <3>1. cache'[c] = cache[c] /\ i \in Nat \ {0} /\ s[c] = 0
      BY <1>1, <2>2
    <3> QED  BY <3>1
  <2> QED  BY <2>1, <2>2
<1> HIDE DEF s
<1>3. CellsSeen' /\ CellsOnce' /\ \A x : Gone(x) => Gone(x)'
  BY <1>1, <1>2, FewerCells DEF Once
<1>4. ASSUME m >= 1, NEW x, x = cache[k][1]  PROVE Gone(x)'
  <2>1. CASE cache[k] = <<>>
    <3>1. m = 0  BY <2>1 DEF IsRest
    <3> QED  BY <1>4, <3>1
  <2>2. CASE cache[k] # <<>>
    <3>1. 1 \in DOMAIN cache[k]
      BY <2>2
    <3>2. ASSUME NEW c \in Conns, NEW i \in DOMAIN cache'[c], cache'[c][i] = x
          PROVE  FALSE
      <4>1. c = k /\ i + s[c] = 1 /\ i \in Nat \ {0}
        BY <1>2, <1>4, <3>1, <3>2 DEF Once, CellsOnce
      <4> QED  BY <1>1, <1>4, <4>1
    <3>3. ASSUME NEW r \in Readers, NEW i \in DOMAIN Chunk(r)'
          PROVE  Chunk(r)'[i] # x
      <4>1. Chunk(r)' = Chunk(r)
        OBVIOUS
      <4> QED  BY <1>4, <3>1, <4>1 DEF Once, CellsOnce
    <3> QED  BY <3>2, <3>3 DEF Gone
  <2> QED  BY <2>1, <2>2
<1> QED  BY <1>3, <1>4

\* What a thread has just read nobody has read before.
LEMMA ReadKeepsOnce ==
  ASSUME TypeOK, Once, NEW r \in Readers, Read(r)
  PROVE  Once'
<1> DEFINE n == Least(MaxLine, arrived[conn] - consumed[conn])
           y == [i \in 1 .. n |-> Cell(conn, consumed[conn] + i)]
<1>1. UNCHANGED <<cache, delivered>> /\ reader[r].at = "reading" /\ conn \in Conns
  BY DEF Read, Readable, TypeOK, ConnTypes
<1>2. n \in Nat /\ consumed[conn] \in Nat
  <2>1. /\ MaxLine \in Nat /\ arrived[conn] - consumed[conn] \in Nat
        /\ consumed[conn] \in Nat
    BY <1>1, SizesAssumption DEF Read, Readable, TypeOK, InTypes
  <2> QED  BY <2>1, LeastType
<1>3. /\ reader'[r].at = "adding" /\ reader'[r].chunk = y
      /\ \A q \in Readers \ {r} : reader'[q] = reader[q]
  BY DEF TypeOK, InTypes, Read
<1>4. /\ consumed' \in [Conns -> Nat]
      /\ consumed'[conn] = consumed[conn] + n
      /\ \A c \in Conns \ {conn} : consumed'[c] = consumed[c]
  BY <1>1, <1>2 DEF TypeOK, InTypes, Read
<1>5. /\ DOMAIN y = 1 .. n
      /\ \A i \in 1 .. n : y[i].conn = conn /\ y[i].pos = consumed[conn] + i
  BY <1>1, <1>2, CellType
<1> HIDE DEF n, y
<1>6. /\ Chunk(r)' = y /\ Chunk(r) = <<>>
      /\ \A q \in Readers \ {r} : Chunk(q)' = Chunk(q)
  BY <1>1, <1>3 DEF Chunk
<1>7. \A d \in Conns : /\ consumed[d] \in Nat /\ consumed'[d] \in Nat
                       /\ consumed[d] <= consumed'[d]
  <2> TAKE d \in Conns
  <2>1. consumed[d] \in Nat /\ consumed'[d] \in Nat
    BY <1>4, CellFacts
  <2>2. consumed[d] <= consumed'[d]
    <3>1. CASE d = conn
      BY <1>2, <1>4, <3>1
    <3>2. CASE d # conn
      BY <1>4, <2>1, <3>2
    <3> QED  BY <3>1, <3>2
  <2> QED  BY <2>1, <2>2
\* The new cells are behind all that had been read.
<1>8. ASSUME NEW x \in Cells, x.pos \in 1 .. consumed[x.conn], NEW i \in 1 .. n
      PROVE  y[i] # x
  <2>1. y[i].conn = conn /\ y[i].pos = consumed[conn] + i
    BY <1>5
  <2> QED  BY <1>2, <1>8, <2>1
<1>9. ASSUME NEW i \in 1 .. n, NEW j \in 1 .. n, y[i] = y[j]
      PROVE  i = j
  BY <1>2, <1>5, <1>9
<1>10. CellsSeen'
  <2>1. ASSUME NEW x \in Cells, x.pos \in 1 .. consumed[x.conn]
        PROVE  x.pos \in 1 .. consumed'[x.conn]
    <3>1. x.conn \in Conns  BY DEF Cells
    <3> QED  BY <1>7, <2>1, <3>1
  <2>2. \A i \in 1 .. n : y[i].pos \in 1 .. consumed'[y[i].conn]
    BY <1>2, <1>4, <1>5
  <2>3. ASSUME NEW c \in Conns, NEW i \in DOMAIN cache[c]
        PROVE  cache[c][i].pos \in 1 .. consumed'[cache[c][i].conn]
    BY <2>1, CellFacts DEF Once, CellsSeen
  <2>4. ASSUME NEW q \in Readers, NEW i \in DOMAIN Chunk(q)'
        PROVE  Chunk(q)'[i].pos \in 1 .. consumed'[Chunk(q)'[i].conn]
    <3>1. CASE q = r
      BY <1>5, <1>6, <2>2, <3>1
    <3>2. CASE q # r
      <4>1. Chunk(q)' = Chunk(q)
        BY <1>6, <3>2
      <4> QED  BY <2>1, <4>1, CellFacts DEF Once, CellsSeen
    <3> QED  BY <3>1, <3>2
  <2> QED  BY <1>1, <2>3, <2>4 DEF CellsSeen
<1>11. CellsOnce'
  <2>1. ASSUME NEW p \in Readers, NEW q \in Readers, NEW i \in DOMAIN Chunk(p)',
               NEW j \in DOMAIN Chunk(q)', Chunk(p)'[i] = Chunk(q)'[j]
        PROVE  p = q /\ i = j
    <3>1. CASE p = r /\ q = r
      BY <1>5, <1>6, <1>9, <2>1, <3>1
    <3>2. CASE p = r /\ q # r
      <4>1. /\ Chunk(q)' = Chunk(q) /\ Chunk(q)[j] \in Cells
            /\ Chunk(q)[j].pos \in 1 .. consumed[Chunk(q)[j].conn]
        BY <1>6, <3>2, CellFacts DEF Once, CellsSeen
      <4> QED  BY <1>5, <1>6, <1>8, <2>1, <3>2, <4>1
    <3>3. CASE p # r /\ q = r
      <4>1. /\ Chunk(p)' = Chunk(p) /\ Chunk(p)[i] \in Cells
            /\ Chunk(p)[i].pos \in 1 .. consumed[Chunk(p)[i].conn]
        BY <1>6, <3>3, CellFacts DEF Once, CellsSeen
      <4> QED  BY <1>5, <1>6, <1>8, <2>1, <3>3, <4>1
    <3>4. CASE p # r /\ q # r
      <4>1. Chunk(p)' = Chunk(p) /\ Chunk(q)' = Chunk(q)
        BY <1>6, <3>4
      <4> QED  BY <2>1, <4>1 DEF Once, CellsOnce
    <3> QED  BY <3>1, <3>2, <3>3, <3>4
  <2>2. ASSUME NEW c \in Conns, NEW q \in Readers, NEW i \in DOMAIN cache[c],
               NEW j \in DOMAIN Chunk(q)'
        PROVE  cache[c][i] # Chunk(q)'[j]
    <3>1. CASE q = r
      <4>1. cache[c][i] \in Cells /\ cache[c][i].pos \in 1 .. consumed[cache[c][i].conn]
        BY CellFacts DEF Once, CellsSeen
      <4> QED  BY <1>5, <1>6, <1>8, <3>1, <4>1
    <3>2. CASE q # r
      <4>1. Chunk(q)' = Chunk(q)
        BY <1>6, <3>2
      <4> QED  BY <4>1 DEF Once, CellsOnce
    <3> QED  BY <3>1, <3>2
  <2> QED  BY <1>1, <2>1, <2>2 DEF Once, CellsOnce
<1>12. ASSUME NEW d \in Conns, NEW h \in Nat, h \in 1 .. consumed[d], Gone(Cell(d, h))
       PROVE  Gone(Cell(d, h))'
  <2> DEFINE x == Cell(d, h)
  <2>1. x \in Cells /\ x.conn = d /\ x.pos = h
    BY CellType
  <2>2. \A i \in 1 .. n : y[i] # x
    BY <1>8, <1>12, <2>1
  <2>3. ASSUME NEW q \in Readers, NEW i \in DOMAIN Chunk(q)'  PROVE Chunk(q)'[i] # x
    BY <1>5, <1>6, <1>12, <2>2, <2>3 DEF Gone
  <2> QED  BY <1>1, <1>12, <2>3 DEF Gone
<1> QED  BY <1>1, <1>4, <1>7, <1>10, <1>11, <1>12, NoneDelivered

\* The thread's cells become the cache's.
LEMMA AddKeepsOnce ==
  ASSUME TypeOK, Once, NEW r \in Readers, AddRead(r)
  PROVE  Once'
<1> DEFINE k == reader[r].key
           x == cache[k]
           y == Chunk(r)
           z == x \o y
<1> USE CellFacts
<1>1. /\ UNCHANGED <<consumed, delivered>>
      /\ reader[r].at = "adding" /\ k \in Conns
      /\ cache' = [cache EXCEPT ![k] = @ \o reader[r].chunk]
  BY DEF AddRead, TypeOK, ConnTypes
<1>2. /\ reader'[r].at = "parsing" /\ \A q \in Readers \ {r} : reader'[q] = reader[q]
  <2>1. /\ reader'[r] = Now(reader[r], "parsing")
        /\ \A q \in Readers \ {r} : reader'[q] = reader[q]
    BY DEF TypeOK, InTypes, AddRead
  <2> QED  BY <2>1, ReaderFacts, NowReaderFacts
<1>3. Chunk(r)' = <<>> /\ \A q \in Readers \ {r} : Chunk(q)' = Chunk(q)
  BY <1>2 DEF Chunk
<1>4. x \in Seq(Cells) /\ y \in Seq(Cells) /\ y = reader[r].chunk
  BY <1>1 DEF Chunk
<1>5. cache'[k] = z /\ \A c \in Conns \ {k} : cache'[c] = cache[c]
  BY <1>1, <1>4
<1>6. /\ Len(x) \in Nat /\ DOMAIN x = 1 .. Len(x)
      /\ DOMAIN z = 1 .. Len(x) + Len(y) /\ DOMAIN y = 1 .. Len(y)
      /\ \A i \in 1 .. Len(x) : z[i] = x[i]
      /\ \A i \in 1 .. Len(x) + Len(y) : i \notin 1 .. Len(x) =>
           i - Len(x) \in 1 .. Len(y) /\ z[i] = y[i - Len(x)]
  BY <1>4, Joined
<1> HIDE DEF z
\* Every cell of a cache was in that cache before, or with the thread.
<1> DEFINE Old(c, i) == i \in DOMAIN cache[c] /\ cache'[c][i] = cache[c][i]
           New(c, i) == /\ c = k /\ i - Len(x) \in DOMAIN Chunk(r)
                        /\ cache'[c][i] = Chunk(r)[i - Len(x)]
<1>7. ASSUME NEW c \in Conns, NEW i \in DOMAIN cache'[c]
      PROVE  i \in Nat /\ (Old(c, i) \/ New(c, i))
  <2>1. CASE c # k
    BY <1>5, <2>1
  <2>2. CASE c = k
    <3>1. i \in 1 .. Len(x) + Len(y)
      BY <1>5, <1>6, <2>2
    <3>2. CASE i \in 1 .. Len(x)
      BY <1>5, <1>6, <2>2, <3>2
    <3>3. CASE i \notin 1 .. Len(x)
      <4>1. i - Len(x) \in 1 .. Len(y) /\ z[i] = y[i - Len(x)]
        BY <1>6, <3>1, <3>3
      <4>2. i - Len(x) \in DOMAIN y /\ cache'[c][i] = y[i - Len(x)]
        BY <1>5, <1>6, <2>2, <4>1
      <4> QED  BY <2>2, <3>1, <4>2, <1>6
    <3> QED  BY <3>2, <3>3
  <2> QED  BY <2>1, <2>2
<1> HIDE DEF Old, New
<1>8. CellsSeen'
  <2>1. ASSUME NEW c \in Conns, NEW i \in DOMAIN cache'[c]
        PROVE  cache'[c][i].pos \in 1 .. consumed[cache'[c][i].conn]
    <3>1. CASE Old(c, i)
      <4>1. i \in DOMAIN cache[c] /\ cache'[c][i] = cache[c][i]
        BY <3>1 DEF Old
      <4> QED  BY <4>1 DEF Once, CellsSeen
    <3>2. CASE New(c, i)
      <4>1. /\ i - Len(x) \in DOMAIN Chunk(r)
            /\ cache'[c][i] = Chunk(r)[i - Len(x)]
        BY <3>2 DEF New
      <4> QED  BY <4>1 DEF Once, CellsSeen
    <3> QED  BY <1>7, <3>1, <3>2
  <2>2. ASSUME NEW q \in Readers, NEW i \in DOMAIN Chunk(q)'
        PROVE  Chunk(q)'[i].pos \in 1 .. consumed[Chunk(q)'[i].conn]
    <3>1. Chunk(q)' = Chunk(q)
      BY <1>3
    <3> QED  BY <3>1 DEF Once, CellsSeen
  <2> QED  BY <1>1, <2>1, <2>2 DEF CellsSeen
<1>9. CellsOnce'
  <2>1. ASSUME NEW c \in Conns, NEW d \in Conns, NEW i \in DOMAIN cache'[c],
               NEW j \in DOMAIN cache'[d], cache'[c][i] = cache'[d][j]
        PROVE  c = d /\ i = j
    <3>1. CASE Old(c, i) /\ Old(d, j)
      <4>1. /\ i \in DOMAIN cache[c] /\ j \in DOMAIN cache[d]
            /\ cache[c][i] = cache[d][j]
        BY <2>1, <3>1 DEF Old
      <4> QED  BY <4>1 DEF Once, CellsOnce
    <3>2. CASE New(c, i) /\ New(d, j)
      <4>1. /\ c = k /\ d = k
            /\ i - Len(x) \in DOMAIN Chunk(r) /\ j - Len(x) \in DOMAIN Chunk(r)
            /\ Chunk(r)[i - Len(x)] = Chunk(r)[j - Len(x)]
        BY <2>1, <3>2 DEF New
      <4>2. i - Len(x) = j - Len(x)
        BY <4>1 DEF Once, CellsOnce
      <4> QED  BY <1>6, <1>7, <4>1, <4>2
    <3>3. CASE Old(c, i) /\ New(d, j)
      <4>1. /\ i \in DOMAIN cache[c] /\ j - Len(x) \in DOMAIN Chunk(r)
            /\ cache[c][i] = Chunk(r)[j - Len(x)]
        BY <2>1, <3>3 DEF Old, New
      <4> QED  BY <4>1 DEF Once, CellsOnce
    <3>4. CASE New(c, i) /\ Old(d, j)
      <4>1. /\ j \in DOMAIN cache[d] /\ i - Len(x) \in DOMAIN Chunk(r)
            /\ cache[d][j] = Chunk(r)[i - Len(x)]
        BY <2>1, <3>4 DEF Old, New
      <4> QED  BY <4>1 DEF Once, CellsOnce
    <3> QED  BY <1>7, <3>1, <3>2, <3>3, <3>4
  <2>2. ASSUME NEW p \in Readers, NEW q \in Readers, NEW i \in DOMAIN Chunk(p)',
               NEW j \in DOMAIN Chunk(q)', Chunk(p)'[i] = Chunk(q)'[j]
        PROVE  p = q /\ i = j
    <3>1. Chunk(p)' = Chunk(p) /\ Chunk(q)' = Chunk(q)
      BY <1>3
    <3> QED  BY <2>2, <3>1 DEF Once, CellsOnce
  <2>3. ASSUME NEW c \in Conns, NEW q \in Readers, NEW i \in DOMAIN cache'[c],
               NEW j \in DOMAIN Chunk(q)'
        PROVE  cache'[c][i] # Chunk(q)'[j]
    <3>1. q # r /\ Chunk(q)' = Chunk(q)
      BY <1>3
    <3>2. CASE Old(c, i)
      <4>1. i \in DOMAIN cache[c] /\ cache'[c][i] = cache[c][i]
        BY <3>2 DEF Old
      <4> QED  BY <3>1, <4>1 DEF Once, CellsOnce
    <3>3. CASE New(c, i)
      <4>1. /\ i - Len(x) \in DOMAIN Chunk(r)
            /\ cache'[c][i] = Chunk(r)[i - Len(x)]
        BY <3>3 DEF New
      <4> QED  BY <3>1, <4>1 DEF Once, CellsOnce
    <3> QED  BY <1>7, <3>2, <3>3
  <2> QED  BY <2>1, <2>2, <2>3 DEF CellsOnce
<1>10. ASSUME NEW u, Gone(u)  PROVE Gone(u)'
  <2>1. ASSUME NEW c \in Conns, NEW i \in DOMAIN cache'[c]  PROVE cache'[c][i] # u
    BY <1>7, <1>10 DEF Gone, Old, New
  <2>2. ASSUME NEW q \in Readers, NEW i \in DOMAIN Chunk(q)'  PROVE Chunk(q)'[i] # u
    BY <1>3, <1>10 DEF Gone
  <2> QED  BY <2>1, <2>2 DEF Gone
<1>11. consumed' \in [Conns -> Nat] /\ \A d \in Conns : consumed[d] <= consumed'[d]
  BY <1>1
<1> QED  BY <1>1, <1>8, <1>9, <1>10, <1>11, NoneDelivered

\* A pack that is delivered when its head leaves the last place that had it.
LEMMA PackDelivered ==
  ASSUME TypeOK, Once, consumed' = consumed, CellsSeen', CellsOnce',
         \A v : Gone(v) => Gone(v)',
         NEW k \in Conns, NEW d \in Conns, NEW h \in Nat, h \in 1 .. consumed[d],
         IsHead(Cell(d, h)), ~Gone(Cell(d, h)), \A v : v = Cell(d, h) => Gone(v)',
         delivered'[k][d] = Append(delivered[k][d], Pack(Cell(d, h))),
         \A c, e \in Conns : c # k \/ e # d => delivered'[c][e] = delivered[c][e]
  PROVE  Once'
<1>0. PICK s \in Seq(Int), p \in Int : s = delivered[k][d] /\ p = Pack(Cell(d, h))
  <2>1. delivered[k][d] \in Seq(Int)
    BY DEF TypeOK, InTypes
  <2>2. Pack(Cell(d, h)) \in Int
    BY SizesAssumption DEF Pack, Cell
  <2> QED  BY <2>1, <2>2
<1> USE <1>0
\* It was not delivered before.
<1>1. ASSUME NEW c \in Conns, NEW n \in DOMAIN delivered[c][d], delivered[c][d][n] = p
      PROVE  FALSE
  <2>1. PICK g \in 1 .. consumed[d] :
          /\ IsHead(Cell(d, g)) /\ Pack(Cell(d, g)) = delivered[c][d][n]
          /\ Gone(Cell(d, g))
    BY DEF Once, HeadsGone
  <2>2. g \in Nat /\ consumed[d] \in Nat
    BY CellFacts
  <2>3. g = h
    <3>1. Pack(Cell(d, g)) = Pack(Cell(d, h))
      BY <1>1, <2>1
    <3> QED  BY <2>1, <2>2, <3>1, OneHead
  <2> QED  BY <2>1, <2>3
\* What is at a place of what is delivered, then and before.
<1>2. ASSUME NEW c \in Conns, NEW e \in Conns, NEW n \in DOMAIN delivered'[c][e]
      PROVE  \/ n \in DOMAIN delivered[c][e] /\ delivered'[c][e][n] = delivered[c][e][n]
             \/ c = k /\ e = d /\ n = Len(s) + 1 /\ delivered'[c][e][n] = p
  <2>1. CASE c # k \/ e # d
    BY <2>1
  <2>2. CASE c = k /\ e = d
    <3>1. n \in DOMAIN Append(s, p)
      BY <2>2
    <3>2. \/ n \in DOMAIN s /\ Append(s, p)[n] = s[n]
          \/ n = Len(s) + 1 /\ Append(s, p)[n] = p
      BY <3>1
    <3> QED  BY <2>2, <3>2
  <2> QED  BY <2>1, <2>2
<1>3. HeadsGone'
  <2> SUFFICES ASSUME NEW c \in Conns, NEW e \in Conns, NEW n \in DOMAIN delivered'[c][e]
               PROVE  \E g \in 1 .. consumed[e] :
                        /\ IsHead(Cell(e, g))
                        /\ Pack(Cell(e, g)) = delivered'[c][e][n]
                        /\ Gone(Cell(e, g))'
    BY DEF HeadsGone
  <2>1. CASE n \in DOMAIN delivered[c][e] /\ delivered'[c][e][n] = delivered[c][e][n]
    <3>1. PICK g \in 1 .. consumed[e] :
            /\ IsHead(Cell(e, g)) /\ Pack(Cell(e, g)) = delivered[c][e][n]
            /\ Gone(Cell(e, g))
      BY <2>1 DEF Once, HeadsGone
    <3>2. Gone(Cell(e, g))'
      BY <3>1
    <3> QED  BY <2>1, <3>1, <3>2
  <2>2. CASE c = k /\ e = d /\ n = Len(s) + 1 /\ delivered'[c][e][n] = p
    <3>1. e = d /\ delivered'[c][e][n] = Pack(Cell(d, h))
      BY <2>2
    <3>2. PICK v : v = Cell(d, h)
      OBVIOUS
    <3>3. Gone(v)'
      BY <3>2
    <3>4. Gone(Cell(d, h))'
      BY <3>2, <3>3
    <3> QED  BY <3>1, <3>4
  <2> QED  BY <1>2, <2>1, <2>2
<1>4. DeliveredOnce'
  <2> SUFFICES ASSUME NEW b \in Conns, NEW c \in Conns, NEW e \in Conns,
                      NEW i \in DOMAIN delivered'[b][e], NEW j \in DOMAIN delivered'[c][e],
                      delivered'[b][e][i] = delivered'[c][e][j]
               PROVE  b = c /\ i = j
    BY DEF DeliveredOnce
  <2> DEFINE Before0(a, n) == /\ n \in DOMAIN delivered[a][e]
                              /\ delivered'[a][e][n] = delivered[a][e][n]
             Now0(a, n) == /\ a = k /\ e = d /\ n = Len(s) + 1
                           /\ delivered'[a][e][n] = p
  <2>1. (Before0(b, i) \/ Now0(b, i)) /\ (Before0(c, j) \/ Now0(c, j))
    BY <1>2
  <2>2. CASE Before0(b, i) /\ Before0(c, j)
    <3>1. /\ i \in DOMAIN delivered[b][e] /\ j \in DOMAIN delivered[c][e]
          /\ delivered[b][e][i] = delivered[c][e][j]
      BY <2>2
    <3> QED  BY <3>1 DEF Once, DeliveredOnce
  <2>3. CASE Now0(b, i) /\ Now0(c, j)
    BY <2>3
  <2>4. CASE Before0(b, i) /\ Now0(c, j)
    <3>1. e = d /\ i \in DOMAIN delivered[b][e] /\ delivered[b][e][i] = p
      BY <2>4
    <3> QED  BY <1>1, <3>1
  <2>5. CASE Now0(b, i) /\ Before0(c, j)
    <3>1. e = d /\ j \in DOMAIN delivered[c][e] /\ delivered[c][e][j] = p
      BY <2>5
    <3> QED  BY <1>1, <3>1
  <2> QED  BY <2>1, <2>2, <2>3, <2>4, <2>5
<1> QED  BY <1>3, <1>4 DEF Once

\* The head of the pack that comes out is gone then, and was not before.
LEMMA PackKeepsOnce ==
  ASSUME TypeOK, Once, NEW r \in Readers, ParsePack(r)
  PROVE  Once'
<1>1. PICK k \in Conns : k = reader[r].key
  BY ReaderFacts DEF ParsePack
<1>2. PICK x \in Seq(Cells) : x = cache[k]
  BY CellFacts
<1>3. PICK y : y = SubSeq(x, PackCells + 1, Len(x))
  OBVIOUS
<1>4. /\ UNCHANGED <<consumed, reader>> /\ HasPack(x)
      /\ cache' = [cache EXCEPT ![k] = y]
      /\ delivered' = [delivered EXCEPT ![k][x[1].conn] = Append(@, Pack(x[1]))]
      /\ delivered \in [Conns -> [Conns -> Seq(Int)]]
  BY <1>1, <1>2, <1>3 DEF ParsePack, TypeOK, InTypes
<1>5. /\ PackCells \in Nat \ {0} /\ x # <<>> /\ 1 \in DOMAIN x
      /\ PackCells \in 0 .. Len(x) /\ IsHead(x[1])
  <2>1. PackCells \in Nat \ {0}
    BY SizesAssumption
  <2>2. x # <<>> /\ Len(x) >= PackCells /\ IsHead(x[1])
    BY <1>4 DEF HasPack, StartsAtHead
  <2> QED  BY <2>1, <2>2
<1>6. PICK d \in Conns, h \in Nat : x[1] = Cell(d, h)
  <2>1. x[1] \in Cells
    BY <1>5
  <2> QED  BY <2>1 DEF Cells, Cell
<1>7. x[1].conn = d /\ x[1].pos = h
  BY <1>6 DEF Cell
<1>8. h \in 1 .. consumed[d]
  <2>1. 1 \in DOMAIN cache[k] /\ cache[k][1] = x[1]
    BY <1>2, <1>5
  <2>2. cache[k][1].pos \in 1 .. consumed[cache[k][1].conn]
    BY <2>1 DEF Once, CellsSeen
  <2> QED  BY <1>7, <2>1, <2>2
<1>9. IsHead(Cell(d, h)) /\ ~Gone(Cell(d, h))
  <2>1. 1 \in DOMAIN cache[k] /\ cache[k][1] = Cell(d, h)
    BY <1>2, <1>5, <1>6
  <2>2. ~Gone(Cell(d, h))
    BY <2>1 DEF Gone
  <2> QED  BY <1>5, <1>6, <2>2
<1>10. y \in Seq(Cells) /\ IsRest(y, x, PackCells)
  BY <1>3, <1>5, SubSeqIsRest
<1>11. \A q \in Readers : Chunk(q)' = Chunk(q)
  BY <1>4 DEF Chunk
<1>12. /\ CellsSeen' /\ CellsOnce' /\ \A v : Gone(v) => Gone(v)'
       /\ \A v : v = x[1] => Gone(v)'
  <2>1. IsRest(y, cache[k], PackCells) /\ consumed' = consumed
    BY <1>2, <1>4, <1>10
  <2>2. PackCells \in Nat /\ PackCells >= 1
    BY <1>5
  <2>3. /\ CellsSeen' /\ CellsOnce' /\ \A v : Gone(v) => Gone(v)'
        /\ \A v : v = cache[k][1] => Gone(v)'
    BY <1>4, <1>10, <1>11, <2>1, <2>2, FrontLeaves
  <2> QED  BY <1>2, <2>3
<1>13. \A v : v = Cell(d, h) => Gone(v)'
  BY <1>6, <1>12
<1>14. PICK s, p : s = delivered[k][d] /\ p = Pack(Cell(d, h))
  OBVIOUS
<1>15. /\ delivered'[k][d] = Append(s, p)
       /\ \A c, e \in Conns : c # k \/ e # d => delivered'[c][e] = delivered[c][e]
  <2>1. delivered' = [delivered EXCEPT ![k] = [delivered[k] EXCEPT ![d] = Append(s, p)]]
    BY <1>4, <1>6, <1>7, <1>14
  <2>2. delivered'[k] = [delivered[k] EXCEPT ![d] = Append(s, p)]
    BY <1>4, <2>1
  <2>3. delivered'[k][d] = Append(s, p)
    BY <1>4, <2>2
  <2>4. ASSUME NEW c \in Conns, NEW e \in Conns, c # k \/ e # d
        PROVE  delivered'[c][e] = delivered[c][e]
    <3>1. CASE c # k
      BY <1>4, <2>1, <3>1
    <3>2. CASE c = k /\ e # d
      BY <1>4, <2>2, <3>2
    <3> QED  BY <2>4, <3>1, <3>2
  <2> QED  BY <2>3, <2>4
<1>16. consumed' = consumed
  BY <1>4
<1>17. CellsSeen' /\ CellsOnce'
  BY <1>12
<1>18. \A v : Gone(v) => Gone(v)'
  BY <1>12
<1> QED
  BY <1>8, <1>9, <1>13, <1>14, <1>15, <1>16, <1>17, <1>18, PackDelivered

LEMMA GarbageKeepsOnce ==
  ASSUME TypeOK, Once, NEW r \in Readers, ParseGarbage(r)
  PROVE  Once'
<1> DEFINE k == reader[r].key
<1>1. UNCHANGED <<consumed, delivered>> /\ reader[r].at = "parsing" /\ k \in Conns
  BY ReaderFacts DEF ParseGarbage
<1>2. PICK y \in Seq(Cells), m \in 0 .. Len(cache[k]) :
        cache' = [cache EXCEPT ![k] = y] /\ IsRest(y, cache[k], m)
  BY GarbageLeaves
<1>3. m \in Nat
  BY <1>1, CellFacts
<1>4. reader'[r] = AfterRead(r) /\ \A q \in Readers \ {r} : reader'[q] = reader[q]
  BY DEF TypeOK, InTypes, ParseGarbage
<1>5. \A q \in Readers : Chunk(q)' = Chunk(q)
  <2>1. reader'[r].at # "adding"
    BY <1>4, ReadingFacts DEF AfterRead
  <2> QED  BY <1>1, <1>4, <2>1 DEF Chunk
<1>6. CellsSeen' /\ CellsOnce' /\ \A v : Gone(v) => Gone(v)'
  BY <1>1, <1>2, <1>3, <1>5, FrontLeaves
<1>7. consumed' \in [Conns -> Nat] /\ \A d \in Conns : consumed[d] <= consumed'[d]
  BY <1>1, CellFacts
<1> QED  BY <1>1, <1>6, <1>7, NoneDelivered

LEMMA NextOnce ==
  ASSUME TypeOK, Once, [Next]_vars
  PROVE  Once'
<1> USE ReaderFacts, ReadingFacts, NowReaderFacts
<1>1. ASSUME NEW r \in Readers, ReaderStep(r)  PROVE Once'
  <2>1. CASE Read(r) \/ AddRead(r) \/ ParsePack(r) \/ ParseGarbage(r)
    BY <2>1, ReadKeepsOnce, AddKeepsOnce, PackKeepsOnce, GarbageKeepsOnce
  <2>2. CASE \/ \E c \in {NoConn} \union Conns : ReadPop(r, c)
             \/ ReadNothing(r) \/ ReadFails(r) \/ ReadFailed(r)
             \/ AddNowhere(r) \/ ParseEnd(r) \/ Rearm(r)
    <3>1. UNCHANGED <<consumed, cache, delivered>>
      BY <2>2 DEF ReadPop, ReadNothing, ReadFails, ReadFailed, AddNowhere, ParseEnd, Rearm
    <3>2. reader \in [Readers -> ReaderStates]
      BY DEF TypeOK, InTypes
    <3>3. \A q \in Readers \ {r} : reader'[q] = reader[q]
      BY <2>2, <3>2
         DEF ReadPop, ReadNothing, ReadFails, ReadFailed, AddNowhere, ParseEnd, Rearm
    <3>4. reader'[r].at # "adding"
      BY <2>2, <3>2
         DEF ReadPop, ReadNothing, ReadFails, ReadFailed, AddNowhere, ParseEnd, Rearm,
             AfterRead, IdleReader
    <3>5. \A q \in Readers : Chunk(q)' = Chunk(q) \/ Chunk(q)' = <<>>
      BY <3>3, <3>4 DEF Chunk
    <3> QED  BY <3>1, <3>5, SameCachesKeepOnce
  <2> QED  BY <1>1, <2>1, <2>2 DEF ReaderStep
<1>2. CASE \/ DropBuffer \/ CloseFd \/ Open \/ EpollStep \/ PeerSends
           \/ \E s \in Senders, c \in Conns : SendOneMessage(s, c)
           \/ \E s \in Senders : PushWrite(s)
           \/ \E w \in Writers : WriterStep(w)
           \/ \E c \in Conns : PeerTakes(c)
           \/ UNCHANGED vars
  <2>1. UNCHANGED <<consumed, cache, delivered, reader>>
    BY <1>2
       DEF DropBuffer, CloseFd, Open, EpollStep, EpollWait, EpollIn, EpollOut, EpollWrite,
           PeerSends, SendOneMessage, PushWrite, PeerTakes, WriterStep, WritePop,
           WriteCopy, WriteCell, WriteFull, WritePopped, WriteFails, WriteFailed, inVars,
           vars
  <2>2. \A q \in Readers : Chunk(q)' = Chunk(q)
    BY <2>1 DEF Chunk
  <2> QED  BY <2>1, <2>2, SameCachesKeepOnce
<1> QED  BY <1>1, <1>2 DEF Next, Working

\* No pack comes out twice, on one connection or on two, however many threads
\* read the descriptor and whatever connections use it after each other.
THEOREM NoneTwice == Spec => []DeliveredOnce
<1>1. Init => TypeOK /\ Once  BY InitTypeOK, InitOnce
<1>2. TypeOK /\ Once /\ [Next]_vars => TypeOK' /\ Once'
  BY NextTypeOK, NextOnce
<1>3. Once => DeliveredOnce  BY DEF Once
<1> QED  BY <1>1, <1>2, <1>3, PTL DEF Spec

=============================================================================
