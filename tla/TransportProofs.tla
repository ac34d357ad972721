-------------------------- MODULE TransportProofs --------------------------
(***************************************************************************)
(* That what is pushed for a connection is written to it in order, for any *)
(* number of threads, connections and packs, and however often the         *)
(* descriptor is closed and reused.                                        *)
(***************************************************************************)
EXTENDS Transport, TLAPS

(***************************************************************************)
(* Types of the parts.                                                     *)
(***************************************************************************)

LEMMA KeyType ==
  /\ Conns \subseteq Keys /\ NoConn \in Keys /\ NoConn \notin Conns
  /\ Keys = {NoConn} \union Conns
BY SizesAssumption DEF Conns, Keys, NoConn

LEMMA CellType ==
  ASSUME NEW c \in Conns, NEW n \in Nat
  PROVE  Cell(c, n) \in Cells /\ Cell(c, n).conn = c /\ Cell(c, n).pos = n
BY DEF Cell, Cells

LEMMA LeastType ==
  ASSUME NEW m \in Nat, NEW n \in Nat
  PROVE  /\ Least(m, n) \in Nat /\ Least(m, n) <= m /\ Least(m, n) <= n
         /\ m <= n => Least(m, n) = m
BY DEF Least

LEMMA WithType ==
  ASSUME NEW Q \in [Keys -> Nat], NEW c \in Keys
  PROVE  With(Q, c) \in [Keys -> Nat]
BY DEF With

LEMMA WithoutType ==
  ASSUME NEW Q \in [Keys -> Nat], NEW c \in Keys, Q[c] > 0
  PROVE  Without(Q, c) \in [Keys -> Nat]
BY DEF Without

LEMMA WritingType ==
  ASSUME NEW at \in {"idle", "waiting", "writing", "popping", "failed"},
         NEW c \in Keys, NEW from \in Nat, NEW upto \in Nat
  PROVE  LET x == Writing(at, c, from, upto) IN
         /\ x \in WriterStates
         /\ x.at = at /\ x.key = c /\ x.from = from /\ x.upto = upto /\ x.done = 0
BY DEF Writing, WriterStates

LEMMA IdleWriterType == IdleWriter \in WriterStates /\ IdleWriter.at = "idle"
BY WritingType, KeyType DEF IdleWriter

LEMMA NowType ==
  ASSUME NEW x \in WriterStates,
         NEW at \in {"idle", "waiting", "writing", "popping", "failed"}
  PROVE  LET y == Now(x, at) IN
         /\ y \in WriterStates
         /\ y.at = at /\ y.key = x.key /\ y.from = x.from /\ y.upto = x.upto
         /\ y.done = x.done
BY DEF Now, WriterStates

LEMMA OneMoreType ==
  ASSUME NEW x \in WriterStates
  PROVE  LET y == OneMore(x) IN
         /\ y \in WriterStates
         /\ y.at = x.at /\ y.key = x.key /\ y.from = x.from /\ y.upto = x.upto
         /\ y.done = x.done + 1
BY DEF OneMore, WriterStates

LEMMA ReadingType ==
  ASSUME NEW at \in {"idle", "reading", "adding", "parsing", "rearm", "failed"},
         NEW c \in Keys
  PROVE  Reading(at, c) \in ReaderStates /\ Reading(at, c).at = at
BY DEF Reading, ReaderStates

LEMMA NowReaderType ==
  ASSUME NEW x \in ReaderStates,
         NEW at \in {"idle", "reading", "adding", "parsing", "rearm", "failed"}
  PROVE  LET y == Now(x, at) IN
         y \in ReaderStates /\ y.at = at /\ y.key = x.key
BY DEF Now, ReaderStates

\* CorrectCache leaves a tail of the cache.
LEMMA CorrectedType ==
  ASSUME NEW x \in Seq(Cells), NEW y \in Corrected(x)
  PROVE  y \in Seq(Cells)
<1>1. \A i \in DOMAIN x : SubSeq(x, i + 1, Len(x)) \in Seq(Cells)
  OBVIOUS
<1>2. CASE \E i \in DOMAIN x : IsEnd(x[i])
  <2>1. PICK i \in DOMAIN x : y = SubSeq(x, i + 1, Len(x))
    BY <1>2, Zenon DEF Corrected
  <2> QED  BY <1>1, <2>1
<1>3. CASE ~\E i \in DOMAIN x : IsEnd(x[i])
  <2>1. y = <<>>  BY <1>3, Zenon DEF Corrected
  <2> QED  BY <2>1
<1> QED  BY <1>2, <1>3

\* One thread's state is replaced by x.
WriterNow(w, x) == writer' = [writer EXCEPT ![w] = x]
ReaderNow(r, x) == reader' = [reader EXCEPT ![r] = x]

WriterTypes ==
  /\ writer \in [Writers -> WriterStates]
  /\ \A w \in Writers : writer[w].at # "idle" => writer[w].key \in Conns
ReaderTypes ==
  /\ reader \in [Readers -> ReaderStates]
  /\ \A r \in Readers : reader[r].at = "parsing" => reader[r].key \in Conns

LEMMA WriterNowType ==
  ASSUME WriterTypes, NEW w \in Writers, NEW x \in WriterStates,
         x.at # "idle" => x.key \in Conns, WriterNow(w, x)
  PROVE  /\ WriterTypes' /\ writer'[w] = x
         /\ \A v \in Writers \ {w} : writer'[v] = writer[v]
BY DEF WriterTypes, WriterNow

LEMMA ReaderNowType ==
  ASSUME ReaderTypes, NEW r \in Readers, NEW x \in ReaderStates,
         x.at = "parsing" => x.key \in Conns, ReaderNow(r, x)
  PROVE  ReaderTypes'
BY DEF ReaderTypes, ReaderNow

\* The load's packs are counted in numbers.
LEMMA LoadType ==
  ASSUME ConnTypes, NEW c \in Conns
  PROVE  load.out[c] \in Nat /\ load.in[c] \in Nat /\ load.conns \in Conns
<1>1. load \in [conns : 1 .. MaxConns, out : [1 .. MaxConns -> 0 .. MaxPacks],
                in : [1 .. MaxConns -> 0 .. MaxPacks]]
  BY SizesAssumption DEF ConnTypes
<1> QED  BY <1>1, SizesAssumption DEF Conns

LEMMA InitTypeOK == Init => TypeOK
<1> SUFFICES ASSUME Init  PROVE TypeOK
  OBVIOUS
<1>1. ConnTypes
  BY SizesAssumption DEF Init, ConnTypes, Conns, Keys, NoConn
<1>2. OutTypes
  <2>1. writer \in [Writers -> WriterStates]
    BY IdleWriterType DEF Init
  <2>2. \A w \in Writers : writer[w].at # "idle" => writer[w].key \in Conns
    BY IdleWriterType DEF Init
  <2>3. /\ put \in [Conns -> Seq(Cells)] /\ received \in [Conns -> Seq(Int)]
        /\ writeQ \in [Keys -> Nat]
    BY DEF Init, Keys
  <2> QED  BY <2>1, <2>2, <2>3, KeyType DEF Init, OutTypes
<1>3. EpollTypes
  BY KeyType DEF Init, EpollTypes
<1>4. InTypes
  BY KeyType, ReadingType DEF Init, InTypes, IdleReader, Keys
<1> QED  BY <1>1, <1>2, <1>3, <1>4 DEF TypeOK

\* What no step of an action touches keeps its types.
LEMMA Untouched ==
  ASSUME TypeOK
  PROVE  /\ UNCHANGED <<load, conn, opened, buffers>> => ConnTypes'
         /\ UNCHANGED outVars => OutTypes'
         /\ UNCHANGED epollVars => EpollTypes'
         /\ UNCHANGED inVars => InTypes'
BY DEF TypeOK, ConnTypes, OutTypes, EpollTypes, InTypes, outVars, epollVars,
       inVars

LEMMA NextTypeOK == TypeOK /\ [Next]_vars => TypeOK'
<1> SUFFICES ASSUME TypeOK, [Next]_vars  PROVE TypeOK'
  OBVIOUS
<1> USE KeyType, Untouched
<1>a. WriterTypes /\ ReaderTypes
  BY DEF TypeOK, OutTypes, InTypes, WriterTypes, ReaderTypes
<1>1. CASE DropBuffer
  <2>1. ConnTypes'
    BY <1>1 DEF TypeOK, ConnTypes, DropBuffer
  <2> QED  BY <1>1, <2>1 DEF TypeOK, DropBuffer
<1>2. CASE CloseFd
  <2>1. ConnTypes'
    BY <1>2 DEF TypeOK, ConnTypes, CloseFd, Closed
  <2>2. OutTypes'
    BY <1>2 DEF TypeOK, OutTypes, CloseFd, Closed
  <2>3. EpollTypes'
    BY <1>2 DEF TypeOK, ConnTypes, EpollTypes, CloseFd, Closed
  <2> QED  BY <1>2, <2>1, <2>2, <2>3 DEF TypeOK, CloseFd
<1>3. CASE Open
  <2>1. ConnTypes'
      <3>1. opened + 1 \in Conns
      BY <1>3, LoadType, SizesAssumption DEF TypeOK, ConnTypes, Open, Conns
    <3> QED  BY <1>3, <3>1 DEF TypeOK, ConnTypes, Open
  <2>2. EpollTypes'
    BY <1>3 DEF TypeOK, ConnTypes, EpollTypes, Open
  <2> QED  BY <1>3, <2>1, <2>2 DEF TypeOK, Open
<1>4. ASSUME NEW s \in Senders, NEW c \in Conns, SendOneMessage(s, c)  PROVE TypeOK'
  <2>1. OutTypes'
    <3>1. sending' \in [Senders -> Keys]
      BY <1>4 DEF TypeOK, OutTypes, SendOneMessage
    <3>2. pushed' \in [Conns -> Nat]
      BY <1>4, SizesAssumption DEF TypeOK, OutTypes, SendOneMessage
    <3> QED  BY <1>4, <3>1, <3>2 DEF TypeOK, OutTypes, SendOneMessage
  <2> QED  BY <1>4, <2>1 DEF TypeOK, SendOneMessage
<1>5. ASSUME NEW s \in Senders, PushWrite(s)  PROVE TypeOK'
  <2>1. OutTypes'
    BY <1>5, WithType DEF TypeOK, OutTypes, PushWrite
  <2> QED  BY <1>5, <2>1 DEF TypeOK, PushWrite
<1>6. ASSUME NEW w \in Writers, NEW c \in Conns, WritePop(w, c)  PROVE TypeOK'
  <2>1. OutTypes'
    <3>1. /\ Writing("waiting", c, 0, 0) \in WriterStates
          /\ Writing("waiting", c, 0, 0).key = c
      BY WritingType
    <3>2. WriterTypes'
      <4>1. CASE c \in buffers
        BY <1>6, <1>a, <3>1, <4>1, WriterNowType DEF WriterNow, WritePop
      <4>2. CASE c \notin buffers
        BY <1>6, <1>a, <4>2 DEF WriterTypes, WritePop
      <4> QED  BY <4>1, <4>2
    <3> QED  BY <1>6, <3>2, WithoutType DEF TypeOK, OutTypes, WriterTypes, WritePop
  <2> QED  BY <1>6, <2>1 DEF TypeOK, WritePop
<1>7. ASSUME NEW w \in Writers, WriteCopy(w)  PROVE TypeOK'
  <2>1. OutTypes'
    <3> DEFINE c == writer[w].key
    <3>1. c \in Conns
      BY <1>7, <1>a DEF WriterTypes, WriteCopy
    <3>2. WriterTypes'
      <4>1. CASE c \in buffers /\ popped[c] < pushed[c]
        <5>1. c \in Keys /\ popped[c] \in Nat /\ pushed[c] \in Nat
          BY <3>1 DEF TypeOK, OutTypes
        <5>2. LET x == Writing("writing", c, popped[c], pushed[c])
              IN  x \in WriterStates /\ x.key = c
          BY <5>1, WritingType
        <5> QED
          BY <1>7, <1>a, <3>1, <4>1, <5>2, WriterNowType DEF WriterNow, WriteCopy
      <4>2. CASE ~(c \in buffers /\ popped[c] < pushed[c])
        BY <1>7, <1>a, <4>2, IdleWriterType, WriterNowType DEF WriterNow, WriteCopy
      <4> QED  BY <4>1, <4>2
    <3> QED  BY <1>7, <3>2 DEF TypeOK, OutTypes, WriterTypes, WriteCopy
  <2> QED  BY <1>7, <2>1 DEF TypeOK, WriteCopy
<1>8. ASSUME NEW w \in Writers, WriteCell(w)  PROVE TypeOK'
  <2>1. OutTypes'
    <3>1. OneMore(writer[w]) \in WriterStates
          /\ (OneMore(writer[w]).at # "idle" => OneMore(writer[w]).key \in Conns)
      BY <1>8, <1>a, OneMoreType DEF WriterTypes, WriteCell, Unwritten
    <3>2. WriterTypes'
      BY <1>8, <1>a, <3>1, WriterNowType DEF WriterNow, WriteCell
    <3>3. put' \in [Conns -> Seq(Cells)]
      <4>1. writer[w] \in WriterStates /\ writer[w].key \in Conns
        BY <1>8, <1>a DEF WriterTypes, WriteCell, Unwritten
      <4>2. Cell(writer[w].key, writer[w].from + writer[w].done + 1) \in Cells
        BY <4>1, CellType DEF WriterStates
      <4> QED  BY <1>8, <4>2 DEF TypeOK, ConnTypes, OutTypes, WriteCell, Writable
    <3> QED  BY <1>8, <3>2, <3>3
         DEF TypeOK, ConnTypes, OutTypes, WriterTypes, WriteCell, Writable
  <2> QED  BY <1>8, <2>1 DEF TypeOK, WriteCell
<1>9. ASSUME NEW w \in Writers, WriteFull(w)  PROVE TypeOK'
  <2>1. OutTypes'
    <3>1. Now(writer[w], "popping") \in WriterStates
          /\ (Now(writer[w], "popping").at # "idle" => Now(writer[w], "popping").key \in Conns)
      BY <1>9, <1>a, NowType DEF WriterTypes, WriteFull, Unwritten
    <3>2. WriterTypes'
      BY <1>9, <1>a, <3>1, WriterNowType DEF WriterNow, WriteFull
    <3> QED  BY <1>9, <3>2 DEF TypeOK, OutTypes, WriterTypes, WriteFull
  <2> QED  BY <1>9, <2>1 DEF TypeOK, WriteFull
<1>10. ASSUME NEW w \in Writers, WritePopped(w)  PROVE TypeOK'
  <2>1. OutTypes'
    <3>1. IdleWriter \in WriterStates
          /\ (IdleWriter.at # "idle" => IdleWriter.key \in Conns)
      BY <1>10, <1>a, IdleWriterType DEF WriterTypes, WritePopped
    <3>2. WriterTypes'
      BY <1>10, <1>a, <3>1, WriterNowType DEF WriterNow, WritePopped
    <3>3. popped' \in [Conns -> Nat]
      <4> DEFINE c == writer[w].key
      <4>1. c \in Conns /\ writer[w].done \in Nat
        BY <1>10, <1>a DEF WriterTypes, WriterStates, WritePopped
      <4>2. popped[c] + writer[w].done \in Nat /\ pushed[c] \in Nat
        <5>1. popped \in [Conns -> Nat] /\ pushed \in [Conns -> Nat]
          BY DEF TypeOK, OutTypes
        <5> QED  BY <4>1, <5>1
      <4>3. Least(popped[c] + writer[w].done, pushed[c]) \in Nat
        BY <4>2, LeastType
      <4> QED  BY <1>10, <4>1, <4>3 DEF TypeOK, OutTypes, WritePopped
    <3> QED  BY <1>10, <3>2, <3>3 DEF TypeOK, OutTypes, WriterTypes, WritePopped
  <2> QED  BY <1>10, <2>1 DEF TypeOK, WritePopped
<1>11. ASSUME NEW w \in Writers, WriteFails(w)  PROVE TypeOK'
  <2>1. OutTypes'
    <3>1. Now(writer[w], "failed") \in WriterStates
          /\ (Now(writer[w], "failed").at # "idle" => Now(writer[w], "failed").key \in Conns)
      BY <1>11, <1>a, NowType DEF WriterTypes, WriteFails, Unwritten
    <3>2. WriterTypes'
      BY <1>11, <1>a, <3>1, WriterNowType DEF WriterNow, WriteFails
    <3> QED  BY <1>11, <3>2 DEF TypeOK, OutTypes, WriterTypes, WriteFails
  <2> QED  BY <1>11, <2>1 DEF TypeOK, WriteFails
<1>12. ASSUME NEW w \in Writers, WriteFailed(w)  PROVE TypeOK'
  <2>1. ConnTypes'
    BY <1>12 DEF TypeOK, ConnTypes, WriteFailed, DeleteByFd, Closed
  <2>2. OutTypes'
    <3>1. IdleWriter \in WriterStates
          /\ (IdleWriter.at # "idle" => IdleWriter.key \in Conns)
      BY <1>12, <1>a, IdleWriterType DEF WriterTypes, WriteFailed
    <3>2. WriterTypes'
      BY <1>12, <1>a, <3>1, WriterNowType DEF WriterNow, WriteFailed
    <3> QED  BY <1>12, <3>2
         DEF TypeOK, OutTypes, WriterTypes, WriteFailed, DeleteByFd, Closed
  <2>3. EpollTypes'
    BY <1>12 DEF TypeOK, ConnTypes, EpollTypes, WriteFailed, DeleteByFd, Closed
  <2> QED  BY <1>12, <2>1, <2>2, <2>3 DEF TypeOK, WriteFailed, DeleteByFd, Closed
<1>13. CASE EpollWait
  <2>1. EpollTypes'
    BY <1>13 DEF TypeOK, ConnTypes, EpollTypes, EpollWait, Readable, Writable
  <2> QED  BY <1>13, <2>1 DEF TypeOK, EpollWait
<1>14. CASE EpollIn
  <2>1. EpollTypes'
    BY <1>14 DEF TypeOK, ConnTypes, EpollTypes, EpollIn
  <2>2. InTypes'
    BY <1>14, WithType DEF TypeOK, EpollTypes, InTypes, EpollIn
  <2> QED  BY <1>14, <2>1, <2>2 DEF TypeOK, EpollIn
<1>15. CASE EpollOut
  <2>1. EpollTypes'
    BY <1>15 DEF TypeOK, ConnTypes, EpollTypes, EpollOut
  <2> QED  BY <1>15, <2>1 DEF TypeOK, EpollOut
<1>16. CASE EpollWrite
  <2>1. OutTypes'
    BY <1>16, WithType DEF TypeOK, EpollTypes, OutTypes, EpollWrite
  <2>2. EpollTypes'
    BY <1>16 DEF TypeOK, ConnTypes, EpollTypes, EpollWrite
  <2> QED  BY <1>16, <2>1, <2>2 DEF TypeOK, EpollWrite
<1>17. ASSUME NEW r \in Readers, NEW c \in Keys, ReadPop(r, c)  PROVE TypeOK'
  <2>1. InTypes'
    <3>1. Reading("reading", c) \in ReaderStates
          /\ (Reading("reading", c).at = "parsing" => Reading("reading", c).key \in Conns)
      BY <1>17, <1>a, ReadingType DEF ReaderTypes
    <3>2. ReaderTypes'
      BY <1>17, <1>a, <3>1, ReaderNowType DEF ReaderNow, ReadPop
    <3> QED  BY <1>17, <3>2, WithoutType DEF TypeOK, InTypes, ReaderTypes, ReadPop
  <2> QED  BY <1>17, <2>1 DEF TypeOK, ReadPop
<1>18. ASSUME NEW r \in Readers, Read(r)  PROVE TypeOK'
  <2>1. InTypes'
    <3> DEFINE n == Least(MaxLine, arrived[conn] - consumed[conn])
               y == [i \in 1 .. n |-> Cell(conn, consumed[conn] + i)]
               x == [at |-> "adding", key |-> reader[r].key, chunk |-> y]
    <3>1. conn \in Conns /\ n \in Nat
      <4>1. conn \in Conns
        BY <1>18 DEF TypeOK, ConnTypes, Read, Readable
      <4>2. arrived[conn] - consumed[conn] \in Nat
        BY <1>18, <4>1 DEF TypeOK, InTypes, Read, Readable
      <4> QED  BY <4>1, <4>2, LeastType, SizesAssumption
    <3>2. \A i \in 1 .. n : Cell(conn, consumed[conn] + i) \in Cells
      BY <3>1, CellType DEF TypeOK, InTypes
    <3>3. y \in Seq(Cells)
      BY <3>1, <3>2
    <3>4. x \in ReaderStates /\ x.at = "adding"
      BY <1>a, <3>3 DEF ReaderTypes, ReaderStates
    <3>5. ReaderTypes'
      BY <1>18, <1>a, <3>4, ReaderNowType, Zenon DEF ReaderNow, Read
    <3>6. consumed' \in [Conns -> Nat]
      BY <1>18, <3>1 DEF TypeOK, InTypes, Read
    <3> QED
      BY <1>18, <3>5, <3>6 DEF TypeOK, InTypes, ReaderTypes, Read
  <2> QED  BY <1>18, <2>1 DEF TypeOK, Read
<1>19. ASSUME NEW r \in Readers, ReadNothing(r)  PROVE TypeOK'
  <2>1. InTypes'
    <3>1. Now(reader[r], "rearm") \in ReaderStates
          /\ (Now(reader[r], "rearm").at = "parsing" => Now(reader[r], "rearm").key \in Conns)
      BY <1>19, <1>a, NowReaderType DEF ReaderTypes
    <3>2. ReaderTypes'
      BY <1>19, <1>a, <3>1, ReaderNowType DEF ReaderNow, ReadNothing
    <3> QED  BY <1>19, <3>2 DEF TypeOK, InTypes, ReaderTypes, ReadNothing
  <2> QED  BY <1>19, <2>1 DEF TypeOK, ReadNothing
<1>20. ASSUME NEW r \in Readers, ReadFails(r)  PROVE TypeOK'
  <2>1. InTypes'
    <3>1. Now(reader[r], "failed") \in ReaderStates
          /\ (Now(reader[r], "failed").at = "parsing" => Now(reader[r], "failed").key \in Conns)
      BY <1>20, <1>a, NowReaderType DEF ReaderTypes
    <3>2. ReaderTypes'
      BY <1>20, <1>a, <3>1, ReaderNowType DEF ReaderNow, ReadFails
    <3> QED  BY <1>20, <3>2 DEF TypeOK, InTypes, ReaderTypes, ReadFails
  <2> QED  BY <1>20, <2>1 DEF TypeOK, ReadFails
<1>21. ASSUME NEW r \in Readers, ReadFailed(r)  PROVE TypeOK'
  <2>1. ConnTypes'
    BY <1>21 DEF TypeOK, ConnTypes, ReadFailed, DeleteByFd, Closed
  <2>2. OutTypes'
    BY <1>21 DEF TypeOK, OutTypes, ReadFailed, DeleteByFd, Closed
  <2>3. EpollTypes'
    BY <1>21 DEF TypeOK, ConnTypes, EpollTypes, ReadFailed, DeleteByFd, Closed
  <2>4. InTypes'
    <3>1. IdleReader \in ReaderStates
          /\ (IdleReader.at = "parsing" => IdleReader.key \in Conns)
      BY <1>21, <1>a, ReadingType DEF ReaderTypes, IdleReader
    <3>2. ReaderTypes'
      BY <1>21, <1>a, <3>1, ReaderNowType DEF ReaderNow, ReadFailed
    <3> QED  BY <1>21, <3>2 DEF TypeOK, InTypes, ReaderTypes, ReadFailed
  <2> QED  BY <1>21, <2>1, <2>2, <2>3, <2>4 DEF TypeOK, ReadFailed, DeleteByFd, Closed
<1>22. ASSUME NEW r \in Readers, AddRead(r)  PROVE TypeOK'
  <2>1. InTypes'
    <3>1. Now(reader[r], "parsing") \in ReaderStates
          /\ (Now(reader[r], "parsing").at = "parsing" => Now(reader[r], "parsing").key \in Conns)
      BY <1>22, <1>a, NowReaderType
           DEF TypeOK, ConnTypes, ReaderTypes, ReaderStates, AddRead
    <3>2. ReaderTypes'
      BY <1>22, <1>a, <3>1, ReaderNowType DEF ReaderNow, AddRead
    <3>3. cache' \in [Conns -> Seq(Cells)]
      <4>1. reader[r].key \in Conns /\ reader[r].chunk \in Seq(Cells)
        BY <1>22, <1>a DEF TypeOK, ConnTypes, ReaderTypes, ReaderStates, AddRead
      <4> QED  BY <1>22, <4>1 DEF TypeOK, InTypes, AddRead
    <3> QED  BY <1>22, <3>2, <3>3 DEF TypeOK, ConnTypes, InTypes, ReaderTypes, AddRead
  <2> QED  BY <1>22, <2>1 DEF TypeOK, AddRead
<1>23. ASSUME NEW r \in Readers, AddNowhere(r)  PROVE TypeOK'
  <2>1. InTypes'
    <3>1. AfterRead(r) \in ReaderStates
          /\ (AfterRead(r).at = "parsing" => AfterRead(r).key \in Conns)
      BY <1>23, <1>a, ReadingType DEF ReaderTypes, ReaderStates, AfterRead
    <3>2. ReaderTypes'
      BY <1>23, <1>a, <3>1, ReaderNowType DEF ReaderNow, AddNowhere
    <3> QED  BY <1>23, <3>2 DEF TypeOK, InTypes, ReaderTypes, AddNowhere
  <2> QED  BY <1>23, <2>1 DEF TypeOK, AddNowhere
<1>24. ASSUME NEW r \in Readers, ParsePack(r)  PROVE TypeOK'
  <2>1. InTypes'
    <3> DEFINE c == reader[r].key
    <3>1. c \in Conns
      BY <1>24, <1>a DEF ReaderTypes, ParsePack
    <3>2. cache[c] \in Seq(Cells) /\ cache[c] # <<>> /\ Len(cache[c]) >= PackCells
      BY <1>24, <3>1 DEF TypeOK, InTypes, ParsePack, HasPack, StartsAtHead
    <3>3. SubSeq(cache[c], PackCells + 1, Len(cache[c])) \in Seq(Cells)
      BY <3>2, SizesAssumption
    <3>4. cache[c][1].conn \in Conns /\ Pack(cache[c][1]) \in Int
      <4>1. cache[c][1] \in Cells
        BY <3>2
      <4> QED  BY <4>1, SizesAssumption DEF Cells, Pack
    <3>5. cache' \in [Conns -> Seq(Cells)]
      BY <1>24, <3>1, <3>3 DEF TypeOK, InTypes, ParsePack
    <3>6. delivered' \in [Conns -> [Conns -> Seq(Int)]]
      <4> DEFINE d == cache[c][1].conn
                 x == Append(delivered[c][d], Pack(cache[c][1]))
      <4>1. delivered \in [Conns -> [Conns -> Seq(Int)]]
        BY DEF TypeOK, InTypes
      <4>2. x \in Seq(Int)
        BY <3>1, <3>4, <4>1
      <4>3. delivered' = [delivered EXCEPT ![c][d] = x]
        BY <1>24 DEF ParsePack
      <4> HIDE DEF x, d
      <4> QED  BY <4>1, <4>2, <4>3
    <3> QED
      BY <1>24, <3>5, <3>6 DEF TypeOK, InTypes, ParsePack
  <2> QED  BY <1>24, <2>1 DEF TypeOK, ParsePack
<1>25. ASSUME NEW r \in Readers, ParseEnd(r)  PROVE TypeOK'
  <2>1. InTypes'
    <3>1. AfterRead(r) \in ReaderStates
          /\ (AfterRead(r).at = "parsing" => AfterRead(r).key \in Conns)
      BY <1>25, <1>a, ReadingType DEF ReaderTypes, ReaderStates, AfterRead
    <3>2. ReaderTypes'
      BY <1>25, <1>a, <3>1, ReaderNowType DEF ReaderNow, ParseEnd
    <3> QED  BY <1>25, <3>2 DEF TypeOK, InTypes, ReaderTypes, ParseEnd
  <2> QED  BY <1>25, <2>1 DEF TypeOK, ParseEnd
<1>26. ASSUME NEW r \in Readers, ParseGarbage(r)  PROVE TypeOK'
  <2>1. InTypes'
    <3>1. AfterRead(r) \in ReaderStates
          /\ (AfterRead(r).at = "parsing" => AfterRead(r).key \in Conns)
      BY <1>26, <1>a, ReadingType DEF ReaderTypes, ReaderStates, AfterRead
    <3>2. ReaderTypes'
      BY <1>26, <1>a, <3>1, ReaderNowType DEF ReaderNow, ParseGarbage
    <3>3. cache' \in [Conns -> Seq(Cells)]
      <4>1. reader[r].key \in Conns
        BY <1>26, <1>a DEF ReaderTypes, ParseGarbage
      <4>2. cache[reader[r].key] \in Seq(Cells) /\ cache[reader[r].key] # <<>>
        BY <1>26, <4>1 DEF TypeOK, InTypes, ParseGarbage
      <4>3. Tail(cache[reader[r].key]) \in Seq(Cells)
        BY <4>2
      <4>4. PICK x \in Seq(Cells) : cache' = [cache EXCEPT ![reader[r].key] = x]
        BY <1>26, <4>2, <4>3, CorrectedType DEF ParseGarbage
      <4> QED  BY <4>1, <4>4 DEF TypeOK, InTypes
    <3> QED  BY <1>26, <3>2, <3>3 DEF TypeOK, InTypes, ReaderTypes, ParseGarbage
  <2> QED  BY <1>26, <2>1 DEF TypeOK, ParseGarbage
<1>27. ASSUME NEW r \in Readers, Rearm(r)  PROVE TypeOK'
  <2>1. EpollTypes'
    BY <1>27 DEF TypeOK, ConnTypes, EpollTypes, Rearm, Readable, Writable
  <2>2. InTypes'
    <3>1. IdleReader \in ReaderStates
          /\ (IdleReader.at = "parsing" => IdleReader.key \in Conns)
      BY <1>27, <1>a, ReadingType DEF ReaderTypes, IdleReader
    <3>2. ReaderTypes'
      BY <1>27, <1>a, <3>1, ReaderNowType DEF ReaderNow, Rearm
    <3> QED  BY <1>27, <3>2 DEF TypeOK, InTypes, ReaderTypes, Rearm
  <2> QED  BY <1>27, <2>1, <2>2 DEF TypeOK, Rearm
<1>28. ASSUME NEW c \in Conns, PeerTakes(c)  PROVE TypeOK'
  <2>1. OutTypes'
    <3>1. taken' \in [Conns -> Nat]
      BY <1>28 DEF TypeOK, OutTypes, PeerTakes
    <3>4. received' \in [Conns -> Seq(Int)]
      <4>1. taken[c] + 1 \in DOMAIN put[c] /\ put[c] \in Seq(Cells)
        BY <1>28 DEF TypeOK, OutTypes, PeerTakes
      <4>2. put[c][taken[c] + 1] \in Cells
        BY <4>1
      <4>3. Pack(put[c][taken[c] + 1]) \in Int
        BY <4>2, SizesAssumption DEF Cells, Pack
      <4>4. received \in [Conns -> Seq(Int)]
        BY DEF TypeOK, OutTypes
      <4> QED  BY <1>28, <4>3, <4>4 DEF PeerTakes
    <3>3. noSpace' \in BOOLEAN
      BY <1>28 DEF TypeOK, OutTypes, PeerTakes
    <3>2. UNCHANGED <<sending, pushed, popped, put, writeQ, writer>>
      BY <1>28 DEF PeerTakes
    <3> QED  BY <3>1, <3>2, <3>3, <3>4 DEF TypeOK, OutTypes
  <2>2. EpollTypes'
    BY <1>28 DEF TypeOK, ConnTypes, EpollTypes, PeerTakes
  <2> QED  BY <1>28, <2>1, <2>2 DEF TypeOK, PeerTakes
<1>29. CASE PeerSends
  <2>1. EpollTypes'
    BY <1>29 DEF TypeOK, ConnTypes, EpollTypes, PeerSends
  <2>2. InTypes'
    <3>1. arrived' \in [Conns -> Nat]
      BY <1>29 DEF TypeOK, ConnTypes, InTypes, PeerSends
    <3>2. UNCHANGED <<consumed, readQ, reader, cache, delivered>>
      BY <1>29 DEF PeerSends
    <3> QED  BY <3>1, <3>2 DEF TypeOK, InTypes
  <2> QED  BY <1>29, <2>1, <2>2 DEF TypeOK, PeerSends
<1>30. CASE UNCHANGED vars
  BY <1>30 DEF TypeOK, vars
<1> QED
  BY <1>1, <1>2, <1>3, <1>4, <1>5, <1>6, <1>7, <1>8, <1>9, <1>10, <1>11, <1>12, <1>13, <1>14, <1>15, <1>16, <1>17, <1>18, <1>19, <1>20, <1>21, <1>22, <1>23, <1>24, <1>25, <1>26, <1>27, <1>28, <1>29, <1>30
     DEF Next, Working, WriterStep, EpollStep, ReaderStep, Keys

\* The parts of a connection's state have their types in every state.
THEOREM TypeCorrect == Spec => []TypeOK
<1>1. Init => TypeOK  BY InitTypeOK
<1>2. TypeOK /\ [Next]_vars => TypeOK'  BY NextTypeOK
<1> QED  BY <1>1, <1>2, PTL DEF Spec

(***************************************************************************)
(* The order in which the bytes of a connection are written.               *)
(***************************************************************************)

\* What the writer w has written of its key's _sendCache.
Front(w) == writer[w].from + writer[w].done

OneHolder ==
  \A v, w \in Writers : HoldsFdMutex(v) /\ HoldsFdMutex(w) => v = w

\* A number is given to a connection once.
KeysOpened ==
  /\ buffers \subseteq 1 .. opened
  /\ \A w \in Writers : writer[w].at # "idle" => writer[w].key <= opened
  /\ \A c \in Conns : c > opened => put[c] = <<>>

\* The holder's copy is the beginning of the cache still, if that is there; a
\* write fails when its connection is gone for good.
HolderSound ==
  \A w \in Writers : HoldsFdMutex(w) =>
    /\ Front(w) <= writer[w].upto /\ writer[w].upto <= pushed[writer[w].key]
    /\ writer[w].key \in buffers => popped[writer[w].key] = writer[w].from
    /\ writer[w].at = "failed" => writer[w].key # conn

\* What the open connection has been given is behind what its holder writes
\* next, or what the next holder will copy.
WrittenBehind ==
  conn # NoConn =>
    \A i \in DOMAIN put[conn] : put[conn][i].conn = conn =>
      /\ \A w \in Writers : HoldsFdMutex(w) /\ writer[w].key = conn =>
           put[conn][i].pos <= Front(w)
      /\ conn \in buffers /\ (\A w \in Writers : HoldsFdMutex(w) => writer[w].key # conn) =>
           put[conn][i].pos <= popped[conn]

WriteInv == OneHolder /\ KeysOpened /\ HolderSound /\ WrittenBehind /\ OwnInOrder

\* The writers' parts of the types.
LEMMA WriterFacts ==
  ASSUME TypeOK, NEW w \in Writers
  PROVE  /\ writer[w] \in WriterStates /\ writer[w].key \in Keys
         /\ writer[w].from \in Nat /\ writer[w].upto \in Nat /\ writer[w].done \in Nat
         /\ HoldsFdMutex(w) => writer[w].key \in Conns
BY DEF TypeOK, OutTypes, WriterStates, HoldsFdMutex

LEMMA InitWriteInv == Init => WriteInv
<1> SUFFICES ASSUME Init  PROVE WriteInv
  OBVIOUS
<1>1. \A w \in Writers : ~HoldsFdMutex(w) /\ writer[w].at = "idle"
  BY IdleWriterType DEF Init, HoldsFdMutex
<1>2. \A c \in Conns : put[c] = <<>>
  BY DEF Init
<1>3. conn = 1 /\ opened = 1 /\ buffers = {1} /\ 1 \in Conns
  BY SizesAssumption DEF Init, Conns
<1> QED
  BY <1>1, <1>2, <1>3
     DEF WriteInv, OneHolder, KeysOpened, HolderSound, WrittenBehind, OwnInOrder

\* Closing a connection, dropping a buffer and whatever is no write.
LEMMA ClosingKeepsWriteInv ==
  ASSUME TypeOK, WriteInv, UNCHANGED <<opened, pushed, popped, put, writer>>,
         conn' = conn \/ conn' = NoConn, buffers' \subseteq buffers
  PROVE  WriteInv'
<1> USE WriterFacts, KeyType
<1>1. OneHolder' /\ KeysOpened' /\ OwnInOrder'
  BY DEF WriteInv, OneHolder, KeysOpened, OwnInOrder, HoldsFdMutex
<1>2. HolderSound'
  BY DEF WriteInv, HolderSound, HoldsFdMutex, Front
<1>3. WrittenBehind'
  <2>1. CASE conn' = NoConn
    BY <2>1 DEF WrittenBehind
  <2>2. CASE conn' = conn /\ conn \in buffers => conn \in buffers'
    BY <2>2 DEF WriteInv, WrittenBehind, HoldsFdMutex, Front
  <2>3. CASE conn' = conn /\ conn \notin buffers'
    BY <2>3 DEF WriteInv, WrittenBehind, HoldsFdMutex, Front
  <2> QED  BY <2>1, <2>2, <2>3
<1> QED  BY <1>1, <1>2, <1>3 DEF WriteInv

LEMMA OpenKeepsWriteInv ==
  ASSUME TypeOK, WriteInv, Open
  PROVE  WriteInv'
<1> USE WriterFacts, KeyType
<1>1. /\ UNCHANGED <<pushed, popped, put, writer>> /\ conn' = opened + 1
      /\ opened' = opened + 1 /\ buffers' = buffers \union {opened + 1}
      /\ opened \in Nat /\ opened + 1 \in Conns
  BY LoadType, SizesAssumption DEF TypeOK, ConnTypes, Open, outVars, Conns
<1>2. OneHolder' /\ OwnInOrder'
  BY <1>1 DEF WriteInv, OneHolder, OwnInOrder, HoldsFdMutex
<1>3. KeysOpened'
  <2>1. \A w \in Writers : writer[w].at # "idle" =>
          writer[w].key \in Conns /\ writer[w].key <= opened
    BY DEF TypeOK, OutTypes, WriteInv, KeysOpened
  <2>2. \A w \in Writers : writer[w].at # "idle" => writer[w].key <= opened + 1
    BY <1>1, <2>1 DEF Conns
  <2>3. buffers' \subseteq 1 .. opened + 1
    <3>1. buffers \subseteq 1 .. opened
      BY DEF WriteInv, KeysOpened
    <3>2. opened + 1 \in 1 .. opened + 1 /\ 1 .. opened \subseteq 1 .. opened + 1
      BY <1>1
    <3>3. buffers' = buffers \union {opened + 1}
      BY <1>1
    <3> QED  BY <3>1, <3>2, <3>3, Zenon
  <2>4. \A c \in Conns : c > opened + 1 => put[c] = <<>>
    BY <1>1 DEF WriteInv, KeysOpened, Conns
  <2> QED  BY <1>1, <2>2, <2>3, <2>4 DEF KeysOpened
<1>4. HolderSound'
  <2> SUFFICES ASSUME NEW w \in Writers, HoldsFdMutex(w)
               PROVE  /\ Front(w) <= writer[w].upto
                      /\ writer[w].upto <= pushed[writer[w].key]
                      /\ writer[w].key \in buffers' =>
                           popped[writer[w].key] = writer[w].from
                      /\ writer[w].key # opened + 1
    BY <1>1 DEF HolderSound, HoldsFdMutex, Front
  <2>1. writer[w].key \in Conns /\ writer[w].key <= opened
    BY DEF HoldsFdMutex, WriteInv, KeysOpened
  <2>2. writer[w].key # opened + 1
    BY <1>1, <2>1 DEF Conns
  <2> QED  BY <1>1, <2>2 DEF WriteInv, HolderSound
<1>5. WrittenBehind'
  BY <1>1 DEF WriteInv, KeysOpened, WrittenBehind, Conns
<1> QED  BY <1>2, <1>3, <1>4, <1>5 DEF WriteInv

LEMMA SendKeepsWriteInv ==
  ASSUME TypeOK, WriteInv, NEW s \in Senders, NEW c \in Conns, SendOneMessage(s, c)
  PROVE  WriteInv'
<1> USE WriterFacts, KeyType
<1>1. /\ UNCHANGED <<conn, opened, buffers, popped, put, writer>>
      /\ \A d \in Conns : pushed'[d] >= pushed[d] /\ pushed[d] \in Nat /\ pushed'[d] \in Nat
  <2>1. UNCHANGED <<conn, opened, buffers, popped, put, writer>>
    BY DEF SendOneMessage
  <2>2. pushed' = pushed \/ pushed' = [pushed EXCEPT ![c] = @ + PackCells]
    BY DEF SendOneMessage
  <2>3. pushed \in [Conns -> Nat] /\ PackCells \in Nat
    BY SizesAssumption DEF TypeOK, OutTypes
  <2> QED  BY <2>1, <2>2, <2>3
<1>2. OneHolder' /\ KeysOpened' /\ OwnInOrder' /\ WrittenBehind'
  BY <1>1
     DEF WriteInv, OneHolder, KeysOpened, OwnInOrder, WrittenBehind, HoldsFdMutex, Front
<1>3. HolderSound'
  <2> SUFFICES ASSUME NEW w \in Writers, HoldsFdMutex(w)
               PROVE  writer[w].upto <= pushed'[writer[w].key]
    BY <1>1 DEF WriteInv, HolderSound, HoldsFdMutex, Front
  <2>1. writer[w].upto <= pushed[writer[w].key]
    BY DEF WriteInv, HolderSound
  <2> QED  BY <1>1, <2>1
<1> QED  BY <1>2, <1>3 DEF WriteInv

\* A thread that does not hold the mutex goes to a state in which it does not.
LEMMA NotHoldingKeepsWriteInv ==
  ASSUME TypeOK, WriteInv, NEW w \in Writers, ~HoldsFdMutex(w), ~HoldsFdMutex(w)',
         \A v \in Writers \ {w} : writer'[v] = writer[v],
         writer'[w].at # "idle" => writer'[w].key <= opened,
         UNCHANGED <<conn, opened, buffers, pushed, popped, put>>
  PROVE  WriteInv'
<1>1. \A v \in Writers : HoldsFdMutex(v)' =>
        HoldsFdMutex(v) /\ writer'[v] = writer[v] /\ Front(v)' = Front(v)
  BY DEF HoldsFdMutex, Front
<1>2. \A v \in Writers : HoldsFdMutex(v) => HoldsFdMutex(v)' /\ writer'[v] = writer[v]
  BY DEF HoldsFdMutex
<1>3. OneHolder' /\ OwnInOrder'
  BY <1>1 DEF WriteInv, OneHolder, OwnInOrder
<1>4. KeysOpened'
  BY DEF WriteInv, KeysOpened
<1>5. HolderSound'
  BY <1>1 DEF WriteInv, HolderSound
<1>6. WrittenBehind'
  BY <1>1, <1>2 DEF WriteInv, WrittenBehind
<1> QED  BY <1>3, <1>4, <1>5, <1>6 DEF WriteInv

LEMMA PopKeepsWriteInv ==
  ASSUME TypeOK, WriteInv, NEW w \in Writers, NEW c \in Conns, WritePop(w, c)
  PROVE  WriteInv'
<1>1. UNCHANGED <<conn, opened, buffers, pushed, popped, put>> /\ ~HoldsFdMutex(w)
  BY DEF WritePop, HoldsFdMutex
<1>2. CASE c \in buffers
  <2> DEFINE x == Writing("waiting", c, 0, 0)
  <2>1. x \in WriterStates /\ x.at = "waiting" /\ x.key = c
    BY WritingType, KeyType
  <2>2. writer'[w] = x /\ \A v \in Writers \ {w} : writer'[v] = writer[v]
    BY <1>2, <2>1 DEF TypeOK, OutTypes, WritePop
  <2>3. c <= opened
    BY <1>2 DEF WriteInv, KeysOpened
  <2> QED
    BY <1>1, <2>1, <2>2, <2>3, NotHoldingKeepsWriteInv DEF HoldsFdMutex
<1>3. CASE c \notin buffers
  BY <1>1, <1>3, ClosingKeepsWriteInv DEF WritePop
<1> QED  BY <1>2, <1>3

LEMMA CopyKeepsWriteInv ==
  ASSUME TypeOK, WriteInv, NEW w \in Writers, WriteCopy(w)
  PROVE  WriteInv'
<1> DEFINE c == writer[w].key
<1> USE WriterFacts, KeyType
<1>1. /\ UNCHANGED <<conn, opened, buffers, pushed, popped, put>>
      /\ \A v \in Writers : ~HoldsFdMutex(v)
  BY DEF WriteCopy, FdMutexFree
<1>2. c \in Conns /\ c <= opened
  BY DEF TypeOK, OutTypes, WriteCopy, WriteInv, KeysOpened
<1>3. CASE c \in buffers /\ popped[c] < pushed[c]
  <2> DEFINE x == Writing("writing", c, popped[c], pushed[c])
  <2>1. popped[c] \in Nat /\ pushed[c] \in Nat /\ c \in Keys
    BY <1>2 DEF TypeOK, OutTypes
  <2>2. /\ x \in WriterStates /\ x.at = "writing" /\ x.key = c
        /\ x.from = popped[c] /\ x.upto = pushed[c] /\ x.done = 0
    <3> HIDE WriterFacts, KeyType DEF c
    <3> QED  BY <2>1, WritingType
  <2> HIDE DEF x
  <2>3. writer'[w] = x /\ \A v \in Writers \ {w} : writer'[v] = writer[v]
    <3>1. writer \in [Writers -> WriterStates]
      BY DEF TypeOK, OutTypes
    <3>2. writer' = [writer EXCEPT ![w] = x]
      BY <1>3 DEF WriteCopy, x
    <3> QED  BY <3>1, <3>2
  <2>4. \A v \in Writers : HoldsFdMutex(v)' => v = w
    BY <1>1, <2>3 DEF HoldsFdMutex
  <2>5. Front(w)' = popped[c] /\ HoldsFdMutex(w)'
    BY <2>1, <2>2, <2>3 DEF Front, HoldsFdMutex
  <2>6. OneHolder' /\ OwnInOrder'
    BY <1>1, <2>4 DEF WriteInv, OneHolder, OwnInOrder
  <2>7. KeysOpened'
    BY <1>1, <1>2, <2>2, <2>3 DEF WriteInv, KeysOpened
  <2>8. HolderSound'
    BY <1>1, <1>3, <2>1, <2>2, <2>3, <2>4, <2>5 DEF HolderSound
  <2>9. WrittenBehind'
    BY <1>1, <1>3, <2>2, <2>3, <2>4, <2>5 DEF WriteInv, WrittenBehind
  <2> QED  BY <2>6, <2>7, <2>8, <2>9 DEF WriteInv
<1>4. CASE ~(c \in buffers /\ popped[c] < pushed[c])
  <2>1. writer'[w] = IdleWriter /\ \A v \in Writers \ {w} : writer'[v] = writer[v]
    BY <1>4 DEF TypeOK, OutTypes, WriteCopy
  <2> QED
    BY <1>1, <2>1, IdleWriterType, NotHoldingKeepsWriteInv DEF HoldsFdMutex
<1> QED  BY <1>3, <1>4

\* The holder's state changes to one that holds the mutex still.
LEMMA HoldingFacts ==
  ASSUME WriteInv, NEW w \in Writers, HoldsFdMutex(w),
         \A v \in Writers \ {w} : writer'[v] = writer[v]
  PROVE  \A v \in Writers : HoldsFdMutex(v)' => v = w
BY DEF WriteInv, OneHolder, HoldsFdMutex

LEMMA CellKeepsWriteInv ==
  ASSUME TypeOK, WriteInv, NEW w \in Writers, WriteCell(w)
  PROVE  WriteInv'
<1> DEFINE k == writer[w].key
           new == Cell(k, Front(w) + 1)
<1> USE WriterFacts, KeyType
<1>1. /\ UNCHANGED <<conn, opened, buffers, pushed, popped>> /\ conn \in Conns
      /\ writer[w].at = "writing" /\ Front(w) < writer[w].upto
      /\ put' = [put EXCEPT ![conn] = Append(@, new)]
  BY DEF TypeOK, ConnTypes, WriteCell, Unwritten, Writable, Front
<1>2. HoldsFdMutex(w) /\ k \in Conns /\ Front(w) \in Nat
  BY <1>1 DEF HoldsFdMutex, Front
<1>3. /\ writer'[w] = OneMore(writer[w])
      /\ \A v \in Writers \ {w} : writer'[v] = writer[v]
  BY DEF TypeOK, OutTypes, WriteCell
<1>4. /\ writer'[w].at = "writing" /\ writer'[w].key = k
      /\ writer'[w].from = writer[w].from /\ writer'[w].upto = writer[w].upto
      /\ writer'[w].done = writer[w].done + 1
  BY <1>1, <1>3, OneMoreType
<1>5. Front(w)' = Front(w) + 1 /\ HoldsFdMutex(w)'
  BY <1>4 DEF Front, HoldsFdMutex
<1>6. \A v \in Writers : HoldsFdMutex(v)' => v = w
  BY <1>2, <1>3, HoldingFacts
<1>7. new.conn = k /\ new.pos = Front(w) + 1
  BY <1>2, CellType
<1>8. put[conn] \in Seq(Cells)
  BY <1>1 DEF TypeOK, OutTypes
<1> DEFINE n == Len(put[conn]) + 1
<1>9. /\ n \in Nat /\ DOMAIN put'[conn] = 1 .. n /\ DOMAIN put[conn] = 1 .. n - 1
      /\ put'[conn][n] = new /\ \A i \in 1 .. n - 1 : put'[conn][i] = put[conn][i]
      /\ \A c \in Conns \ {conn} : put'[c] = put[c]
  BY <1>1, <1>8 DEF TypeOK, OutTypes
<1> HIDE DEF n, new
<1>10. OneHolder'
  BY <1>6 DEF OneHolder
<1>11. KeysOpened'
  <2>1. conn = opened
    BY <1>1 DEF TypeOK, ConnTypes
  <2>2. \A c \in Conns : c > opened => put'[c] = <<>>
    BY <1>9, <2>1 DEF WriteInv, KeysOpened, Conns
  <2> QED  BY <1>1, <1>3, <1>4, <2>2 DEF WriteInv, KeysOpened
<1>12. HolderSound'
  <2>1. Front(w) + 1 <= writer[w].upto
    BY <1>1, <1>2
  <2>2. /\ writer[w].upto <= pushed[k]
        /\ k \in buffers => popped[k] = writer[w].from
    BY <1>2 DEF WriteInv, HolderSound
  <2> QED  BY <1>1, <1>4, <1>5, <1>6, <2>1, <2>2 DEF HolderSound
\* What was there is behind the holder.
<1>13. \A i \in 1 .. n - 1 : put[conn][i].conn = conn /\ k = conn =>
         put[conn][i].pos <= Front(w)
  BY <1>1, <1>2, <1>9 DEF WriteInv, WrittenBehind
<1>14. \A i \in 1 .. n - 1 : put[conn][i].pos \in Nat
  <2>1. \A i \in 1 .. n - 1 : put[conn][i] \in Cells
    BY <1>8, <1>9
  <2> QED  BY <2>1 DEF Cells
<1>15. WrittenBehind'
  <2> SUFFICES ASSUME NEW i \in 1 .. n, put'[conn][i].conn = conn
               PROVE  /\ k = conn => put'[conn][i].pos <= Front(w) + 1
                      /\ conn \in buffers /\ k # conn => put'[conn][i].pos <= popped[conn]
    BY <1>1, <1>4, <1>5, <1>6, <1>9 DEF WrittenBehind
  <2>1. CASE i = n
    BY <1>2, <1>7, <1>9, <2>1
  <2>2. CASE i \in 1 .. n - 1
    <3>1. k = conn => put'[conn][i].pos <= Front(w) + 1
      <4>1. put'[conn][i] = put[conn][i] /\ put[conn][i].pos \in Nat
        BY <1>9, <1>14, <2>2
      <4> QED  BY <1>2, <1>13, <2>2, <4>1
    <3>2. ASSUME conn \in buffers, k # conn  PROVE put'[conn][i].pos <= popped[conn]
      <4>1. \A v \in Writers : HoldsFdMutex(v) => writer[v].key # conn
        BY <1>2, <3>2 DEF WriteInv, OneHolder
      <4> QED  BY <1>1, <1>9, <2>2, <3>2, <4>1 DEF WriteInv, WrittenBehind
    <3> QED  BY <3>1, <3>2
  <2> QED  BY <1>9, <2>1, <2>2
<1>16. OwnInOrder'
  <2> SUFFICES ASSUME NEW c \in Conns, NEW i \in DOMAIN put'[c], NEW j \in DOMAIN put'[c],
                      i < j, put'[c][i].conn = c, put'[c][j].conn = c
               PROVE  put'[c][i].pos < put'[c][j].pos
    BY DEF OwnInOrder
  <2>1. CASE c # conn
    BY <1>9, <2>1 DEF WriteInv, OwnInOrder
  <2>2. CASE c = conn /\ j # n
    <3>1. i \in 1 .. n - 1 /\ j \in 1 .. n - 1
      BY <1>9, <2>2
    <3> QED  BY <1>9, <2>2, <3>1 DEF WriteInv, OwnInOrder
  <2>3. CASE c = conn /\ j = n
    <3>1. i \in 1 .. n - 1 /\ k = conn
      BY <1>7, <1>9, <2>3
    <3>2. put[conn][i].pos <= Front(w) /\ put[conn][i].pos \in Nat
      BY <1>9, <1>13, <1>14, <2>3, <3>1
    <3> QED  BY <1>2, <1>7, <1>9, <2>3, <3>1, <3>2
  <2> QED  BY <2>1, <2>2, <2>3
<1> QED  BY <1>10, <1>11, <1>12, <1>15, <1>16 DEF WriteInv

\* The holder stops writing and keeps the mutex.
LEMMA StopKeepsWriteInv ==
  ASSUME TypeOK, WriteInv, NEW w \in Writers, WriteFull(w) \/ WriteFails(w)
  PROVE  WriteInv'
<1> USE WriterFacts, KeyType
<1>1. PICK at \in {"popping", "failed"} :
        /\ writer' = [writer EXCEPT ![w] = Now(@, at)]
        /\ at = "failed" => conn = NoConn
  BY DEF WriteFull, WriteFails
<1>2. /\ UNCHANGED <<conn, opened, buffers, pushed, popped, put>>
      /\ writer[w].at = "writing"
  BY DEF WriteFull, WriteFails, Unwritten
<1>3. /\ writer'[w] = Now(writer[w], at)
      /\ \A v \in Writers \ {w} : writer'[v] = writer[v]
  BY <1>1 DEF TypeOK, OutTypes
<1>4. /\ writer'[w].at = at /\ writer'[w].key = writer[w].key
      /\ writer'[w].from = writer[w].from /\ writer'[w].upto = writer[w].upto
      /\ writer'[w].done = writer[w].done
  BY <1>3, NowType
<1>5. /\ HoldsFdMutex(w) /\ HoldsFdMutex(w)' /\ Front(w)' = Front(w)
      /\ \A v \in Writers : HoldsFdMutex(v)' => v = w
  BY <1>2, <1>3, <1>4, HoldingFacts DEF HoldsFdMutex, Front
<1>6. \A v \in Writers : HoldsFdMutex(v) => v = w
  BY <1>5 DEF WriteInv, OneHolder
<1>7. OneHolder' /\ OwnInOrder'
  BY <1>2, <1>5 DEF WriteInv, OneHolder, OwnInOrder
<1>8. KeysOpened'
  BY <1>2, <1>3, <1>4 DEF WriteInv, KeysOpened
<1>9. HolderSound'
  BY <1>1, <1>2, <1>4, <1>5 DEF WriteInv, HolderSound
<1>10. WrittenBehind'
  BY <1>2, <1>4, <1>5, <1>6 DEF WriteInv, WrittenBehind
<1> QED  BY <1>7, <1>8, <1>9, <1>10 DEF WriteInv

LEMMA PoppedKeepsWriteInv ==
  ASSUME TypeOK, WriteInv, NEW w \in Writers, WritePopped(w)
  PROVE  WriteInv'
<1> DEFINE k == writer[w].key
<1> USE WriterFacts, KeyType
<1>1. /\ UNCHANGED <<conn, opened, buffers, pushed, put>>
      /\ HoldsFdMutex(w) /\ k \in Conns
      /\ writer[w].at # "failed"
  BY DEF WritePopped, HoldsFdMutex
<1>2. /\ writer'[w] = IdleWriter /\ writer'[w].at = "idle"
      /\ \A v \in Writers \ {w} : writer'[v] = writer[v]
  BY IdleWriterType DEF TypeOK, OutTypes, WritePopped
<1>3. \A v \in Writers : HoldsFdMutex(v) => v = w
  BY <1>1 DEF WriteInv, OneHolder
<1>4. \A v \in Writers : ~HoldsFdMutex(v)'
  BY <1>2, <1>3 DEF HoldsFdMutex
<1>5. OneHolder' /\ HolderSound' /\ OwnInOrder'
  BY <1>1, <1>4 DEF WriteInv, OneHolder, HolderSound, OwnInOrder
<1>6. KeysOpened'
  BY <1>1, <1>2 DEF WriteInv, KeysOpened
<1>7. k \in buffers => popped'[k] = Front(w)
  <2> SUFFICES ASSUME k \in buffers  PROVE popped'[k] = Front(w)
    OBVIOUS
  <2>1. popped[k] = writer[w].from /\ Front(w) <= writer[w].upto
        /\ writer[w].upto <= pushed[k]
    BY <1>1 DEF WriteInv, HolderSound
  <2>2. Front(w) \in Nat /\ pushed[k] \in Nat /\ Front(w) <= pushed[k]
    <3>1. pushed[k] \in Nat
      BY <1>1 DEF TypeOK, OutTypes
    <3>2. writer[w] \in WriterStates
      BY DEF TypeOK, OutTypes
    <3>3. writer[w].from \in Nat /\ writer[w].done \in Nat /\ writer[w].upto \in Nat
      BY <3>2 DEF WriterStates
    <3>4. Front(w) \in Nat
      BY <3>3 DEF Front
    <3> HIDE DEF k
    <3> QED  BY <2>1, <3>1, <3>3, <3>4
  <2>3. Least(Front(w), pushed[k]) = Front(w)
    BY <2>2, LeastType
  <2>4. popped' = [popped EXCEPT ![k] = Least(popped[k] + writer[w].done, pushed[k])]
    BY DEF WritePopped
  <2>5. popped'[k] = Least(popped[k] + writer[w].done, pushed[k])
    BY <1>1, <2>4 DEF TypeOK, OutTypes
  <2> QED  BY <2>1, <2>3, <2>5 DEF Front
<1>8. \A c \in Conns \ {k} : popped'[c] = popped[c]
  BY DEF TypeOK, OutTypes, WritePopped
<1>9. WrittenBehind'
  <2> SUFFICES ASSUME conn \in Conns, conn \in buffers, NEW i \in DOMAIN put[conn],
                      put[conn][i].conn = conn
               PROVE  put[conn][i].pos <= popped'[conn]
    BY <1>1, <1>4 DEF TypeOK, ConnTypes, WrittenBehind, Keys
  <2>1. CASE conn = k
    BY <1>1, <1>7, <2>1 DEF WriteInv, WrittenBehind
  <2>2. CASE conn # k
    BY <1>3, <1>8, <2>2 DEF WriteInv, WrittenBehind
  <2> QED  BY <2>1, <2>2
<1> QED  BY <1>5, <1>6, <1>9 DEF WriteInv

LEMMA FailedKeepsWriteInv ==
  ASSUME TypeOK, WriteInv, NEW w \in Writers, WriteFailed(w)
  PROVE  WriteInv'
<1>1. /\ UNCHANGED <<opened, pushed, popped, put>> /\ conn' = NoConn
      /\ buffers' \subseteq buffers /\ HoldsFdMutex(w)
  BY DEF WriteFailed, DeleteByFd, Closed, HoldsFdMutex
<1>2. /\ writer'[w].at = "idle"
      /\ \A v \in Writers \ {w} : writer'[v] = writer[v]
  BY IdleWriterType DEF TypeOK, OutTypes, WriteFailed
<1>3. \A v \in Writers : ~HoldsFdMutex(v)'
  BY <1>1, <1>2 DEF WriteInv, OneHolder, HoldsFdMutex
<1> QED
  BY <1>1, <1>2, <1>3
     DEF WriteInv, OneHolder, KeysOpened, HolderSound, WrittenBehind, OwnInOrder

LEMMA NextWriteInv == TypeOK /\ WriteInv /\ [Next]_vars => WriteInv'
<1> SUFFICES ASSUME TypeOK, WriteInv, [Next]_vars  PROVE WriteInv'
  OBVIOUS
<1>1. CASE DropBuffer \/ CloseFd
  BY <1>1, ClosingKeepsWriteInv DEF DropBuffer, CloseFd, Closed, outVars
<1>2. CASE Open  BY <1>2, OpenKeepsWriteInv
<1>3. CASE \E s \in Senders, c \in Conns : SendOneMessage(s, c)
  BY <1>3, SendKeepsWriteInv
<1>4. CASE PeerSends \/ EpollStep \/ \E s \in Senders : PushWrite(s)
  BY <1>4, ClosingKeepsWriteInv
     DEF PeerSends, EpollStep, EpollWait, EpollIn, EpollOut, EpollWrite, PushWrite,
         outVars
<1>5. CASE \E c \in Conns : PeerTakes(c)
  BY <1>5, ClosingKeepsWriteInv DEF PeerTakes
<1>6. ASSUME NEW w \in Writers, WriterStep(w)  PROVE WriteInv'
  BY <1>6, PopKeepsWriteInv, CopyKeepsWriteInv, CellKeepsWriteInv, StopKeepsWriteInv,
     PoppedKeepsWriteInv, FailedKeepsWriteInv, Zenon DEF WriterStep
<1>7. ASSUME NEW r \in Readers, ReaderStep(r)  PROVE WriteInv'
  <2>1. UNCHANGED <<opened, pushed, popped, put, writer>>
    BY <1>7
       DEF ReaderStep, ReadPop, Read, ReadNothing, ReadFails, ReadFailed, AddRead,
           AddNowhere, ParsePack, ParseEnd, ParseGarbage, Rearm, outVars
  <2>2. (conn' = conn \/ conn' = NoConn) /\ buffers' \subseteq buffers
    BY <1>7
       DEF ReaderStep, ReadPop, Read, ReadNothing, ReadFails, ReadFailed, AddRead,
           AddNowhere, ParsePack, ParseEnd, ParseGarbage, Rearm, DeleteByFd, Closed
  <2> QED  BY <2>1, <2>2, ClosingKeepsWriteInv
<1>8. CASE UNCHANGED vars
  BY <1>8, ClosingKeepsWriteInv DEF vars, outVars
<1> QED  BY <1>1, <1>2, <1>3, <1>4, <1>5, <1>6, <1>7, <1>8 DEF Next, Working

\* The bytes of a connection are written to it in order and none of them
\* twice, whichever threads write them and whatever else uses the descriptor.
THEOREM WrittenInOrder == Spec => []OwnInOrder
<1>1. Init => TypeOK /\ WriteInv  BY InitTypeOK, InitWriteInv
<1>2. TypeOK /\ WriteInv /\ [Next]_vars => TypeOK' /\ WriteInv'
  BY NextTypeOK, NextWriteInv
<1>3. WriteInv => OwnInOrder  BY DEF WriteInv
<1> QED  BY <1>1, <1>2, <1>3, PTL DEF Spec

=============================================================================
