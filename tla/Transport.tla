----------------------------- MODULE Transport -----------------------------
(***************************************************************************)
(* One socket of a node: bufferControl and SocketBuf (net/socket_buf.cpp), *)
(* the epoll thread (net/epoll_mode.cpp), the read and write threads       *)
(* (net/work_thread.cpp), net_tcp::Send and SendOneMessage (net/api.cpp).  *)
(*                                                                         *)
(* The file descriptor is one number.  Connections use it one after the    *)
(* other: when one is closed the next one accepted gets the same number.   *)
(* A connection c is also the key (ip, port) of its SocketBuf.             *)
(*                                                                         *)
(* A pack is PackCells cells: the length, the body, the checksum with the  *)
(* end flag.  The byte stream of a connection is cut between cells only.   *)
(* Its n-th cell belongs to pack (n - 1) \div PackCells + 1.               *)
(***************************************************************************)
EXTENDS Integers, Sequences, Functions

CONSTANTS
  Senders,      \* threads that call SendOneMessage
  Writers,      \* the threads of WorkWrite
  Readers,      \* the threads of WorkRead
  MaxConns,     \* bound on the connections accepted
  Loads,        \* what may be asked of them: how many are accepted, and how
                \* many packs the node and the peer send on each at most
  MaxPacks,     \* bound on the packs of one connection
  PackCells,
  SockCap,      \* cells the socket holds before write() finds it full
  MaxLine,      \* cells one read() takes at most
  QueueCap      \* maxSize of the read and of the write queue

ASSUME SizesAssumption ==
  /\ MaxConns \in Nat \ {0}
  /\ Loads \subseteq [conns : 1 .. MaxConns, out : [1 .. MaxConns -> 0 .. MaxPacks],
                      in : [1 .. MaxConns -> 0 .. MaxPacks]]
  /\ MaxPacks \in Nat
  /\ PackCells \in Nat \ {0, 1}
  /\ SockCap \in Nat \ {0}
  /\ MaxLine \in Nat \ {0}
  /\ QueueCap \in Nat \ {0}

Conns == 1 .. MaxConns
NoConn == 0

VARIABLES
  load,       \* one of Loads
  conn,       \* the connection the descriptor names, NoConn when closed
  opened,     \* connections accepted so far
  buffers,    \* the keys of _BufferMap
  \* sending
  sending,    \* the key whose pack a sender has added, before it pushes E_WRITE
  pushed,     \* cells ever added to the _sendCache of a connection
  popped,     \* cells ever removed from it
  put,        \* the cells ever written to the socket of a connection
  taken,      \* how many of them its peer has read
  received,   \* packs of the connection's own whose end was among these
  noSpace,    \* the last write() found the socket full (SOCK_NOSPACE)
  writeQ,     \* the keys of the entries of queue_write_counter, as a bag
  writer,     \* what each write thread is doing
  \* epoll
  registered, \* the descriptor is in the epoll set
  ready,      \* and in its ready list (edge triggered)
  events,     \* the events the epoll thread has yet to handle
  eventKey,   \* and the key it has found for the descriptor
  \* receiving
  arrived,    \* cells that have reached the socket of a connection
  consumed,   \* how many of them read() has returned
  readQ,      \* the keys of the entries of queueReader, as a bag
  reader,     \* what each read thread is doing
  cache,      \* _cache of each SocketBuf
  delivered   \* packs each SocketBuf has pushed on queue_work, by the connection
              \* that they came in on

outVars == <<sending, pushed, popped, put, taken, received, noSpace, writeQ, writer>>
epollVars == <<registered, ready, events, eventKey>>
inVars == <<arrived, consumed, readQ, reader, cache, delivered>>
vars == <<load, conn, opened, buffers, outVars, epollVars, inVars>>

(***************************************************************************)
(* Cells, packs and queues.                                                *)
(***************************************************************************)

Cell(c, n) == [conn |-> c, pos |-> n]
IsHead(x) == x.pos % PackCells = 1
IsEnd(x) == x.pos % PackCells = 0
Pack(x) == (x.pos - 1) \div PackCells + 1

Least(m, n) == IF m <= n THEN m ELSE n

NotFull(Q) == SumFunction(Q) < QueueCap
With(Q, c) == [Q EXCEPT ![c] = @ + 1]
Without(Q, c) == [Q EXCEPT ![c] = @ - 1]

Readable == conn # NoConn /\ consumed[conn] < arrived[conn]
Writable == conn # NoConn /\ Len(put[conn]) - taken[conn] < SockCap

Writing(at, c, from, upto) ==
  [at |-> at, key |-> c, from |-> from, upto |-> upto, done |-> 0]
IdleWriter == Writing("idle", NoConn, 0, 0)
Reading(at, c) == [at |-> at, key |-> c, chunk |-> <<>>]
IdleReader == Reading("idle", NoConn)
Now(x, at) == [x EXCEPT !.at = at]
OneMore(x) == [x EXCEPT !.done = @ + 1]

Init ==
  /\ load \in Loads
  /\ conn = 1 /\ opened = 1 /\ buffers = {1}
  /\ sending = [s \in Senders |-> NoConn]
  /\ pushed = [c \in Conns |-> 0] /\ popped = [c \in Conns |-> 0]
  /\ put = [c \in Conns |-> <<>>] /\ taken = [c \in Conns |-> 0]
  /\ received = [c \in Conns |-> <<>>]
  /\ noSpace = FALSE
  /\ writeQ = [c \in {NoConn} \union Conns |-> 0]
  /\ writer = [w \in Writers |-> IdleWriter]
  /\ registered = TRUE /\ ready = TRUE /\ events = {} /\ eventKey = NoConn
  /\ arrived = [c \in Conns |-> 0] /\ consumed = [c \in Conns |-> 0]
  /\ readQ = [c \in {NoConn} \union Conns |-> 0]
  /\ reader = [r \in Readers |-> IdleReader]
  /\ cache = [c \in Conns |-> <<>>]
  /\ delivered = [c \in Conns |-> [d \in Conns |-> <<>>]]

(***************************************************************************)
(* Connections.  A node is deleted for many reasons: an error or the end   *)
(* of the stream, a heartbeat, a failed registration.  delete_by_fd drops  *)
(* the buffer and closes the descriptor after it, DeleteNode and           *)
(* DisconnectNode close it first.  The last connection is not closed from  *)
(* outside.                                                                *)
(***************************************************************************)

DropBuffer ==
  /\ \E c \in buffers :
       /\ c = conn => opened < load.conns
       /\ buffers' = buffers \ {c}
  /\ UNCHANGED <<load, conn, opened, outVars, epollVars, inVars>>

Closed ==
  /\ conn' = NoConn
  /\ registered' = FALSE /\ ready' = FALSE
  /\ noSpace' = FALSE

CloseFd ==
  /\ conn # NoConn /\ opened < load.conns
  /\ Closed
  /\ UNCHANGED <<load, opened, buffers, sending, pushed, popped, put, taken,
                 received, writeQ, writer, events, eventKey, inVars>>

\* accept() or connect() returns the number again: AddBuffer and EpollLoop(fd).
Open ==
  /\ conn = NoConn /\ opened < load.conns
  /\ opened' = opened + 1
  /\ conn' = opened + 1
  /\ buffers' = buffers \union {opened + 1}
  /\ registered' = TRUE /\ ready' = TRUE
  /\ UNCHANGED <<load, outVars, events, eventKey, inVars>>

\* delete_by_fd called by a thread whose read() or write() failed: it goes by
\* the number, so it closes the connection that has it by then, and drops the
\* buffer of whichever user of the number it finds first.
DeleteByFd ==
  /\ \E c \in buffers \union {conn} : buffers' = buffers \ {c}
  /\ Closed

(***************************************************************************)
(* Sending.                                                                *)
(***************************************************************************)

\* addWritePack_ and PushSendMsg; that the buffer is gone goes unnoticed.
SendOneMessage(s, c) ==
  /\ sending[s] = NoConn
  /\ c <= opened /\ pushed[c] < PackCells * load.out[c]
  /\ sending' = [sending EXCEPT ![s] = c]
  /\ pushed' = IF c \in buffers
                 THEN [pushed EXCEPT ![c] = @ + PackCells] ELSE pushed
  /\ UNCHANGED <<load, conn, opened, buffers, popped, put, taken, received,
                 noSpace, writeQ, writer, epollVars, inVars>>

\* The sender pushes its E_WRITE entry, which blocks while the queue is full.
PushWrite(s) ==
  /\ sending[s] # NoConn
  /\ NotFull(writeQ)
  /\ writeQ' = With(writeQ, sending[s])
  /\ sending' = [sending EXCEPT ![s] = NoConn]
  /\ UNCHANGED <<load, conn, opened, buffers, pushed, popped, put, taken,
                 received, noSpace, writer, epollVars, inVars>>

\* Variant: an entry is taken from the queue without waiting for one.
WritePopEmpty(w, c) ==
  /\ writer[w].at = "idle"
  /\ writeQ' = Without(writeQ, c)
  /\ writer' = [writer EXCEPT ![w] = Writing("waiting", c, 0, 0)]
  /\ UNCHANGED <<load, conn, opened, buffers, sending, pushed, popped, put, taken,
                 received, noSpace, epollVars, inVars>>

\* handle_net_write up to fdMutex.
WritePop(w, c) ==
  /\ writer[w].at = "idle" /\ writeQ[c] > 0
  /\ writeQ' = Without(writeQ, c)
  /\ writer' = IF c \in buffers
       THEN [writer EXCEPT ![w] = Writing("waiting", c, 0, 0)]
       ELSE writer
  /\ UNCHANGED <<load, conn, opened, buffers, sending, pushed, popped, put, taken,
                 received, noSpace, epollVars, inVars>>

HoldsFdMutex(w) == writer[w].at \in {"writing", "popping", "failed"}
\* Variant: a descriptor has no mutex.
FdMutexUnused == TRUE
FdMutexFree == \A w \in Writers : ~HoldsFdMutex(w)

\* The descriptor's mutex is taken and the whole _sendCache copied.
WriteCopy(w) ==
  LET c == writer[w].key IN
  /\ writer[w].at = "waiting" /\ FdMutexFree
  /\ writer' = IF c \in buffers /\ popped[c] < pushed[c]
       THEN [writer EXCEPT ![w] = Writing("writing", c, popped[c], pushed[c])]
       ELSE [writer EXCEPT ![w] = IdleWriter]
  /\ UNCHANGED <<load, conn, opened, buffers, sending, pushed, popped, put, taken,
                 received, noSpace, writeQ, epollVars, inVars>>

Unwritten(w) ==
  writer[w].at = "writing" /\ writer[w].from + writer[w].done < writer[w].upto

\* net_tcp::Send, cell by cell: a write() of several cells, or several of them.
WriteCell(w) ==
  /\ Unwritten(w) /\ Writable
  /\ put' = [put EXCEPT ![conn] =
       Append(@, Cell(writer[w].key, writer[w].from + writer[w].done + 1))]
  /\ writer' = [writer EXCEPT ![w] = OneMore(@)]
  /\ UNCHANGED <<load, conn, opened, buffers, sending, pushed, popped, taken,
                 received, noSpace, writeQ, epollVars, inVars>>

\* EAGAIN
WriteFull(w) ==
  /\ Unwritten(w) /\ conn # NoConn /\ ~Writable
  /\ noSpace' = TRUE
  /\ writer' = [writer EXCEPT ![w] = Now(@, "popping")]
  /\ UNCHANGED <<load, conn, opened, buffers, sending, pushed, popped, put, taken,
                 received, writeQ, epollVars, inVars>>

\* PopAndWriteBufferQueue: what was written leaves the cache, if that is still
\* there, and the mutex is released.
WritePopped(w) ==
  LET c == writer[w].key IN
  /\ writer[w].at = "popping" \/ (writer[w].at = "writing" /\ ~Unwritten(w))
  /\ popped' = IF c \in buffers
       THEN [popped EXCEPT ![c] = Least(@ + writer[w].done, pushed[c])]
       ELSE popped
  /\ writer' = [writer EXCEPT ![w] = IdleWriter]
  /\ UNCHANGED <<load, conn, opened, buffers, sending, pushed, put, taken,
                 received, noSpace, writeQ, epollVars, inVars>>

\* The descriptor is closed: net_tcp::Send returns -2, after delete_by_fd.
WriteFails(w) ==
  /\ Unwritten(w) /\ conn = NoConn
  /\ writer' = [writer EXCEPT ![w] = Now(@, "failed")]
  /\ UNCHANGED <<load, conn, opened, buffers, sending, pushed, popped, put, taken,
                 received, noSpace, writeQ, epollVars, inVars>>

WriteFailed(w) ==
  /\ writer[w].at = "failed"
  /\ DeleteByFd
  /\ writer' = [writer EXCEPT ![w] = IdleWriter]
  /\ UNCHANGED <<load, opened, sending, pushed, popped, put, taken, received,
                 writeQ, events, eventKey, inVars>>

(***************************************************************************)
(* The epoll thread.                                                       *)
(***************************************************************************)

\* Variant: a readable descriptor stays in the set.
EpollWaitKept ==
  /\ events = {} /\ registered /\ ready
  /\ events' = (IF Readable THEN {"in"} ELSE {})
                 \union (IF Writable THEN {"out"} ELSE {})
  /\ eventKey' = conn
  /\ ready' = FALSE
  /\ UNCHANGED <<load, conn, opened, buffers, outVars, registered, inVars>>

\* epoll_wait reports what the socket is ready for now; a readable descriptor
\* is taken out of the set until it has been read.
EpollWait ==
  /\ events = {} /\ registered /\ ready
  /\ events' = (IF Readable THEN {"in"} ELSE {})
                 \union (IF Writable THEN {"out"} ELSE {})
  /\ eventKey' = conn
  /\ registered' = ~Readable
  /\ ready' = FALSE
  /\ UNCHANGED <<load, conn, opened, buffers, outVars, inVars>>

EpollIn ==
  /\ "in" \in events /\ NotFull(readQ)
  /\ readQ' = With(readQ, eventKey)
  /\ events' = events \ {"in"}
  /\ UNCHANGED <<load, conn, opened, buffers, outVars, registered, ready, eventKey,
                 arrived, consumed, reader, cache, delivered>>

\* IsCacheEmpty, for the peer the descriptor has now.
EpollOut ==
  /\ events = {"out"}
  /\ eventKey' = conn
  /\ events' = IF conn \in buffers /\ popped[conn] < pushed[conn]
                 THEN {"write"} ELSE {}
  /\ UNCHANGED <<load, conn, opened, buffers, outVars, registered, ready, inVars>>

EpollWrite ==
  /\ events = {"write"} /\ NotFull(writeQ)
  /\ writeQ' = With(writeQ, eventKey)
  /\ events' = {}
  /\ UNCHANGED <<load, conn, opened, buffers, sending, pushed, popped, put, taken,
                 received, noSpace, writer, registered, ready, eventKey, inVars>>

(***************************************************************************)
(* Receiving: handle_net_read and add_data_to_read_buffer.                 *)
(***************************************************************************)

ReadPop(r, c) ==
  /\ reader[r].at = "idle" /\ readQ[c] > 0
  /\ readQ' = Without(readQ, c)
  /\ reader' = [reader EXCEPT ![r] = Reading("reading", c)]
  /\ UNCHANGED <<load, conn, opened, buffers, outVars, epollVars, arrived, consumed,
                 cache, delivered>>

\* read() returns what there is, up to MaxLine.
Read(r) ==
  LET n == Least(MaxLine, arrived[conn] - consumed[conn])
  IN
  /\ reader[r].at = "reading" /\ Readable
  /\ reader' = [reader EXCEPT ![r] = [at |-> "adding", key |-> @.key,
                  chunk |-> [i \in 1 .. n |-> Cell(conn, consumed[conn] + i)]]]
  /\ consumed' = [consumed EXCEPT ![conn] = @ + n]
  /\ UNCHANGED <<load, conn, opened, buffers, outVars, epollVars, arrived, readQ,
                 cache, delivered>>

\* EAGAIN
ReadNothing(r) ==
  /\ reader[r].at = "reading" /\ conn # NoConn /\ ~Readable
  /\ reader' = [reader EXCEPT ![r] = Now(@, "rearm")]
  /\ UNCHANGED <<load, conn, opened, buffers, outVars, epollVars, arrived, consumed,
                 readQ, cache, delivered>>

ReadFails(r) ==
  /\ reader[r].at = "reading" /\ conn = NoConn
  /\ reader' = [reader EXCEPT ![r] = Now(@, "failed")]
  /\ UNCHANGED <<load, conn, opened, buffers, outVars, epollVars, arrived, consumed,
                 readQ, cache, delivered>>

ReadFailed(r) ==
  /\ reader[r].at = "failed"
  /\ DeleteByFd
  /\ reader' = [reader EXCEPT ![r] = IdleReader]
  /\ UNCHANGED <<load, opened, sending, pushed, popped, put, taken, received,
                 writeQ, writer, events, eventKey, arrived, consumed, readQ,
                 cache, delivered>>

\* A full buffer is read again, after less the descriptor is armed again.
AfterRead(r) ==
  Reading(IF Len(reader[r].chunk) = MaxLine THEN "reading" ELSE "rearm",
          reader[r].key)

\* mutexForRead is taken and held while the packs are cut out.
AddRead(r) ==
  LET c == reader[r].key IN
  /\ reader[r].at = "adding" /\ c \in buffers
  /\ \A q \in Readers : reader[q].at = "parsing" => reader[q].key # c
  /\ cache' = [cache EXCEPT ![c] = @ \o reader[r].chunk]
  /\ reader' = [reader EXCEPT ![r] = Now(@, "parsing")]
  /\ UNCHANGED <<load, conn, opened, buffers, outVars, epollVars, arrived, consumed,
                 readQ, delivered>>

\* No such key: the bytes are lost.
AddNowhere(r) ==
  /\ reader[r].at = "adding" /\ reader[r].key \notin buffers
  /\ reader' = [reader EXCEPT ![r] = AfterRead(r)]
  /\ UNCHANGED <<load, conn, opened, buffers, outVars, epollVars, arrived, consumed,
                 readQ, cache, delivered>>

\* The cache begins with a length, and all of that length is there.
StartsAtHead(x) == x # <<>> /\ IsHead(x[1])
HasPack(x) == StartsAtHead(x) /\ Len(x) >= PackCells

\* The check sum holds: the cells are those of one pack.
Sound(x) == \A i \in 1 .. PackCells : x[i] = Cell(x[1].conn, x[1].pos + i - 1)

\* CorrectCache: everything up to the first end flag goes, or everything.  The
\* set has one member.
Corrected(x) ==
  LET first == {i \in DOMAIN x : IsEnd(x[i]) /\ \A j \in 1 .. i - 1 : ~IsEnd(x[j])}
  IN IF \E i \in DOMAIN x : IsEnd(x[i])
       THEN {SubSeq(x, i + 1, Len(x)) : i \in first} ELSE {<<>>}

\* Variant: the pack stays in the cache.
ParsePackKept(r) ==
  LET c == reader[r].key IN
  /\ reader[r].at = "parsing"
  /\ HasPack(cache[c]) /\ Sound(cache[c])
  /\ delivered' = [delivered EXCEPT ![c][cache[c][1].conn] =
                     Append(@, Pack(cache[c][1]))]
  /\ reader' = [reader EXCEPT ![r] = AfterRead(r)]
  /\ UNCHANGED <<load, conn, opened, buffers, outVars, epollVars, arrived, consumed,
                 readQ, cache>>

\* A whole pack goes to queue_work.
ParsePack(r) ==
  LET c == reader[r].key IN
  /\ reader[r].at = "parsing"
  /\ HasPack(cache[c]) /\ Sound(cache[c])
  /\ delivered' = [delivered EXCEPT ![c][cache[c][1].conn] =
                     Append(@, Pack(cache[c][1]))]
  /\ cache' = [cache EXCEPT ![c] = SubSeq(@, PackCells + 1, Len(@))]
  /\ UNCHANGED <<load, conn, opened, buffers, outVars, epollVars, arrived, consumed,
                 readQ, reader>>

\* Nothing, or the beginning of a pack, is left.
ParseEnd(r) ==
  LET c == reader[r].key IN
  /\ reader[r].at = "parsing"
  /\ cache[c] = <<>> \/ (StartsAtHead(cache[c]) /\ ~HasPack(cache[c]))
  /\ reader' = [reader EXCEPT ![r] = AfterRead(r)]
  /\ UNCHANGED <<load, conn, opened, buffers, outVars, epollVars, arrived, consumed,
                 readQ, cache, delivered>>

\* What stands where a length should be is none: it may be more than there is,
\* or more than 100 MB (VerifyCache), or so small that a check sum is tried.
\* The loop is left in each case, whatever the cache holds then.
ParseGarbage(r) ==
  LET c == reader[r].key IN
  /\ reader[r].at = "parsing" /\ cache[c] # <<>>
  /\ \/ /\ ~StartsAtHead(cache[c])
        /\ \E x \in {cache[c]} \union Corrected(cache[c])
                     \union Corrected(Tail(cache[c])) :
             cache' = [cache EXCEPT ![c] = x]
     \/ /\ HasPack(cache[c]) /\ ~Sound(cache[c])
        /\ \E x \in Corrected(Tail(cache[c])) :
             cache' = [cache EXCEPT ![c] = x]
  /\ reader' = [reader EXCEPT ![r] = AfterRead(r)]
  /\ UNCHANGED <<load, conn, opened, buffers, outVars, epollVars, arrived, consumed,
                 readQ, delivered>>

\* Variants: the descriptor is armed for reading only, or not at all.
RearmIn(r) ==
  /\ reader[r].at = "rearm"
  /\ IF conn # NoConn /\ ~registered
       THEN registered' = TRUE /\ ready' = Readable
       ELSE UNCHANGED <<registered, ready>>
  /\ reader' = [reader EXCEPT ![r] = IdleReader]
  /\ UNCHANGED <<load, conn, opened, buffers, outVars, events, eventKey, arrived,
                 consumed, readQ, cache, delivered>>
RearmNot(r) ==
  /\ reader[r].at = "rearm"
  /\ reader' = [reader EXCEPT ![r] = IdleReader]
  /\ UNCHANGED <<load, conn, opened, buffers, outVars, epollVars, arrived,
                 consumed, readQ, cache, delivered>>

\* EpollLoop(fd): refused when the descriptor is in the set already.
Rearm(r) ==
  /\ reader[r].at = "rearm"
  /\ IF conn # NoConn /\ ~registered
       THEN registered' = TRUE /\ ready' = (Readable \/ Writable)
       ELSE UNCHANGED <<registered, ready>>
  /\ reader' = [reader EXCEPT ![r] = IdleReader]
  /\ UNCHANGED <<load, conn, opened, buffers, outVars, events, eventKey, arrived,
                 consumed, readQ, cache, delivered>>

(***************************************************************************)
(* The peers.                                                              *)
(***************************************************************************)

\* A peer reads; a writer that found the socket full is owed an edge.
PeerTakes(c) ==
  LET x == put[c][taken[c] + 1] IN
  /\ taken[c] < Len(put[c])
  /\ taken' = [taken EXCEPT ![c] = @ + 1]
  /\ received' = IF x.conn = c /\ IsEnd(x)
                   THEN [received EXCEPT ![c] = Append(@, Pack(x))] ELSE received
  /\ IF c = conn /\ noSpace
       THEN noSpace' = FALSE /\ ready' = registered
       ELSE UNCHANGED <<noSpace, ready>>
  /\ UNCHANGED <<load, conn, opened, buffers, sending, pushed, popped, put, writeQ,
                 writer, registered, events, eventKey, inVars>>

PeerSends ==
  /\ conn # NoConn /\ arrived[conn] < PackCells * load.in[conn]
  /\ arrived' = [arrived EXCEPT ![conn] = @ + 1]
  /\ ready' = registered
  /\ UNCHANGED <<load, conn, opened, buffers, outVars, registered, events, eventKey,
                 consumed, readQ, reader, cache, delivered>>

(***************************************************************************)
(* The specification.                                                      *)
(***************************************************************************)

WriterStep(w) ==
  \/ \E c \in Conns : WritePop(w, c)
  \/ WriteCopy(w) \/ WriteCell(w) \/ WriteFull(w) \/ WritePopped(w)
  \/ WriteFails(w) \/ WriteFailed(w)

EpollStep == EpollWait \/ EpollIn \/ EpollOut \/ EpollWrite

ReaderStep(r) ==
  \/ \E c \in {NoConn} \union Conns : ReadPop(r, c)
  \/ Read(r) \/ ReadNothing(r) \/ ReadFails(r) \/ ReadFailed(r)
  \/ AddRead(r) \/ AddNowhere(r)
  \/ ParsePack(r) \/ ParseEnd(r) \/ ParseGarbage(r)
  \/ Rearm(r)

\* What threads and peers do once they have been given something to do.
Working ==
  \/ \E s \in Senders : PushWrite(s)
  \/ \E w \in Writers : WriterStep(w)
  \/ EpollStep
  \/ \E r \in Readers : ReaderStep(r)
  \/ \E c \in Conns : PeerTakes(c)

Next ==
  \/ DropBuffer \/ CloseFd \/ Open
  \/ \E s \in Senders, c \in Conns : SendOneMessage(s, c)
  \/ PeerSends
  \/ Working

\* Threads that can run do.  Nothing is assumed of which one does: none of them
\* has anything to do for ever, so each gets its turn.
Fairness == WF_vars(Working)

Spec == Init /\ [][Next]_vars /\ Fairness

(***************************************************************************)
(* Properties.                                                             *)
(***************************************************************************)

Cells == [conn : Conns, pos : Nat]
Keys == {NoConn} \union Conns
WriterStates ==
  [at : {"idle", "waiting", "writing", "popping", "failed"}, key : Keys,
   from : Nat, upto : Nat, done : Nat]
ReaderStates ==
  [at : {"idle", "reading", "adding", "parsing", "rearm", "failed"},
   key : Keys, chunk : Seq(Cells)]

ConnTypes ==
  /\ load \in Loads
  /\ conn \in Keys /\ opened \in Conns /\ buffers \in SUBSET Conns
  /\ conn # NoConn => conn = opened

OutTypes ==
  /\ sending \in [Senders -> Keys]
  /\ pushed \in [Conns -> Nat] /\ popped \in [Conns -> Nat]
  /\ put \in [Conns -> Seq(Cells)] /\ taken \in [Conns -> Nat]
  /\ received \in [Conns -> Seq(Int)]
  /\ noSpace \in BOOLEAN
  /\ writeQ \in [Keys -> Nat]
  /\ writer \in [Writers -> WriterStates]
  /\ \A w \in Writers : writer[w].at # "idle" => writer[w].key \in Conns

EpollTypes ==
  /\ registered \in BOOLEAN /\ ready \in BOOLEAN
  /\ events \in SUBSET {"in", "out", "write"} /\ eventKey \in Keys
  /\ "write" \in events => eventKey \in Conns

InTypes ==
  /\ arrived \in [Conns -> Nat] /\ consumed \in [Conns -> Nat]
  /\ readQ \in [Keys -> Nat]
  /\ reader \in [Readers -> ReaderStates]
  /\ \A r \in Readers : reader[r].at = "parsing" => reader[r].key \in Conns
  /\ cache \in [Conns -> Seq(Cells)]
  /\ delivered \in [Conns -> [Conns -> Seq(Int)]]

\* The type invariant.
TypeOK == ConnTypes /\ OutTypes /\ EpollTypes /\ InTypes

\* Whoever else's bytes a reused descriptor lets in, what was pushed for a
\* connection is written to it in order and nothing of it twice.
OwnInOrder ==
  \A c \in Conns : \A i, j \in DOMAIN put[c] :
    i < j /\ put[c][i].conn = c /\ put[c][j].conn = c =>
      put[c][i].pos < put[c][j].pos

\* No pack comes out twice, on one connection or on two.
DeliveredOnce ==
  \A c, d, e \in Conns :
    \A i \in DOMAIN delivered[c][e], j \in DOMAIN delivered[d][e] :
      delivered[c][e][i] = delivered[d][e][j] => c = d /\ i = j

First == 1
Lost == conn # First \/ First \notin buffers

Out == INSTANCE Channel WITH
  sent <- pushed[First] \div PackCells, got <- received[First], cut <- Lost

In == INSTANCE Channel WITH
  sent <- arrived[First] \div PackCells, got <- delivered[First][First],
  cut <- Lost

\* A connection that is the first of its descriptor is a channel in both
\* directions, whatever the threads do and however it ends.
OutChannel == Out!Safe
InChannel == In!Safe

\* And packs pass, with every queue bounded and both ends waiting for room,
\* until the connection is lost.
OutDelivers == Out!Delivers
InDelivers == In!Delivers

=============================================================================
