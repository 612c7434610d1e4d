---------------------------- MODULE ObnPipeline ----------------------------
(***************************************************************************)
(* The receiver of the ocean-bottom nodes (mseed_tcp_server/obn_server.py): *)
(* connection threads cut the stream of their peer into packets of a fixed  *)
(* size and submit() them; an instrument is the peer's address, so that the *)
(* old and the new connection of one instrument feed the same queue; one    *)
(* worker per queue appends a packet to the instrument's HDF5 file, column  *)
(* by column.                                                              *)
(*                                                                         *)
(* The pipeline resembles MSeedWritePipeline but is code of its own.  A     *)
(* refused submit() ends the connection thread; a packet that cannot be     *)
(* parsed or written is logged and gone; close() tries to put each marker   *)
(* at least once, the deadline passed or not.                              *)
(***************************************************************************)
EXTENDS Integers, Sequences, Functions

CONSTANTS
  Handlers,         \* connection threads
  Instruments,      \* instrument ids: OBN_<client ip>
  InstrumentOf,     \* the instrument of each connection
  Crc32,            \* zlib.crc32 of each instrument id
  WriterThreads,    \* OBN_WRITER_THREADS
  QueueMaxPackets,  \* OBN_QUEUE_MAX_PACKETS
  MaxPackets,       \* bound: packets each connection sends
  OldFiles,         \* files of earlier runs: [rows, raw], raw_packets there or not
  None,             \* Python's None: no task, and the shutdown marker
  Blank,            \* a row that was resized but not written
  Old               \* a packet of an earlier run

AtLeastOne(n) == IF n < 1 THEN 1 ELSE n

WorkerCount == AtLeastOne(WriterThreads)
PerShard == AtLeastOne((AtLeastOne(QueueMaxPackets) + WorkerCount - 1) \div WorkerCount)
Shards == 0 .. WorkerCount - 1

\* The no-th packet of a connection, and its instrument.
PacketTask ==
  [conn : Handlers, no : UNION {1 .. MaxPackets[h] : h \in Handlers}, dev : Instruments]
Item == PacketTask \cup {None}

\* The datasets of a file that grow with each packet, in the order of writing.
Columns == <<"samples", "packet_time_us", "packet_no", "packet_flags", "raw_packets">>
Column == Range(Columns)
Cell == PacketTask \cup {Blank, Old}

ASSUME ConstantsAssumption ==
  /\ WriterThreads \in Int /\ QueueMaxPackets \in Int
  /\ MaxPackets \in [Handlers -> Nat] /\ OldFiles \subseteq [rows : Nat, raw : BOOLEAN]
  /\ InstrumentOf \in [Handlers -> Instruments]
  /\ Crc32 \in [Instruments -> Nat]
  /\ None \notin PacketTask /\ {Blank, Old} \cap PacketTask = {} /\ Blank # Old

VARIABLES
  pc,          \* where each connection thread is
  pending,     \* the packet each connection thread is submitting
  received,    \* how many packets each connection has cut off
  queue,       \* the bounded FIFO queue of each shard
  unfinished,  \* Queue.unfinished_tasks of each shard
  worker,      \* where each worker thread is in _worker()
  hand,        \* the item each worker took from its queue
  column,      \* index into Columns that append_packet() has reached
  files,       \* the columns of each instrument's file
  created,     \* how many of metadata and the first four columns each file has
  stopping,    \* the _stopping Event
  closer,      \* where the main thread is: serving, or inside close()
  at,          \* the shard index of close()'s for loops
  expired,     \* the drain deadline has passed
  accepted,    \* history: per instrument, packets whose submit() returned True
  processed,   \* history: per instrument, packets a worker is done with, in order
  failed,      \* history: packets that were malformed or met an HDF5 error
  broken,      \* history: packets whose file lacks a column
  late         \* history: packets put after _stopping was set

handlerVars == <<pc, pending, received>>
workerVars  == <<worker, hand, column>>
store       == <<files, created>>
closeVars   == <<stopping, closer, at, expired>>
history     == <<accepted, processed, failed, broken, late>>
vars == <<handlerVars, queue, unfinished, workerVars, store, closeVars, history>>

\* A file of an earlier run: rows written before raw_packets existed have none.
OldFile(old) ==
  [c \in Column |-> IF c = "raw_packets" /\ ~old.raw THEN << >>
                                                     ELSE [i \in 1 .. old.rows |-> Old]]
NoRows == [c \in Column |-> << >>]

Init ==
  /\ pc = [h \in Handlers |-> "receiving"]
  /\ pending = [h \in Handlers |-> None]
  /\ received = [h \in Handlers |-> 0]
  /\ queue = [s \in Shards |-> << >>]
  /\ unfinished = [s \in Shards |-> 0]
  /\ worker = [s \in Shards |-> "getting"]
  /\ hand = [s \in Shards |-> None]
  /\ column = [s \in Shards |-> 1]
  /\ created \in [Instruments -> {0, Len(Columns)}]
  /\ files \in [Instruments -> {NoRows} \cup {OldFile(old) : old \in OldFiles}]
  /\ \A i \in Instruments : created[i] = 0 <=> files[i] = NoRows
  /\ stopping = FALSE
  /\ closer = "serving"
  /\ at = 0
  /\ expired = FALSE
  /\ accepted = [i \in Instruments |-> << >>]
  /\ processed = [i \in Instruments |-> << >>]
  /\ failed = {} /\ broken = {}
  /\ late = {}

\* The process lives until the main thread has left close() or a signal kills
\* it: SIGTERM has no handler.
Alive == closer \notin {"exited", "killed"}

\* Mutation of ShardOf: packets are spread over the shards one by one.
ShardOfPacket(task) == task.no % WorkerCount

\* _queue_for(): the queue of a packet's instrument.
ShardOf(task) == Crc32[task.dev] % WorkerCount

\* Mutation of Full: one packet too many.
FullOffByOne(s) == Len(queue[s]) > PerShard

Full(s) == Len(queue[s]) >= PerShard

-----------------------------------------------------------------------------
(* Connection threads: OBNRequestHandler.handle() and submit(). *)

\* PACKET_SIZE bytes have arrived, and become a packet to submit.
Receive(h) ==
  /\ Alive
  /\ pc[h] = "receiving"
  /\ received[h] < MaxPackets[h]
  /\ pending' = [pending EXCEPT ![h] = [conn |-> h, no |-> received[h] + 1,
                                        dev |-> InstrumentOf[h]]]
  /\ received' = [received EXCEPT ![h] = @ + 1]
  /\ pc' = [pc EXCEPT ![h] = "submitting"]
  /\ UNCHANGED <<queue, unfinished, workerVars, store, closeVars, history>>

\* Mutation of TestStopping: submit() does not look at _stopping.
TestNothing(h) ==
  /\ Alive
  /\ pc[h] = "submitting"
  /\ pc' = [pc EXCEPT ![h] = "putting"]
  /\ UNCHANGED <<pending, received, queue, unfinished, workerVars, store, closeVars, history>>

\* `while not self._stopping.is_set()`, before each attempt to put the packet.
\* If it is set, submit() returns False and the thread returns from handle().
TestStopping(h) ==
  /\ Alive
  /\ pc[h] = "submitting"
  /\ IF stopping
     THEN /\ pc' = [pc EXCEPT ![h] = "ended"]
          /\ pending' = [pending EXCEPT ![h] = None]
     ELSE /\ pc' = [pc EXCEPT ![h] = "putting"]
          /\ UNCHANGED pending
  /\ UNCHANGED <<received, queue, unfinished, workerVars, store, closeVars, history>>

Put(h) ==
  LET task == pending[h]
      s    == ShardOf(task)
  IN  /\ Alive
      /\ pc[h] = "putting"
      /\ ~Full(s)
      /\ queue' = [queue EXCEPT ![s] = Append(@, task)]
      /\ unfinished' = [unfinished EXCEPT ![s] = @ + 1]
      /\ accepted' = [accepted EXCEPT ![task.dev] = Append(@, task)]
      /\ late' = IF stopping THEN late \cup {task} ELSE late
      /\ pending' = [pending EXCEPT ![h] = None]
      /\ pc' = [pc EXCEPT ![h] = "receiving"]
      /\ UNCHANGED <<received, workerVars, store, closeVars, processed, failed, broken>>

PutTimesOut(h) ==
  /\ Alive
  /\ pc[h] = "putting"
  /\ Full(ShardOf(pending[h]))
  /\ pc' = [pc EXCEPT ![h] = "submitting"]
  /\ UNCHANGED <<pending, received, queue, unfinished, workerVars, store, closeVars, history>>

-----------------------------------------------------------------------------
(* Worker threads: _worker(), parse_packet() and append_packet(). *)

Get(s) ==
  /\ Alive
  /\ worker[s] = "getting"
  /\ queue[s] # << >>
  /\ hand' = [hand EXCEPT ![s] = Head(queue[s])]
  /\ queue' = [queue EXCEPT ![s] = Tail(@)]
  /\ worker' = [worker EXCEPT ![s] = IF Head(queue[s]) = None THEN "finishing" ELSE "parsing"]
  /\ UNCHANGED <<handlerVars, unfinished, column, store, closeVars, history>>

Parse(s) ==
  /\ Alive
  /\ worker[s] = "parsing"
  /\ worker' = [worker EXCEPT ![s] = "opening"]
  /\ UNCHANGED <<handlerVars, queue, unfinished, hand, column, store, closeVars, history>>

\* Mutation of Open: the file is opened with mode "w".
OpenTruncating(s) ==
  /\ Alive
  /\ worker[s] = "opening"
  /\ created' = [created EXCEPT ![hand[s].dev] = Len(Columns)]
  /\ files' = [files EXCEPT ![hand[s].dev] = [c \in Column |-> << >>]]
  /\ worker' = [worker EXCEPT ![s] = "appending"]
  /\ column' = [column EXCEPT ![s] = 1]
  /\ UNCHANGED <<handlerVars, queue, unfinished, hand, closeVars, history>>

\* The file is opened; metadata and the first four columns are created together
\* if there is no metadata, raw_packets whenever it is missing.
Open(s) ==
  /\ Alive
  /\ worker[s] = "opening"
  /\ created' = [created EXCEPT ![hand[s].dev] = IF @ = 0 THEN Len(Columns) ELSE @]
  /\ worker' = [worker EXCEPT ![s] = "appending"]
  /\ column' = [column EXCEPT ![s] = 1]
  /\ UNCHANGED <<handlerVars, queue, unfinished, hand, files, closeVars, history>>

\* A dataset resized to n rows; new ones hold the fill value.
Resized(cells, n) == [k \in 1 .. n |-> IF k <= Len(cells) THEN cells[k] ELSE Blank]

\* Mutation of RowOf: each column is appended to at its own end.
OwnRowOf(s) == Len(files[hand[s].dev][Columns[column[s]]]) + 1

\* The packet's row: idx = samples.shape[0], read before the first resize.
RowOf(s) ==
  LET rows == Len(files[hand[s].dev].samples)
  IN  IF column[s] = 1 THEN rows + 1 ELSE rows

\* The file has the column that is written next.
ColumnExists(s) ==
  Columns[column[s]] # "raw_packets" => column[s] < created[hand[s].dev]

\* One column after the other: resize(idx + 1), then the value.
WriteColumn(s) ==
  LET n == RowOf(s)
  IN  /\ Alive
      /\ worker[s] = "appending"
      /\ column[s] <= Len(Columns) /\ ColumnExists(s)
      /\ files' = [files EXCEPT ![hand[s].dev][Columns[column[s]]] =
                     [Resized(@, n) EXCEPT ![n] = hand[s]]]
      /\ column' = [column EXCEPT ![s] = @ + 1]
      /\ UNCHANGED <<handlerVars, queue, unfinished, worker, hand, created, closeVars, history>>

\* The packet in hand is done with; what is left is the finally clause.
Processed(s) ==
  /\ processed' = [processed EXCEPT ![hand[s].dev] = Append(@, hand[s])]
  /\ worker' = [worker EXCEPT ![s] = "finishing"]

\* flush(), and the file is closed.
Flush(s) ==
  /\ Alive
  /\ worker[s] = "appending"
  /\ column[s] > Len(Columns)
  /\ Processed(s)
  /\ UNCHANGED <<handlerVars, queue, unfinished, hand, column, store, closeVars,
                 accepted, failed, broken, late>>

\* What an HDF5 error may leave behind: nothing, a file that was not created
\* completely, or a column that was resized but not written.
Residue(s) ==
  \/ UNCHANGED store
  \/ /\ worker[s] = "opening" /\ created[hand[s].dev] = 0
     /\ \E n \in 1 .. Len(Columns) - 1 : created' = [created EXCEPT ![hand[s].dev] = n]
     /\ UNCHANGED files
  \/ /\ worker[s] = "appending" /\ column[s] <= Len(Columns) /\ ColumnExists(s)
     /\ files' = [files EXCEPT ![hand[s].dev][Columns[column[s]]] = Resized(@, RowOf(s))]
     /\ UNCHANGED created

\* The packet is malformed or an HDF5 call raises; the worker logs it and goes on.
Raises(s) ==
  /\ Alive
  /\ worker[s] \in {"parsing", "opening", "appending"}
  /\ Residue(s)
  /\ failed' = failed \cup {hand[s]}
  /\ Processed(s)
  /\ UNCHANGED <<handlerVars, queue, unfinished, hand, column, closeVars, accepted, broken, late>>

\* KeyError: the file was not created completely, and is not completed now.
ColumnMissing(s) ==
  /\ Alive
  /\ worker[s] = "appending"
  /\ column[s] <= Len(Columns) /\ ~ColumnExists(s)
  /\ broken' = broken \cup {hand[s]}
  /\ Processed(s)
  /\ UNCHANGED <<handlerVars, queue, unfinished, hand, column, store, closeVars,
                 accepted, failed, late>>

\* The finally clause; after the None marker the thread has returned.
TaskDone(s) ==
  /\ Alive
  /\ worker[s] = "finishing"
  /\ unfinished' = [unfinished EXCEPT ![s] = @ - 1]
  /\ hand' = [hand EXCEPT ![s] = None]
  /\ worker' = [worker EXCEPT ![s] = IF hand[s] = None THEN "exited" ELSE "getting"]
  /\ UNCHANGED <<handlerVars, queue, column, store, closeVars, history>>

-----------------------------------------------------------------------------
(* The main thread: close(). *)

CloseBegin ==
  /\ closer = "serving"
  /\ stopping' = TRUE
  /\ closer' = "draining"
  /\ UNCHANGED <<handlerVars, queue, unfinished, workerVars, store, at, expired, history>>

\* time.monotonic() reaches the deadline.
DeadlinePasses ==
  /\ Alive
  /\ stopping
  /\ ~expired
  /\ expired' = TRUE
  /\ UNCHANGED <<handlerVars, queue, unfinished, workerVars, store, stopping, closer, at, history>>

\* The first loop waits shard by shard, and breaks off at the deadline.
DrainShard ==
  /\ closer = "draining"
  /\ at < WorkerCount
  /\ \/ expired /\ at' = WorkerCount
     \/ ~expired /\ unfinished[at] = 0 /\ at' = at + 1
  /\ UNCHANGED <<handlerVars, queue, unfinished, workerVars, store, stopping, closer,
                 expired, history>>

DrainEnds ==
  /\ closer = "draining"
  /\ at = WorkerCount
  /\ closer' = "marking"
  /\ at' = 0
  /\ UNCHANGED <<handlerVars, queue, unfinished, workerVars, store, stopping, expired, history>>

PutMarker ==
  /\ closer = "marking"
  /\ at < WorkerCount
  /\ ~Full(at)
  /\ queue' = [queue EXCEPT ![at] = Append(@, None)]
  /\ unfinished' = [unfinished EXCEPT ![at] = @ + 1]
  /\ at' = at + 1
  /\ UNCHANGED <<handlerVars, workerVars, store, stopping, closer, expired, history>>

\* queue.Full, and the deadline has passed: the worker gets no marker.
GiveUpMarker ==
  /\ closer = "marking"
  /\ at < WorkerCount
  /\ Full(at)
  /\ expired
  /\ at' = at + 1
  /\ UNCHANGED <<handlerVars, queue, unfinished, workerVars, store, stopping, closer,
                 expired, history>>

JoinWorkers ==
  /\ closer = "marking"
  /\ at = WorkerCount
  /\ expired \/ \A s \in Shards : worker[s] = "exited"
  /\ closer' = "exited"
  /\ UNCHANGED <<handlerVars, queue, unfinished, workerVars, store, stopping, at, expired, history>>

\* The process is killed: what is queued or in hand is gone.
Killed ==
  /\ Alive
  /\ closer' = "killed"
  /\ UNCHANGED <<handlerVars, queue, unfinished, workerVars, store, stopping, at, expired, history>>

Next ==
  \/ \E h \in Handlers : Receive(h) \/ TestStopping(h) \/ Put(h) \/ PutTimesOut(h)
  \/ \E s \in Shards :
       \/ Get(s) \/ Parse(s) \/ Open(s) \/ WriteColumn(s) \/ Flush(s)
       \/ Raises(s) \/ ColumnMissing(s) \/ TaskDone(s)
  \/ CloseBegin \/ DeadlinePasses \/ DrainShard \/ DrainEnds
  \/ PutMarker \/ GiveUpMarker \/ JoinWorkers \/ Killed

Spec == Init /\ [][Next]_vars

-----------------------------------------------------------------------------
(* Properties. *)

TypeOK ==
  /\ pc \in [Handlers -> {"receiving", "submitting", "putting", "ended"}]
  /\ pending \in [Handlers -> Item]
  /\ received \in [Handlers -> Nat] /\ \A h \in Handlers : received[h] <= MaxPackets[h]
  /\ \A h \in Handlers : pc[h] \in {"submitting", "putting"} =>
       pending[h] = [conn |-> h, no |-> received[h], dev |-> InstrumentOf[h]]
  /\ queue \in [Shards -> Seq(Item)]
  /\ \A s \in Shards : Len(queue[s]) <= PerShard
  /\ unfinished \in [Shards -> Nat]
  /\ worker \in [Shards -> {"getting", "parsing", "opening", "appending", "finishing", "exited"}]
  /\ hand \in [Shards -> Item]
  /\ \A s \in Shards : worker[s] \in {"parsing", "opening", "appending"} => hand[s] \in PacketTask
  /\ column \in [Shards -> 1 .. Len(Columns) + 1]
  /\ files \in [Instruments -> [Column -> Seq(Cell)]]
  /\ created \in [Instruments -> 0 .. Len(Columns)]
  /\ stopping \in BOOLEAN /\ expired \in BOOLEAN
  /\ closer \in {"serving", "draining", "marking", "exited", "killed"}
  /\ at \in 0 .. WorkerCount
  /\ accepted \in [Instruments -> Seq(PacketTask)]
  /\ processed \in [Instruments -> Seq(PacketTask)]
  /\ failed \subseteq PacketTask /\ broken \subseteq PacketTask /\ late \subseteq PacketTask

\* The columns of a file never disagree about a packet: a row's time, number and
\* bytes are those of the packet whose samples it holds, or blank, also when
\* writes failed half way and left columns of different lengths, and while the
\* portal reads between two columns.
RowsAligned ==
  \A i \in Instruments : \A c \in 2 .. Len(Columns) :
    LET cells == files[i][Columns[c]]
    IN  /\ Len(cells) <= Len(files[i][Columns[c - 1]])
        /\ \A k \in 1 .. Len(cells) : cells[k] # Blank => files[i].samples[k] = cells[k]

\* The rows of instrument i that hold packet p's samples.
RowsOf(i, p) == {k \in 1 .. Len(files[i].samples) : files[i].samples[k] = p}

\* "packets for one instrument always reach the same worker and are written in
\* arrival order" (class docstring), with an old and a new connection of the
\* instrument, failing writes and a shutdown in progress: an instrument's rows
\* are in the order of acceptance, and no packet has two.
WrittenInArrivalOrder ==
  \A i \in Instruments : \A a, b \in 1 .. Len(accepted[i]) : a <= b =>
    \A j \in RowsOf(i, accepted[i][a]), k \in RowsOf(i, accepted[i][b]) :
      IF a = b THEN j = k ELSE j < k

\* A packet that was processed and did not raise has a complete row, and stays
\* readable whatever fails after it.
ProcessedIsStored ==
  \A i \in Instruments : \A a \in 1 .. Len(processed[i]) :
    LET p == processed[i][a]
    IN  p \notin failed \cup broken =>
          \E k \in RowsOf(i, p) : \A c \in Column :
            k <= Len(files[i][c]) /\ files[i][c][k] = p

\* "one failed HDF5 write must not kill the worker; subsequent packets and other
\* instruments keep flowing": a packet is lost only to an error of its own.
SubsequentPacketsFlow == broken = {}

-----------------------------------------------------------------------------
(* Refinement. *)

Phase ==
  IF closer = "killed" THEN "killed"
  ELSE IF ~stopping THEN "open"
  ELSE IF Alive THEN "stopping"
  ELSE IF expired THEN "expired" ELSE "drained"

Log == INSTANCE PacketLog WITH Devices <- Instruments, Packets <- PacketTask,
                               phase <- Phase, arrived <- accepted, settled <- processed,
                               lost <- {}

\* This pipeline keeps the promises of PacketLog too: packets are processed in
\* the order of acceptance, each connection's in its own order, and a shutdown
\* within its deadline loses at most one packet per connection, one that was
\* accepted after the stop.  Nothing is lost to an exception that ends a worker: this
\* one catches them all.
ImplementsPacketLog == Log!Spec

=============================================================================
