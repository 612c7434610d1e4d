--------------------------- MODULE WritePipeline ---------------------------
(***************************************************************************)
(* The bounded, device-sharded writer pipeline of the miniSEED receiver    *)
(* (MSeedWritePipeline, mseed_tcp_server/server.py).  Connection threads    *)
(* parse packets and submit() them to the FIFO queue of the device's shard; *)
(* one worker thread per shard hands them to the HDF5 store or, when the    *)
(* store raises, to the quarantine file.  quarantine_packet() catches what   *)
(* goes wrong while it writes the file, but not an OSError of               *)
(* quarantine_path(), which makes the directory: that one ends the worker   *)
(* thread, and with it the service of the shard.  close() stops the intake, *)
(* drains the queues until a deadline, sends every worker a None marker,    *)
(* joins the workers and lets the process end.  A signal may kill the       *)
(* process anywhere: SIGTERM, which systemctl sends, has no handler and     *)
(* bypasses close().                                                        *)
(*                                                                         *)
(* Every thread's steps interleave.  A step is what the code does between   *)
(* two points where another thread can be seen: reading `stopping`, a       *)
(* successful or timed-out Queue.put, Queue.get, the return of              *)
(* insert_packet, the return or the raise of quarantine_packet, task_done.  *)
(***************************************************************************)
EXTENDS Integers, Sequences, Functions

CONSTANTS
  Handlers,              \* connection threads, one per TCP connection
  Devices,               \* device ids: <client ip>_<port>_<network>_<station>
  Crc32,                 \* zlib.crc32 of each device id
  WriterThreads,         \* config.server.writer_threads
  WriteQueueMaxPackets,  \* config.server.write_queue_max_packets
  MaxPackets,            \* bound: packets one connection parses
  Healthy,               \* shards whose worker keeps running (for fairness)
  None                   \* Python's None: no task, and the shutdown marker

AtLeastOne(n) == IF n < 1 THEN 1 ELSE n

WorkerCount == AtLeastOne(WriterThreads)
PerShard ==
  AtLeastOne((AtLeastOne(WriteQueueMaxPackets) + WorkerCount - 1) \div WorkerCount)
Shards == 0 .. WorkerCount - 1

\* A parsed packet: the no-th one of its connection, from device dev.
Task == [conn : Handlers, no : 1 .. MaxPackets, dev : Devices]
Item == Task \cup {None}

\* Mutation of ShardOf: packets are spread over the shards one by one.
ShardOfPacket(task) == task.no % WorkerCount

\* The queue submit() chooses for a packet.
ShardOf(task) == Crc32[task.dev] % WorkerCount

ASSUME ConstantsAssumption ==
  /\ WriterThreads \in Int
  /\ WriteQueueMaxPackets \in Int
  /\ MaxPackets \in Nat
  /\ Crc32 \in [Devices -> Nat]
  /\ Healthy \subseteq Shards
  /\ None \notin Task

VARIABLES
  pc,          \* where each connection thread is in handle()/submit()
  pending,     \* the packet each connection thread is submitting
  received,    \* how many packets each connection has parsed
  queue,       \* the bounded FIFO queue of each shard
  unfinished,  \* Queue.unfinished_tasks of each shard
  worker,      \* where each worker thread is in _worker()
  hand,        \* the item each worker took; of a dead one, what it died with
  stopping,    \* the stopping Event
  closer,      \* where the main thread is: serving, or inside close()
  at,          \* the shard index of close()'s for loops
  expired,     \* the drain deadline has passed
  accepted,    \* history: per device, packets whose submit() returned True
  settled,     \* history: per device, the packets dealt with, in order: stored,
               \* found duplicate, quarantined or, when the quarantine file
               \* cannot be written, given up with a log line
  late,        \* history: packets put after `stopping` was set
  refused      \* history: packets whose submit() returned False

handlerVars == <<pc, pending, received>>
workerVars  == <<worker, hand>>
closeVars   == <<stopping, closer, at, expired>>
vars == <<handlerVars, queue, unfinished, workerVars, closeVars,
          accepted, settled, late, refused>>

Init ==
  /\ pc = [h \in Handlers |-> "receiving"]
  /\ pending = [h \in Handlers |-> None]
  /\ received = [h \in Handlers |-> 0]
  /\ queue = [s \in Shards |-> << >>]
  /\ unfinished = [s \in Shards |-> 0]
  /\ worker = [s \in Shards |-> "getting"]
  /\ hand = [s \in Shards |-> None]
  /\ stopping = FALSE
  /\ closer = "serving"
  /\ at = 0
  /\ expired = FALSE
  /\ accepted = [d \in Devices |-> << >>]
  /\ settled = [d \in Devices |-> << >>]
  /\ late = {}
  /\ refused = {}

\* The process is there until the main thread has left close() or a signal
\* kills it; worker and connection threads are daemons and end with it.
Alive == closer \notin {"exited", "killed"}

\* Mutation of Full: one packet too many.
FullOffByOne(s) == Len(queue[s]) > PerShard

Full(s) == Len(queue[s]) >= PerShard

-----------------------------------------------------------------------------
(* Connection threads: _process_buffer() and submit(). *)

\* One packet has been framed and parsed; submit() is called with it.
Receive(h) ==
  /\ Alive
  /\ pc[h] = "receiving"
  /\ received[h] < MaxPackets
  /\ \E d \in Devices :
       pending' = [pending EXCEPT ![h] = [conn |-> h, no |-> received[h] + 1, dev |-> d]]
  /\ received' = [received EXCEPT ![h] = @ + 1]
  /\ pc' = [pc EXCEPT ![h] = "submitting"]
  /\ UNCHANGED <<queue, unfinished, workerVars, closeVars, accepted, settled, late, refused>>

\* Mutation of PassStoppingCheck: submit() does not look at `stopping`.
PassUnchecked(h) ==
  /\ Alive
  /\ pc[h] = "submitting"
  /\ pc' = [pc EXCEPT ![h] = "putting"]
  /\ UNCHANGED <<pending, received, queue, unfinished, workerVars, closeVars,
                 accepted, settled, late, refused>>

\* `while not self.stopping.is_set()`: go on to put the packet ...
PassStoppingCheck(h) ==
  /\ Alive
  /\ pc[h] = "submitting"
  /\ ~stopping
  /\ pc' = [pc EXCEPT ![h] = "putting"]
  /\ UNCHANGED <<pending, received, queue, unfinished, workerVars, closeVars,
                 accepted, settled, late, refused>>

\* ... or return False: the handler drops this packet and goes on receiving.
Refuse(h) ==
  /\ Alive
  /\ pc[h] = "submitting"
  /\ stopping
  /\ refused' = refused \cup {pending[h]}
  /\ pending' = [pending EXCEPT ![h] = None]
  /\ pc' = [pc EXCEPT ![h] = "receiving"]
  /\ UNCHANGED <<received, queue, unfinished, workerVars, closeVars, accepted, settled, late>>

\* Mutation of Put: submit() does not return after a put and goes round again.
PutAgain(h) ==
  LET task == pending[h]
      s    == ShardOf(task)
  IN  /\ Alive
      /\ pc[h] = "putting"
      /\ ~Full(s)
      /\ queue' = [queue EXCEPT ![s] = Append(@, task)]
      /\ unfinished' = [unfinished EXCEPT ![s] = @ + 1]
      /\ accepted' = [accepted EXCEPT ![task.dev] = Append(@, task)]
      /\ late' = IF stopping THEN late \cup {task} ELSE late
      /\ pc' = [pc EXCEPT ![h] = "submitting"]
      /\ UNCHANGED <<pending, received, workerVars, closeVars, settled, refused>>

\* work_queue.put() succeeds: nothing here looks at `stopping` again.
Put(h) ==
  LET task == pending[h]
      s    == ShardOf(task)
  IN  /\ Alive
      /\ pc[h] = "putting"
      /\ ~Full(s)
      /\ queue' = [queue EXCEPT ![s] = Append(@, task)]
      /\ unfinished' = [unfinished EXCEPT ![s] = @ + 1]
      /\ accepted' = [accepted EXCEPT ![task.dev] = Append(@, task)]
      /\ late' = IF stopping THEN late \cup {task} ELSE late
      /\ pending' = [pending EXCEPT ![h] = None]
      /\ pc' = [pc EXCEPT ![h] = "receiving"]
      /\ UNCHANGED <<received, workerVars, closeVars, settled, refused>>

\* Mutation of PutTimesOut: submit() gives up on a full shard, returning False.
PutGivesUp(h) ==
  /\ Alive
  /\ pc[h] = "putting"
  /\ Full(ShardOf(pending[h]))
  /\ refused' = refused \cup {pending[h]}
  /\ pending' = [pending EXCEPT ![h] = None]
  /\ pc' = [pc EXCEPT ![h] = "receiving"]
  /\ UNCHANGED <<received, queue, unfinished, workerVars, closeVars, accepted, settled, late>>

\* put() times out on a full shard: log, and test `stopping` again.
PutTimesOut(h) ==
  /\ Alive
  /\ pc[h] = "putting"
  /\ Full(ShardOf(pending[h]))
  /\ pc' = [pc EXCEPT ![h] = "submitting"]
  /\ UNCHANGED <<pending, received, queue, unfinished, workerVars, closeVars,
                 accepted, settled, late, refused>>

Submitting(h) == PassStoppingCheck(h) \/ Refuse(h) \/ Put(h) \/ PutTimesOut(h)

-----------------------------------------------------------------------------
(* Worker threads: _worker(). *)

Get(s) ==
  /\ Alive
  /\ worker[s] = "getting"
  /\ queue[s] # << >>
  /\ hand' = [hand EXCEPT ![s] = Head(queue[s])]
  /\ queue' = [queue EXCEPT ![s] = Tail(@)]
  /\ worker' = [worker EXCEPT ![s] = IF Head(queue[s]) = None THEN "finishing"
                                                             ELSE "inserting"]
  /\ UNCHANGED <<handlerVars, unfinished, closeVars, accepted, settled, late, refused>>

\* Mutation of Settle: `continue` outside the finally clause, no task_done().
SettleWithoutDone(s) ==
  /\ settled' = [settled EXCEPT ![hand[s].dev] = Append(@, hand[s])]
  /\ worker' = [worker EXCEPT ![s] = "getting"]
  /\ UNCHANGED <<handlerVars, queue, unfinished, hand, closeVars, accepted, late, refused>>

\* The packet in hand is dealt with; what is left is the finally clause.
Settle(s) ==
  /\ settled' = [settled EXCEPT ![hand[s].dev] = Append(@, hand[s])]
  /\ worker' = [worker EXCEPT ![s] = "finishing"]
  /\ UNCHANGED <<handlerVars, queue, unfinished, hand, closeVars, accepted, late, refused>>

\* insert_packet() returned, with the packet stored or found a duplicate.
InsertPacket(s) ==
  /\ Alive
  /\ worker[s] = "inserting"
  /\ Settle(s)

\* Mutation of InsertRaises: the exception is swallowed, nothing is quarantined.
InsertRaisesDropped(s) ==
  /\ Alive
  /\ worker[s] = "inserting"
  /\ worker' = [worker EXCEPT ![s] = "finishing"]
  /\ UNCHANGED <<handlerVars, queue, unfinished, hand, closeVars,
                 accepted, settled, late, refused>>

\* insert_packet() raised: quarantine_packet() is called.
InsertRaises(s) ==
  /\ Alive
  /\ worker[s] = "inserting"
  /\ worker' = [worker EXCEPT ![s] = "quarantining"]
  /\ UNCHANGED <<handlerVars, queue, unfinished, hand, closeVars,
                 accepted, settled, late, refused>>

\* Mutation of QuarantinePacket: `return` where the code has `continue`.
QuarantineThenReturn(s) ==
  /\ Alive
  /\ worker[s] = "quarantining"
  /\ settled' = [settled EXCEPT ![hand[s].dev] = Append(@, hand[s])]
  /\ hand' = [hand EXCEPT ![s] = None]
  /\ worker' = [worker EXCEPT ![s] = "finishing"]
  /\ UNCHANGED <<handlerVars, queue, unfinished, closeVars, accepted, late, refused>>

\* quarantine_packet() returned: the packet is in the quarantine file, or the
\* file could not be written, which its try statement only logs.
QuarantinePacket(s) ==
  /\ Alive
  /\ worker[s] = "quarantining"
  /\ Settle(s)

\* quarantine_path() raised, outside that try: the exception leaves the except
\* block of _worker(), with nothing kept of the packet.
QuarantineRaises(s) ==
  /\ Alive
  /\ worker[s] = "quarantining"
  /\ worker' = [worker EXCEPT ![s] = "raising"]
  /\ UNCHANGED <<handlerVars, queue, unfinished, hand, closeVars,
                 accepted, settled, late, refused>>

\* Mutation of TaskDone: the worker returns as soon as the server is stopping.
TaskDoneThenStop(s) ==
  /\ Alive
  /\ worker[s] = "finishing"
  /\ unfinished' = [unfinished EXCEPT ![s] = @ - 1]
  /\ hand' = [hand EXCEPT ![s] = None]
  /\ worker' = [worker EXCEPT ![s] = IF stopping THEN "exited" ELSE "getting"]
  /\ UNCHANGED <<handlerVars, queue, closeVars, accepted, settled, late, refused>>

\* The finally clause; after the None marker the thread has returned.
TaskDone(s) ==
  /\ Alive
  /\ worker[s] = "finishing"
  /\ unfinished' = [unfinished EXCEPT ![s] = @ - 1]
  /\ hand' = [hand EXCEPT ![s] = None]
  /\ worker' = [worker EXCEPT ![s] = IF hand[s] = None THEN "exited" ELSE "getting"]
  /\ UNCHANGED <<handlerVars, queue, closeVars, accepted, settled, late, refused>>

\* The finally clause runs with the exception on its way out: the task counts as
\* done, and the thread, which nobody starts again, is dead.
WorkerDies(s) ==
  /\ Alive
  /\ worker[s] = "raising"
  /\ unfinished' = [unfinished EXCEPT ![s] = @ - 1]
  /\ worker' = [worker EXCEPT ![s] = "died"]
  /\ UNCHANGED <<handlerVars, queue, hand, closeVars, accepted, settled, late, refused>>

Work(s) ==
  \/ Get(s) \/ InsertPacket(s) \/ InsertRaises(s) \/ QuarantinePacket(s)
  \/ QuarantineRaises(s) \/ TaskDone(s) \/ WorkerDies(s)

-----------------------------------------------------------------------------
(* The main thread: close(), called by server_close(). *)

CloseBegin ==
  /\ closer = "serving"
  /\ stopping' = TRUE
  /\ closer' = "draining"
  /\ UNCHANGED <<handlerVars, queue, unfinished, workerVars, at, expired,
                 accepted, settled, late, refused>>

\* time.monotonic() reaches the deadline.
DeadlinePasses ==
  /\ Alive
  /\ stopping
  /\ ~expired
  /\ expired' = TRUE
  /\ UNCHANGED <<handlerVars, queue, unfinished, workerVars, stopping, closer, at,
                 accepted, settled, late, refused>>

\* One shard of the polling loop: no unfinished task, or no time left.
DrainShard ==
  /\ closer = "draining"
  /\ at < WorkerCount
  /\ unfinished[at] = 0 \/ expired
  /\ at' = at + 1
  /\ UNCHANGED <<handlerVars, queue, unfinished, workerVars, stopping, closer, expired,
                 accepted, settled, late, refused>>

DrainEnds ==
  /\ closer = "draining"
  /\ at = WorkerCount
  /\ closer' = "marking"
  /\ at' = 0
  /\ UNCHANGED <<handlerVars, queue, unfinished, workerVars, stopping, expired,
                 accepted, settled, late, refused>>

\* Mutation of TryMarker: the marker is tried without a deadline.
TryMarkerForever ==
  /\ closer = "marking"
  /\ at < WorkerCount
  /\ closer' = "markerput"
  /\ UNCHANGED <<handlerVars, queue, unfinished, workerVars, stopping, at, expired,
                 accepted, settled, late, refused>>

\* `while time.monotonic() < deadline` before each attempt to put the marker.
TryMarker ==
  /\ closer = "marking"
  /\ at < WorkerCount
  /\ IF expired THEN closer' = closer /\ at' = at + 1
                ELSE closer' = "markerput" /\ at' = at
  /\ UNCHANGED <<handlerVars, queue, unfinished, workerVars, stopping, expired,
                 accepted, settled, late, refused>>

PutMarker ==
  /\ closer = "markerput"
  /\ ~Full(at)
  /\ queue' = [queue EXCEPT ![at] = Append(@, None)]
  /\ unfinished' = [unfinished EXCEPT ![at] = @ + 1]
  /\ closer' = "marking"
  /\ at' = at + 1
  /\ UNCHANGED <<handlerVars, workerVars, stopping, expired,
                 accepted, settled, late, refused>>

MarkerTimesOut ==
  /\ closer = "markerput"
  /\ Full(at)
  /\ closer' = "marking"
  /\ UNCHANGED <<handlerVars, queue, unfinished, workerVars, stopping, at, expired,
                 accepted, settled, late, refused>>

\* Every join() has returned, the worker ended (on its marker or by an exception)
\* or the time used up.
JoinWorkers ==
  /\ closer = "marking"
  /\ at = WorkerCount
  /\ expired \/ \A s \in Shards : worker[s] \in {"exited", "died"}
  /\ closer' = "closed"
  /\ UNCHANGED <<handlerVars, queue, unfinished, workerVars, stopping, at, expired,
                 accepted, settled, late, refused>>

\* The main thread returns from run_server() and the interpreter ends.
ProcessExits ==
  /\ closer = "closed"
  /\ closer' = "exited"
  /\ UNCHANGED <<handlerVars, queue, unfinished, workerVars, stopping, at, expired,
                 accepted, settled, late, refused>>

\* The process is killed: what is queued or in hand is gone.
Killed ==
  /\ Alive
  /\ closer' = "killed"
  /\ UNCHANGED <<handlerVars, queue, unfinished, workerVars, stopping, at, expired,
                 accepted, settled, late, refused>>

Closing ==
  \/ DrainShard \/ DrainEnds \/ TryMarker \/ PutMarker \/ MarkerTimesOut
  \/ JoinWorkers \/ ProcessExits

Next ==
  \/ \E h \in Handlers : Receive(h) \/ Submitting(h)
  \/ \E s \in Shards : Work(s)
  \/ CloseBegin \/ DeadlinePasses \/ Closing \/ Killed

Spec == Init /\ [][Next]_vars

\* Threads that are not blocked are scheduled, and time passes.  Nothing makes
\* peers send, makes anyone stop the server, or frees a worker that hangs in
\* HDF5: only the workers of Healthy shards are assumed to keep running.
Fairness ==
  /\ \A h \in Handlers : WF_vars(Submitting(h))
  /\ \A s \in Healthy : WF_vars(Work(s))
  /\ WF_vars(DeadlinePasses)
  /\ WF_vars(Closing)

FairSpec == Spec /\ Fairness

-----------------------------------------------------------------------------
(* Properties. *)

\* The worker has a packet it has not dealt with, or died with one.
HasPacket(s) == worker[s] \in {"inserting", "quarantining", "raising", "died"}

\* The packets an exception of quarantine_path() has taken out of the pipeline.
Lost == {hand[s] : s \in {r \in Shards : worker[r] \in {"raising", "died"}}}

HandlersOK ==
  /\ pc \in [Handlers -> {"receiving", "submitting", "putting"}]
  /\ pending \in [Handlers -> Item]
  /\ received \in [Handlers -> 0 .. MaxPackets]
  /\ \A h \in Handlers : pc[h] # "receiving" =>
       /\ pending[h] \in Task
       /\ pending[h].conn = h
       /\ pending[h].no = received[h]

QueuesOK ==
  /\ queue \in [Shards -> Seq(Item)]
  /\ \A s \in Shards : Len(queue[s]) <= PerShard
  /\ unfinished \in [Shards -> Int]

WorkersOK ==
  /\ worker \in [Shards -> {"getting", "inserting", "quarantining", "raising", "finishing",
                            "exited", "died"}]
  /\ hand \in [Shards -> Item]
  /\ \A s \in Shards : HasPacket(s) => hand[s] \in Task

CloserOK ==
  /\ closer \in {"serving", "draining", "marking", "markerput", "closed", "exited",
               "killed"}
  /\ at \in 0 .. WorkerCount
  /\ closer = "serving" => at = 0
  /\ closer = "markerput" => at < WorkerCount

FlagsOK ==
  /\ stopping \in BOOLEAN
  /\ expired \in BOOLEAN
  /\ closer = "serving" => ~stopping
  /\ closer \notin {"serving", "killed"} => stopping

HistoryOK ==
  /\ accepted \in [Devices -> Seq(Task)]
  /\ settled \in [Devices -> Seq(Task)]
  /\ late \subseteq Task
  /\ refused \subseteq Task

TypeOK == HandlersOK /\ QueuesOK /\ WorkersOK /\ CloserOK /\ FlagsOK /\ HistoryOK

\* The items a shard has yet to deal with, the one in its worker's hand first: for
\* a dead worker, the packet it died with and everything nobody will take any more.
Line(s) == IF HasPacket(s) THEN <<hand[s]>> \o queue[s] ELSE queue[s]

\* Packets of one device reach the store (or the quarantine) in exactly the
\* order in which they were accepted, whatever the other shards, the failing
\* writes, a dying worker and the shutdown do: gap detection depends on it (class
\* docstring of MSeedWritePipeline: "keeps gap detection and on-disk record order
\* correct").
DeviceOrder ==
  \A d \in Devices :
    /\ Len(settled[d]) <= Len(accepted[d])
    /\ \A i \in 1 .. Len(settled[d]) : settled[d][i] = accepted[d][i]

\* The one way to lose an accepted packet while the process lives is to kill the
\* worker of its shard: until it is settled it waits in its shard's queue or in the
\* hand of that shard's worker, unless it is the one packet quarantine_path()
\* raised on, and then it is the only one lost in its shard.
AcceptedIsHeld ==
  \A d \in Devices : \A i \in Len(settled[d]) + 1 .. Len(accepted[d]) :
    \E s \in Shards : accepted[d][i] \in Range(Line(s))

\* Items a worker has taken and not yet reported with task_done().
InWork(s) == IF worker[s] \in {"getting", "exited", "died"} THEN 0 ELSE 1

\* unfinished_tasks, the only thing close() looks at to decide that a shard is
\* drained, counts exactly the items queued or in work, on the quarantine path,
\* the marker's path and the path of an exception that ends the worker too.
UnfinishedCounts ==
  \A s \in Shards : unfinished[s] = Len(queue[s]) + InWork(s)

\* submit() and close() race between submit's test of `stopping` and its put().
\* A shutdown that met its deadline has settled every accepted packet except those
\* put after `stopping` was set and those a worker died with: a worker that died
\* leaves nothing else unsettled behind a deadline that was met.
GracefulDrain ==
  closer \in {"closed", "exited"} /\ ~expired =>
    \A d \in Devices : \A i \in Len(settled[d]) + 1 .. Len(accepted[d]) :
      accepted[d][i] \in late \cup Lost

\* Whatever is left in a queue whose worker has returned was put there after
\* `stopping` was set, even when the deadline passed: the marker is last.  (A worker
\* that died has not returned: what it leaves is any packet of its shard.)
ExitedWorkerLeavesLate ==
  \A s \in Shards : worker[s] = "exited" =>
    \A i \in 1 .. Len(queue[s]) : queue[s][i] \in late

\* The race costs each connection at most one packet: the next submit() of the
\* same thread sees `stopping` and returns False.
OneLatePerConnection ==
  \A t, u \in late : t.conn = u.conn => t = u

\* A connection's accepted packets of one device keep the order in which the
\* connection received them, also when full shards make its puts time out.
ConnectionOrder ==
  \A d \in Devices : \A i, j \in 1 .. Len(accepted[d]) :
    i < j /\ accepted[d][i].conn = accepted[d][j].conn
      => accepted[d][i].no < accepted[d][j].no

Admitted == UNION {Range(accepted[d]) : d \in Devices}

\* The packet a connection has parsed and submit() has not answered yet.
Pending(h) == IF pc[h] = "receiving" THEN {} ELSE {pending[h]}

\* Refusing never makes a hole: every packet a connection has parsed is accepted,
\* refused or being submitted, and all its accepted ones come before all its
\* refused ones, however often full shards (a dead worker's among them) time its
\* puts out and whenever the server stops.  "A full shard waits instead of
\* discarding data" (class docstring of MSeedWritePipeline).
OnlyTailRefused ==
  /\ \A h \in Handlers : \A n \in 1 .. received[h] :
       \E t \in Admitted \cup refused \cup Pending(h) : t.conn = h /\ t.no = n
  /\ \A t \in Admitted, u \in refused : t.conn = u.conn => t.no < u.no

\* A stop takes nothing but the end of what each connection sends: its refused
\* packets are the last ones, and at most one before them was put after the stop.
StopTakesTheTail == OnlyTailRefused /\ OneLatePerConnection

-----------------------------------------------------------------------------
(* The inductive invariant behind these properties. *)

\* Accepted packets are numbered in their connection's order, below the packet
\* the connection is submitting.
NumberingInv ==
  \A d \in Devices : \A i \in 1 .. Len(accepted[d]) :
    LET t == accepted[d][i]
    IN  /\ t.dev = d
        /\ t.no <= received[t.conn]
        /\ pc[t.conn] # "receiving" => t.no < received[t.conn]

\* t is in its device's log, behind the settled packets.
Unsettled(t) ==
  \E k \in Len(settled[t.dev]) + 1 .. Len(accepted[t.dev]) : accepted[t.dev][k] = t

\* A packet waiting in a shard's line belongs there, is accepted and unsettled.
WaitingInv ==
  \A s \in Shards : \A i \in 1 .. Len(Line(s)) :
    Line(s)[i] # None => ShardOf(Line(s)[i]) = s /\ Unsettled(Line(s)[i])

\* A line is in the order of acceptance.
LineOrderInv ==
  \A s \in Shards : \A i, j \in 1 .. Len(Line(s)) :
    i < j /\ Line(s)[i] # None /\ Line(s)[j] # None =>
      \A d \in Devices : \A k, l \in 1 .. Len(accepted[d]) :
        accepted[d][k] = Line(s)[i] /\ accepted[d][l] = Line(s)[j] => k < l

OrderInv ==
  ConnectionOrder /\ NumberingInv /\ WaitingInv /\ LineOrderInv /\ AcceptedIsHeld /\ DeviceOrder

\* The marker has been put into shard s's queue, or the process was killed.
MarkerPut(s) ==
  closer \in {"closed", "exited", "killed"} \/ (closer \in {"marking", "markerput"} /\ s < at)

TookMarker(s) == worker[s] = "exited" \/ (worker[s] = "finishing" /\ hand[s] = None)

\* At most one marker per shard, and behind it only packets put after the stop.
MarkerInv ==
  \A s \in Shards :
    /\ (TookMarker(s) \/ \E i \in 1 .. Len(queue[s]) : queue[s][i] = None) => MarkerPut(s)
    /\ TookMarker(s) => \A i \in 1 .. Len(queue[s]) : queue[s][i] \in late
    /\ \A i, j \in 1 .. Len(queue[s]) : i < j /\ queue[s][i] = None => queue[s][j] \in late

\* The line of shard s holds no packet accepted before the stop but a lost one.
OnlyLate(s) ==
  \A i \in 1 .. Len(Line(s)) : Line(s)[i] = None \/ Line(s)[i] \in late \cup Lost

\* Without a missed deadline, the shards close() has passed hold only late packets.
DrainInv ==
  ~expired =>
    \A s \in Shards :
      (closer = "draining" /\ s < at) \/ closer \in {"marking", "markerput", "closed", "exited"}
        => OnlyLate(s)

\* A connection with a late packet is past its last unguarded put.
LateInv ==
  /\ OneLatePerConnection
  /\ \A t \in late : stopping /\ pc[t.conn] # "putting"

\* A refused packet is below the one being submitted, and its connection is past
\* its last put.
RefusedInv ==
  /\ OnlyTailRefused
  /\ \A u \in refused :
       /\ stopping /\ pc[u.conn] # "putting"
       /\ u.no <= received[u.conn]
       /\ pc[u.conn] # "receiving" => u.no < received[u.conn]

PipelineInv ==
  /\ TypeOK /\ UnfinishedCounts /\ OrderInv /\ MarkerInv /\ DrainInv
  /\ LateInv /\ RefusedInv

-----------------------------------------------------------------------------
(* Liveness. *)

\* Each shard progresses on its own: if its worker is not stuck in a write, each
\* accepted packet of its devices is settled, however long another shard's HDF5
\* write hangs, unless the process ends first or the worker has died.
AcceptedSettles ==
  \A t \in Task : ShardOf(t) \in Healthy =>
    (t \in Range(accepted[t.dev])
       ~> t \in Range(settled[t.dev]) \/ ~Alive \/ worker[ShardOf(t)] = "died")

\* What the comment in insert_packet() says of a failing write: the packet is
\* quarantined and the device's stream goes on.  Not so when quarantine_path()
\* raises as well: that packet and all later ones of the shard stay unsettled.
WriteFailuresSurvived ==
  \A t \in Task : ShardOf(t) \in Healthy =>
    (t \in Range(accepted[t.dev]) ~> t \in Range(settled[t.dev]) \/ ~Alive)

\* close() is bounded: with any worker hanging and any queue full, the process
\* ends once it was asked to stop.
ShutdownEnds == stopping ~> ~Alive

-----------------------------------------------------------------------------
(* Refinement: the pipeline keeps the promises of PacketLog. *)

Phase ==
  IF closer = "killed" THEN "killed"
  ELSE IF ~stopping THEN "open"
  ELSE IF Alive THEN "stopping"
  ELSE IF expired THEN "expired" ELSE "drained"

Log == INSTANCE PacketLog WITH Packets <- Task, phase <- Phase, arrived <- accepted,
                               lost <- Lost

\* Queues, workers, markers and the deadline implement one log per device with
\* a settled prefix: accepting, settling and losing a packet are each a single step
\* of the log, every other step of the pipeline is invisible.
ImplementsPacketLog == Log!Spec

=============================================================================
