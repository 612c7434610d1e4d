# Verification of seis_server

TLA+ models of the receivers and the web portal in this repository, the TLC
configurations that check them on small instances, and proofs, checked by
TLAPS, of their main safety properties for every value of the constants.

The repository holds two programs that share a directory of HDF5 files:

* `src/mseed_tcp_server` - TCP receivers. One takes miniSEED records
  (`server.py`, `mseed.py`, `db.py`), a second one takes the binary packets of
  ocean-bottom nodes (`obn_server.py`, `raw_parser.py`).
* `src/mseed_web_portal` - a FastAPI web application that reads those files
  (`data_reader.py`), keeps devices, customers, merges and alerts in an SQLite
  database (`app_db.py`, `stage2.py`) and serves pages (`main.py`,
  `static/js/*.js`).

## 1. Inventory

### The miniSEED receiver

| component | state | operations | interacts with |
|---|---|---|---|
| connection handling and framing (`server.py` 178-336, `mseed.py`) | the client slots (a semaphore), per connection: byte buffer, last receive time, packet counters | accept, setup, recv, idle timeout, framing with resynchronisation, overflow cut, finish | calls `submit()`, writes quarantine files |
| write pipeline (`server.py` 54-154) | one bounded FIFO queue with `unfinished_tasks` per shard, the `stopping` event, one worker thread per shard | `submit`, `_worker`, `close` | connection threads put, workers get, the main thread closes |
| device store (`db.py`) | per stream: sample array, raw-byte array, index rows, gap rows, attributes `last_seq`, `last_start`, `last_end`; in memory a hash cache and the set of seeded streams | `insert_packet` = two attempts of `_write_packet` | called by the workers; its files are read by the portal at any moment |
| start-up, logging, tools | configuration | - | - |

What makes it correct:

* pipeline: a packet whose `submit()` returned True is stored or quarantined,
  in the order accepted per device, unless the process ends first or the
  quarantine raises, which costs that packet and the service of its shard, and
  nothing else; the drain of `close()` is accurate and ends by its deadline; a hung
  HDF5 call of one device neither stops other shards nor the shutdown; a packet is
  refused only at the end of its connection's stream.
* store: an index row never points at missing or foreign data; an answer
  ("inserted" or "duplicate") is true of the file; gaps are flagged once and
  filled; the `last_` attributes describe one stored packet.
* framing: each byte received is parsed, quarantined or still buffered, or lost
  with its connection when the quarantine raises; a good record behind garbage is
  found; slots are returned.

Hard: `submit()` and `close()` race; the error path of an error path raises
(`quarantine_path()`) and ends a thread nobody restarts; errors hit any HDF5 call of a write that is
not a transaction; restarts lose the cache; packets come late, twice, or with a
clock that jumps.

### The ocean-bottom receiver

`obn_server.py` has its own, similar pipeline, sharded by instrument id, which is
the peer's address: the old and the new connection of an instrument that
reconnects feed the same queue. State: queues, `_stopping`, five parallel columns
per instrument file behind a `metadata` group. Operations: cut off a packet,
`submit`, worker, `append_packet`, `close`. Unlike the other receiver it has no
quarantine, no retry and no duplicate check, and a refused packet ends its
connection. Correct when the five columns stay aligned, an instrument's packets
are appended in arrival order over reconnects, an error costs one packet, and
`close()` drains.

### The portal

| component | state | operations | correct when |
|---|---|---|---|
| device registry and merging (`app_db.py`, `tools/merge_duplicate_devices.py`, `tools/sync_devices.py`) | device rows (active, hidden, last updated), pairs of a primary and a member | sync from disk, deactivate, apply a merge plan, undo it | no data is hidden but behind a shown device; merged files do not overlap; after faults, what is shown is what is on disk |
| customer rules and access (`app_db.py`, `tools/*rule*.py`, `tools/grant_device.py`) | rules, customers, users, grants | inherit, apply range rules, edit, grant | a shown device has its customer; users see what has been given to them and no more |
| alerts (`stage2.py`, `tools/check_alerts.py`) | alert rows, times of the last mails | open, repeat, acknowledge, resolve, mail | one row per cause; open alerts are those of failing tests; one mail per silence period |
| waveform reader (`data_reader.py`) | none; reads while the receiver writes | select records of several files, thin them | an answer is complete or marked as truncated; thinning keeps the extremes |
| web application and exports (`main.py`) | - | request handlers over the three above | as those |
| live and history pages (`static/js/waveform.js`) | selection, boxes, timer, requests under way, chart | update, change of device, pause | late answers do not stay on the chart |
| login, map, translations, templates, administration scripts | - | - | - |

Hard: cron jobs, command-line tools and web requests work on one SQLite database,
and Python's `sqlite3` opens a transaction only at the first INSERT or UPDATE, so
every function that reads first decides on what may be out of date; tools are
interrupted half-way; files are read without a lock; requests of a page overtake
each other.

The parts are listed with their status in `PROJECT.json` ("components"), and
what is hard to test in them, line by line, under "hazards".

## 2. Plan

Order: what can lose data first.

1. **WritePipeline** (done) with the abstract **PacketLog** (done).
2. **DeviceStore** (done): `db.py` below one worker.
3. **ObnPipeline** (done): the second receiver, another implementation of
   PacketLog.
4. **Receiver** (done): client slots with setup and finish, recv timeouts and
   idle time, the buffer and its resynchronisation, checked against a reference
   definition of which records a byte sequence contains.
5. **DeviceRegistry** (done): syncs, the merge tool, customer rules, users and
   grants, one action per query or transaction.
6. **Alerts** (done): the worker and web requests, with errors and kills between
   mail and `mark_sent()`.
7. **HistoryReader** (done): queries over files that grow meanwhile.
8. **LiveView** (done): overlapping requests, answers in any order.

Compositions: PacketLog is what Receiver's `submit()` relies on and what both
pipelines implement; `RowsReadOwnData` of DeviceStore is what HistoryReader rests
on, whose files change only by whole records; what DeviceRegistry's `FileSet`
says is HistoryReader's `Paths`; Alerts meets the registry as `listed`, the
devices shown.

Every invariant and every action property that a run checks is also a theorem (section
5), and so are both refinements; the liveness properties are model-checked.

## 3. The modules

### WritePipeline - `server.py` `MSeedWritePipeline`

One process per connection thread (`pc`, `pending`, `received`), one per worker
(`worker`, `hand`) and the main thread (`closer`, `at`). An action is what a
thread does between two points where another one can be seen:

* `submit()` is `PassStoppingCheck` or `Refuse` (the loop's test of `stopping`),
  then `Put` or `PutTimesOut`. That the test and the put are two steps is the
  race with `close()`. A packet put after `stopping` is remembered in `late`.
* `_worker()` is `Get`, then `InsertPacket`, or `InsertRaises` and
  `QuarantinePacket`, then `TaskDone` (the `finally` clause, with the return
  after a None marker). `QuarantineRaises` is the OSError of `quarantine_path()`
  (`server.py:39`, `util.py:22`), which is outside the `try` of
  `quarantine_packet()` and leaves the `except` block of `_worker()`; `WorkerDies` is
  the `finally` clause on its way out: the task counts as done and the thread is
  gone. Nobody starts it again, so its shard fills up and its connections wait in
  `submit()` until the stop.
* `close()` is `CloseBegin`, `DrainShard` for each shard, `DrainEnds`, the
  markers (`TryMarker`, `PutMarker`, `MarkerTimesOut`), `JoinWorkers`.
  `DeadlinePasses` may happen at any time after the stop. `ProcessExits` ends
  the daemon threads wherever they are.
* `Killed` may happen at any moment: `run_server()` reaches `close()` only for an
  interrupt, and SIGTERM, which `systemctl restart` sends, has no handler. What is
  queued or in hand is gone then; the invariants say that this is a suffix of
  each device's log.

`accepted` and `settled` are histories for the properties: what `submit()`
answered True for, and what a worker has dealt with, per device. `Lost` is what
workers died with, at most one packet each.

Abstractions. A packet is its connection, its number and its device. The
insertion is one step with two outcomes here; its steps are DeviceStore's. Settled
is stored, found a duplicate, quarantined, or given up with a log line: of the
errors of `quarantine_packet()`, those while it opens and writes the file are caught
and logged (`server.py` 44-51), and then the packet is gone although its worker
goes on. Only the error of the directory (`QuarantineRaises`) is an outcome of its
own, since only it changes what comes after. Time is a deadline that may pass at
any moment.

### PacketLog

What both pipelines promise: per key (device or instrument) a sequence `arrived`
and the part of it that is `settled`; packets are accepted at the end, settled
in order, and after the end of the process nothing happens. A packet may be lost
(`Lose`): then its log stops there, and packets behind it are neither settled nor
lost. A worker that dies does this to one device, and stops the others of its shard
without losing more. `WritePipeline` and
`ObnPipeline` define the refinement mapping (`Log == INSTANCE PacketLog WITH ...`)
and state `ImplementsPacketLog`. In ObnPipeline nothing is lost in this sense: its
worker catches every exception (`obn_server.py` 91-98).

### DeviceStore - `db.py` `insert_packet()`, `_write_packet()`

One stream of one device; a worker calls the store for one packet at a time, so
there is one call in progress (`step`, `pkt`, `attempt`, `offset`, `rawAt`).
Every HDF5 call that grows an array or changes an attribute is a step, in the
order of the code: open and seed the cache from the index, duplicate check,
sequence gap, time gap, zeros and their row, samples, raw bytes, row,
attributes, flush and close. `WriteFails` raises in any of them and leaves
behind nothing, a resized array with the fill value, or some of the three
attributes (`Residue`); the first error leads to the second attempt from the
start, the second to the caller. `ZerosTooLong` is the MemoryError of a gap that
is too long to fill. `Restart` empties the memory between two packets.

Abstractions. A packet is its sequence number, start and length in samples and
whether it has a time; times are in units of the sample interval and only one
rate occurs (a packet without a rate or without samples has no end), so the tolerance of 1.5 intervals is one unit (a difference of two
is more, of one is not). Hashes of different packets differ. A stream's arrays
are sequences whose elements name the packet they came from, which is what
"points at its own data" needs and all it needs. The kill of the process in the
middle of a write is not modelled: what HDF5 leaves of an unflushed file is not
defined by this code.

### ObnPipeline - `obn_server.py`

The same processes as WritePipeline, with what differs: a refused packet ends
the connection thread; an error is logged and the packet is gone; `close()` stops
draining at the first shard it has no time left for, and tries each marker at
least once, deadline or not. A worker's
`append_packet()` is `created`, the number of layout steps done (metadata, then
the columns one by one), and then the five columns, each a resize and a write. `Raises`
may happen at every HDF5 call with the same residues as above, and
`ColumnMissing` is the KeyError of a file with metadata and without columns. A
file may exist before the start (`OldFiles`), also one without the `raw` column.

### Receiver - `server.py` `MSeedRequestHandler`, `mseed.py`

One thread per connection. `conn` says where it is: not connected, in `recv()`,
at the overflow test, in a round of `_process_buffer()`, inside `submit()`,
ended, or refused by `setup()`. An action is one call of `setup()`, one return of
`recv()` (`Recv`, `ConnectionEnds`, `TimeOut`), the overflow cut, or one round of
the loop of `_process_buffer()`, with one action per way through it (`Wait`,
`Resync`, `NoStart`, `DropHeader`, `DropRecord`, `Submit`). `End` is part of
each action that leaves `handle()` and releases the slot; `Finish` is the regular
way, on which the rest of the buffer is quarantined. The buffer is a span `from`,
`to` of the connection's stream; `taken` records what left it, in order, and how. A
cut is two slices, as in the code: `Take(c, n, fate)` is the one that is quarantined
or becomes a packet, and `Drop(c, n)` or `Keep(c, n)` (`buffer[n:]`, `buffer[-n:]`) the
one that goes on being the buffer. That they fit is what `BytesAccounted` says.

Every call of `_quarantine()` may raise out of `handle()` (`QuarantineRaises` at a
cut, the second way of `Finish` at the end; `Quarantines` says which steps call it with
bytes): the connection ends and its buffer, cut and rest, is `lost`. The slot is released,
since `finish()` runs in socketserver's `finally`.

Abstractions. A byte is what a scan finds at its position: a plausible fixed
header of some kind, or nothing. A kind has the length its blockette 1000 states
(0: none, or not allowed), the number of bytes `get_record_length()` must see to
say so, and whether ObsPy decodes the record. That the function tries both byte
orders, and could in theory decide by the second one while it waits for bytes of
the first, is abstracted to that. `fixed_record_length` is a kind whose length is
known with the header. Time is the number of `recv()` timeouts in a row; the
first test of idle time that succeeds is the one after `IdleTimeouts` of them.
`submit()` is two steps, between which the shutdown may begin; what it promises
is WritePipeline's. `setup()` is one step: an exception between its `acquire()` and
its end (socket options, attributes, `server.py` 185-193) would keep the slot for
good, as socketserver calls `finish()` only behind a `setup()` that returned. This is
left out: `set_socket_options()` on a socket just accepted is all that could raise.

### DeviceRegistry - `app_db.py`, `tools/sync_devices.py`, `tools/merge_duplicate_devices.py`

The tables are `ids` with `recent` (rows by id and by `updated_at`), `active`,
`customer`, `rules`, `members`, `account` and `grants`; a row is named by its
file. Three syncs may be under way, each with its place and what it has read
(`sync`): the tool (`Discover`, then for each file `LookUp`, `WriteRow`, `Decide`,
`Assign`, then `DeactivateMissing`, then `ListActive` and `ApplyNext` over all
active rows), the administrator's button (`Discover` and the upserts) and the
application of a new rule (the last pass). `LookUp` and `WriteRow` are the two
halves of `upsert_device()`, `Decide` and `Assign` those of
`auto_apply_device_customer_rules()`. The merge tool plans in one step
(`PlanMerges`; no transaction, but it only reads), adds and hides members one by
one, and undoes them in two passes. `Event` bounds what nobody is obliged to do:
web syncs, plans, undos, forms, unreadable files, interruptions, arriving
records, files moved away.

`Visible(u)` and `FileSet(f)` are what a request by a user may read. `given` is
the history of who was ever given which key, `missed` what a sync hid because it
did not find the file, `crossed` whether the merge tool was interrupted or ran
beside a sync.

Abstractions. A file is the set of its records' times, which are points: `FileRange`
is the least and the greatest. `file_range()` takes the greatest end instead, leaves
out ends that are not positive (`merge_duplicate_devices.py` 64-65), and gives a file
that it cannot read no range and no records (76-78, so it is no candidate). A range that
is too short for its records therefore does not occur here. A device key is a value, a
rule the keys its range of serial numbers covers. Names and coordinates are
inherited and written as the customer is, and left out, with the changes of
`updated_at` they alone would cause. `--min-records` is 1. An error in the middle of a sync ends it (`SyncInterrupted`),
but in the pass over all rows costs a row only (`AssignFails`).

### Alerts - `stage2.py`

Two checkers go through `check_devices_once()`: the tool, which mails, and a
web request. `Summary` reads a device's file once, for the tests of offline and
of each expected component; each test is then `Resolve`, or `FindAlert` and
`UpdateAlert` or `InsertAlert`; the tool goes on with `StaySilent`, or `SendMail`
and `MarkSent`. `InsertFails` is the UNIQUE fingerprint after the other checker
was faster; `CheckRaises` any other error, after which the rest of the device is
passed over, and `WorkerKilled` the end of the tool. Mail is switched on (otherwise
`send_alert_email()` answers False and nothing is marked).

### HistoryReader - `data_reader.py`, `/api/waveform`

A query (`Ask`, `ReadFile` or `SkipFile` per file, `Answer`) reads the files of a
merged device one after the other, each stream by stream, rolling index before
older datasets, under one budget, and thins each trace twice; `Export` is
`export_mseed_bytes()`. Records arrive between two files (`AppendRecord`). A record
is named by its place (`Held`: file, stream, layout, position), so that two equal
ones are told apart. `InOrder` is every sort of the code: it is given what comes
before each element (`Earlier` for the records of a stream, time and position for
the points of `ByTime`). Values
are those of one `Signal`, so what a trace shows can be compared with what was
read; `obspy.Stream.merge()` is modelled by what it does to records of one rate,
gaps interpolated and cut to integers included (`TowardZero`). Rows for zero-filled
gaps are records like others to the reader, and to the model.

### LiveView - `static/js/waveform.js`

`flight` is what is under way: calls of `updateLive()` (from the timer, the boxes
or a reload) and of `reloadComponents()`. A call runs without interruption from
one `await` to the next, so an answer is one step (`WaveformComes`,
`ComponentsCome`); a request that fails ends its call, and the page's first one
with it the start of the timer. `chart` is the device whose data is drawn.

### MCPortal

Alerts, HistoryReader and LiveView share no state; the instance takes the union
of their behaviours (`acting`) and not the product, under one run.

## 4. Runs

Twelve runs. All passing ones are exhaustive for their bounds.

| run | bounds | result |
|---|---|---|
| `pipeline` | 2 connections of 2 packets, 3 devices on 2 shards, queues of 1 | 9 properties hold; 2.2 million states |
| `pipeline_live` | 3 connections of 1 packet, 2 devices on 2 shards, queues of 1, shard 1 may hang | both liveness properties hold; 0.8 million states |
| `pipeline_quarantine` | 2 connections of 2 packets, 2 devices on 2 shards, queues of 1 | finding: a packet is lost and its shard served no more |
| `store` | 6 packets, any 4 calls, 2 errors, restarts, gaps up to 4 zeros | 6 invariants hold; 6.4 million states |
| `store_retry` | as above, 3 calls, 1 error | finding: a packet is stored twice |
| `store_stall` | packets with a clock jump, 3 calls, no error | finding: the stream stalls |
| `obn` | old connection (2 packets) and new one (1) of one instrument, 2 workers, queues of 1, any number of errors, kills | 5 properties hold; 4.5 million states |
| `obn_broken` | as `obn` | finding: the instrument's later packets are lost |
| `receiver` | 2 clients and 1 slot; streams of 6 bytes with up to 2 headers or 4 bytes with up to 3, of 3 kinds; chunks of 1 to 3 bytes; 2 settings | 5 invariants and `HalfOpenReaped` hold; 1.2 million states |
| `receiver_resync` | as `receiver` | finding: a decodable record inside an undecodable one is lost |
| `registry` | 4 files of 2 keys, 2 customers, 1 user, 1 rule, syncs without limit, any 2 events | 5 invariants and `RegistrySettles` hold; 1.3 million states |
| `portal` | alerts: 1 device and component, 3 ticks, 2 faults; reader: 2 files, 2 streams, up to 5 records, 1 arriving, budgets of 1 and 3, 4 points; page: 3 devices, 2 calls under way, 3 acts | 3 invariants, `AlertsSettle`, `MailsSpaced` and `ChartSettles` hold; 1.4 million states |

Why the bounds are enough. *Pipeline*: with queues of one, two connections and
four packets a shard is full while another packet waits for it, so that a put
times out; two of the three devices share a shard, so per-device order is
tested against a queue holding both; the marker finds a full shard; each
connection has a packet before and one after the stop; and a worker may die while
another packet of its shard is queued and a third one waits to be put. Connections
are interchangeable, and so are the two devices of one shard, whose checksums are
given as equal (`Symmetry`). The third connection of
the liveness run keeps a shard's queue, its worker and a waiting `put()`
occupied at once. *Store*: the six packets are two
in sequence, one late, one behind a gap that is filled, one without a sequence
number or time and one without samples; four calls are
a gap, its late filler, a retransmission and one more; two errors fail both
attempts of one call or one attempt of two. *OBN*: one instrument is what the
properties speak of; its two connections fill the queue; errors are not bounded.
*Receiver*: a header has two bytes, so it can be cut by a chunk border; records
have three or four, so one fits twice into a stream, behind garbage, behind the
other or inside it; one header needs a byte more than a header to be judged. No header begins at
a stream's last byte, where it would never be whole and so never looked at. One
setting is generous, as configured in practice; the other one makes the buffer
overflow in the middle of a record and the scan stop before the end of the
buffer. The second client meets a full server, and takes the slot the first one
gave back. *Registry*: two events are the least for every pair of a hazard and
what meets it: a plan and its undo, a plan and a record that arrives, an undo and
a web sync, a file that vanishes or cannot be read and a plan, a rule and an edit;
the periodic sync is no event and interleaves with all of them. Three files of one
key are a primary, a member and a candidate that overlaps with the member only.
*Alerts*: three ticks let a device go offline, come back and go offline again,
inside and outside the silence of two; the web check and an error are one fault
each. *Reader*: two files and a budget of one reach the case that the first file
uses it up; ten samples, above and below zero, are thinned to four
points, twice. *Page*: two calls
overtake each other; one of the devices has no components; three acts are a
change of device, another one and a failing request.

`CHECK_DEADLOCK FALSE` is given where the modelled program ends (the process
exits, connections have no more packets). The store's runs check deadlock: a
restart is always possible.

Bounds in guards: `MaxPackets` per connection (both pipelines), `MaxCalls`,
`MaxFaults` and `MaxZeros` (the store), `MaxEvents` (the registry), `MaxTime` and
`MaxFaults` (alerts), `MaxAppends` (the reader), `MaxActs` and `MaxInFlight` (the
page). `MaxZeros` is where `np.zeros()` fails,
not only a bound.

`ChunksDoNotMatter` speaks of the generous setting without an overflow
(`overflown`), and of streams in which no header follows another one without a
valid length at the very next byte (`NoNeighbours`): there the search behind a bad
header starts one byte too far, and whether the record is found depends on what
else is in the buffer. `BytesAccounted` and the slots hold in all cases.

### Fairness

`FairSpec` of WritePipeline: weak fairness of each connection thread inside
`submit()` (it is never blocked there for longer than the timeout of `put()`), of
the workers of `Healthy` shards, of the deadline and of `close()`. That is what
thread scheduling and a clock give. No fairness is assumed for the arrival of
packets, for the stop of the server, or for workers of other shards, which may
stay in an HDF5 call for ever. Under it, a packet accepted or being submitted
for a healthy shard before the stop is settled, or the process ends, or the shard's
worker has died (`AcceptedSettles`), and a shutdown ends (`ShutdownEnds`).
`WriteFailuresSurvived` is `AcceptedSettles` without the dead worker, which the code
violates.

`FairSpec` of Receiver: weak fairness of a connection's rounds of
`_process_buffer()` and of the timeout of its `recv()`. They do not include that
`submit()` returns True: the shard's worker may hang or be dead, and then a connection
keeps its slot until the stop. No peer is assumed to send, close or return. Under it,
the slot of a peer that vanished is freed, unless the connection waits in `submit()`
for ever (`HalfOpenReaped`).

DeviceRegistry: weak fairness of the sync tool. The comment at `app_db.py` 674-677
calls the sync periodic; where it is run by hand, as the manual describes it, the
assumption is that whoever changes files or is interrupted runs it again. No user,
no merge and no other sync is obliged to act or to go on. Events are bounded, so errors and
interruptions end, and from then on `RegistrySettles` says that syncs bring the
table to a state that no longer changes with respect to what is shown.

Alerts: weak fairness of the tool's check, which a systemd timer starts
(`mseed-alert-worker.timer`, `stage2.py` 361). Web
requests, records, time and faults are not fair: each may stop for good.
`AlertsSettle` therefore also speaks of a clock that has stopped, which stands for
one that no longer changes the outcome of a test.

LiveView: weak fairness of the answer to each request (it comes, or the request
fails, which `Throws` may do a bounded number of times) and of the timer of
`setInterval()`. `ChartSettles` speaks of a page whose timer was started and which
is not paused.

## 5. Proofs

Assumptions: those each module states of its constants - the widths and counts are
integers, `Crc32` maps devices to naturals, `None` is no packet, files are numbered
and finitely many, no component is called "offline", those of HistoryReader below -
evaluated by TLC in every run. Nothing bounds the number of connections, devices, shards,
files, packets or errors.

### WritePipeline_proofs

The properties are not inductive. That a shutdown within its deadline leaves
only late packets (`GracefulDrain`) needs that a drained shard holds nothing but
late packets, which needs that `unfinished` is exactly what is queued or in work,
which needs that a marker is only in the queue of a shard `close()` has passed.
`PipelineInv` is the conjunction of these facts, with a dead worker's packet at the head
of its shard's line (`Line(s)`), so that what nobody will take any more is still
accounted for, and with refused packets below the next one of their connection
(`RefusedInv`); that it is kept by every action is
the bulk of the module, one step per action. From it follow:
`TypeCorrect`, `UnfinishedCorrect`, `DeviceOrderCorrect`,
`AcceptedIsHeldCorrect`, `ConnectionOrderCorrect`, `OneLateCorrect`,
`ExitedWorkerCorrect`, `GracefulDrainCorrect`, `StopTakesTheTailCorrect`,
`PipelineCorrect`, and `PacketLogImplemented`: initial states map to initial states
and every step to a step of PacketLog or a stutter; `QuarantineRaises` is its `Lose`.

The order of a device's packets is kept as one sequence: what is settled, then
the packet in the worker's hand, then what of the queue belongs to the device,
is what was accepted.

### DeviceStore_proofs

* `TypeCorrect`.
* `AnsweredCorrect` - `AnsweredIsStored`, by `StoredInv`: in the steps after the
  row was appended, the packet in hand is in the index.
* `RowsCorrect` - `RowsReadOwnData`, by `RowsInv`: between the steps of an
  append, the offsets remembered in `offset` and `rawAt` point at data that is
  there and belongs to the packet in hand (`PendingOwn`), although no row says so
  yet. Because arrays only grow (`Grows`), rows that owned their data go on
  owning it, whatever failed writes leave behind them.
* `LastIsOneStoredCorrect` - `LastIsOneStored`, by `LastInv`: the attributes
  change in one way only, all three to those of the packet in hand (`Advances`),
  unless an error tears the update; without errors nothing stored starts later
  than they say but the packet whose row was just written.
* `StoredAndFlaggedOnceCorrect` - `StoredAndFlaggedOnce`, by `OnceInv`, which
  needs the hash cache: once seeded it holds all that is stored (`Cached`), from
  the duplicate check to its row the packet in hand is in neither (`FreshInv`),
  and a second attempt without an error is that of a gap too long to fill, which
  raises again before it stores anything (`SecondAttempt`). A gap is therefore flagged
  behind one check only, which the packet in hand passes once.
* `NoHoleCorrect` - `NoHole`, by `HoleInv`: behind the zeros the time from the
  last packet to the one in hand is covered (`Filled`), behind its row its own
  time is (`OwnTime`), the end of the last packet is covered (`EndCovered`), and
  up to there no hole is longer than the tolerance (`NoHoles`). It holds with
  failing writes, retries and restarts, because what they leave is more zeros.
  The proof showed what the property has to except, which small instances had not
  met: a packet without an end, or with one but no sequence number, becomes the last
  one and switches the time check off for the next (`Regular`, `Fallback`).

### ObnPipeline_proofs

The same argument as for the other pipeline, and the files.

* `TypeCorrect`, with `unfinished` of a shard being what is queued or in work
  (`Counts`).
* `OrderCorrect`: per instrument, what is done with, then what is in the
  worker's hand or queued, is what was accepted (`OrderInv`; `Line(s)` is the hand
  and the queue of a shard), over any number of connections of one instrument.
* `DrainCorrect`: once `close()` has passed a shard within its deadline, only late
  packets of it are unprocessed. `PacketLogImplemented` rests on both.
* `RowsAlignedCorrect` - `RowsAligned`, by `FilesInv`: while a worker appends, the
  columns it has written end with its packet at one and the same row (`RowInv`), and
  each column is no longer than the one before and agrees with it but for rows
  that failed (`Aligned`).
* `WrittenInArrivalOrderCorrect`, by `RowsInv`: a row names a packet that was processed or
  is being written (`RowsBegun`), and rows are in the order of acceptance (`Before`),
  one per packet.
* `ProcessedIsStoredCorrect`, by `StoredInv`: a packet processed without an error
  has a row complete in all five columns, and no later write changes it.

### Receiver_proofs

For any number of clients and slots, any streams, chunks and settings. `TypeCorrect`,
`SlotsCorrect`, `BytesCorrect` and `BufferCorrect` follow from `ReceiverInv`, which
adds to the properties:

* the record in `submit()` is still complete in the buffer (`SubmitComplete`);
* the connections that hold a slot are finitely many, although the clients need
  not be (`SlotsInv`);
* what left a buffer is one gapless sequence of spans that ends where the buffer
  begins (`Contiguous`), a connection that is not served has an empty one, and the
  rest of a buffer and a lost one are the last span of an ended connection (`EndsLast`).

`BytesCorrect` is not given by how a cut is written: `Take` says what is quarantined,
`Drop` and `Keep` what stays, and for each action a lemma shows that the two slices
meet and that neither is longer than the buffer (`Leave`, `NoStartLeaves`, `EndCuts`,
`FinishEnds`), which is where `buffer[:-47]` and `buffer[-47:]`, or the arguments of
`buffer[:drop]` and `buffer[drop:]`, enter. For resynchronisation
that rests on the least element of a set of naturals (`LeastOfNaturals`, from the
well-foundedness of `<`) being a plausible header inside the buffer.

`ChunksCorrect` - `ChunksDoNotMatter`, by `WalkInv`. The property compares what was
submitted with the bytes received so far; the invariant has to speak of those that
will come, too, since what a header at the end of the buffer means is decided later.
For every number `n` of bytes from those received up to the whole stream, the records
in the first `n` are those handed on followed by those from the buffer on (`Reads`);
a waiting connection has none of these (`Walk`). One lemma per action shows that what
it cuts off is a record handed on (`RecordWalks`) or holds no header
(`ResyncWalks`, `NoStartWalks`, `DropHeaderWalks`), which is where
the 47 bytes kept, the second byte searched after a bad header and the limit of the
scan enter. A buffer that was lost cuts the records off at their end, never in the
middle (`LossIsRemembered`). The reference reader is a recursive function of the byte it starts at
(`RecordsFrom`); that it is well defined, and its equations (`RecordsSkip`,
`RecordsAtHead`), are proved by induction from the last byte back (`Downward`).

### DeviceRegistry_proofs

`SeenByRightCorrect`: `SeenByRight` for any files, keys, customers, users, rules and
forms and any number of events. A sync reads a row's customer in one step and
writes it in another, with edits, deleted rules, merges and other syncs in
between, so the argument is about what was read as well: `RightInv` adds that
each row's customer was given the row's key (`CustomersGiven`), that a customer a
sync is about to write was (`SyncsGiven`), however long ago it was found, that
each rule's keys were given to its customer (`RulesGiven`), and that the merge
tool has mapped, and is about to map, files of one key only (`MergesOfOneKey`).
It holds because nothing is ever taken out of `given`: a rule that is deleted
leaves the customers it has assigned, as `delete_customer_device_rule()` does.

### DeviceRegistryRows_proofs

The table of devices, in two sequences of the same rows.

* `TypeCorrect` - `TypeOK`, by `RowsInv`: `ids` and `recent` are without
  repetition and hold the same rows, whatever a sync, the merge tool or a form
  does to their order. The lemmas it rests on are about the operators: what
  `RemoveFirst()`, `Touch()` and `Only()` leave is a part of the sequence, in its
  order (`IsPart`).
* `MergedDisjointCorrect` - `MergedDisjoint`: the files of a plan are disjoint when
  the plan is made, and stay so while no record arrives, whatever syncs and
  administrators do to the rows meanwhile. That `Accepted()` speaks of a set that
  exists (`AcceptedExists`) is an induction along the order in which candidates
  are compared; that this order is total on rows (`BeforeOrders`) needs that ids
  differ.
* `NoOrphansCorrect` - `NoOrphans`, by `OrphanInv`, which holds until the merge tool is
  interrupted or runs beside a sync: what is hidden and was not missing is a member
  (`Reasons`); no set of members is closed under their primaries (`Forest`); a sync about to
  write a row hides it just in case it is a member (`SyncsHide`); no member is shown
  but the one about to be hidden (`MembersHidden`); the primaries of a plan are no
  members and do not become any (`Primaries`); and an undo clears mappings only when all
  their members are shown (`Undoes`). TLC checked `OrphanInv` on the instance of the run
  before.
* `SyncAssignsCorrect` - `SyncAssigns`, by `AssignInv`, which says at each point of an
  undisturbed sync what it has achieved so far. `upsert_device()` reads one other row of
  the key only, the newest by `updated_at`, so the argument is about that order: the rows
  handled by the upserts are behind all others (`Behind`), and of two of them with one key
  the later has a customer if the earlier has (`Rises`). Hiding what was not found leaves
  only handled rows shown, so the customers then rise over all shown rows, and the newest
  one tells the last pass whether any other has a customer (`NewestIsLast`,
  `NoneBefore`): the rows it is done with are `Settled`. This is why the pass over all
  rows is needed: a row handled early saw none of the rules and customers that
  later rows brought. TLC checked `AssignInv` before.

### Alerts_proofs

* `AlertsTypeCorrect` - `AlertsTypeOK`: a checker in a test has a device and a test
  left, and a row it has found does not go away (`Found`), so that the table keeps
  one row per fingerprint however two checkers interleave.
* `MailsSpacedCorrect` - `MailsSpaced`, by `MailInv`: `last_sent_at` is not older than
  the last mail, unless that mail was never marked.

### HistoryReader_proofs

For any files, streams, contents, signal of integers, windows, limits and numbers of
points. Beside types, the assumptions are that no file or stream is listed twice,
that a window begins before it ends, that a timed record ends where its samples do
(`Record`), and that at least two points may be shown (`LeastPoints`, which is 100 in
the code).

* `AnswersComplete` - `AnswerComplete`, by `AnswerInv`. The property speaks of the
  answer; the invariant, of each file on the way to it: when `k` files are done with,
  what was gathered is without repetition, comes from these files, is less than the
  limit and one record per file, and, unless a file was passed over or some file filled
  its budget, what is due is gathered or in the files to come (`Gathered`). A file is
  read as a whole, but records arrive before and after, so places have to keep their
  records (`AppendPlaces`). For one file,
  `StreamRecordsRight` says that the records of a stream are different ones that
  overlap and, if there are fewer than the limit, all of them; `FileRecordsSteps`
  carries this over the streams, whose shares of one limit add up. They rest on
  `InOrderSorts`: a strict total order of a finite set makes a sequence of each
  element once, because the number of elements before one grows along the order.
* `EnvelopesKept` - `EnvelopeKept`, by `EnvelopeInv`: while files are read, every trace
  shows the range of the samples read so far in the window, and nothing beyond the
  samples read (`Shows`). Merged samples show themselves (`PointsRight`), an
  interpolated value is between those at the borders of its gap, also when cut to an
  integer of either sign (`ValueRight`, `MeanBetween`); a trace that is thinned
  (`ThinnedShows`), put in order (`ByTimeShows`) or joined to another one
  (`TogetherShows`) shows what it showed before. `DownsampleRight` is where the
  arithmetic of `minmax_downsample()` matters: the buckets cover all points, none is
  empty, and twice their number is within the bound (`BucketsRight`), which two roundings
  up have to agree on; the extremes of a bucket are points of it, in their order
  (`ExtremesRight`).

### What the provers cannot do here

Liveness and fairness (no rule for WF_ is available), so `AcceptedSettles`, `ShutdownEnds`,
`HalfOpenReaped`, `RegistrySettles`, `AlertsSettle` and `ChartSettles` are
model-checked. Induction over data cannot be done with the theorems of the library,
which take an operator as a parameter; where it was needed, a least
counterexample takes its place (`LeastOfNaturals`, `SmallestSet`, from
`WFMin`), or induction over a set of naturals (`Upward`, `Downward`). `SelectSeq()`,
`SortSeq()` and folds cannot be expanded; `Only()` and `FileRecords()` are recursive
functions and `InOrder()` counts for that reason. LiveView has no theorem: its only
property is one of liveness.

## 6. Findings

* **A quarantine that raises stops a shard** (`server.py:39`, run
  `pipeline_quarantine`). `quarantine_path()` makes the directory of the client, a new
  one for each connection's port, outside the `try` of `quarantine_packet()`. When the
  write fails because the disk is full, this is likely to fail as well: the worker
  thread ends, the packet is neither stored nor quarantined, and the devices of that
  shard are served no more until a restart; their connections wait in `submit()`. The
  same error in a connection's thread ends the connection and loses its buffer, but not
  its slot (`BytesAccounted`, `SlotsAccounted`). What the code still guarantees then -
  order, the count for the drain, nothing else lost - are the properties of `pipeline`.
* **A retried write can store a packet twice** (`db.py:280`, run
  `store_retry`). The hash is remembered after flush and close only.
* **A long clock jump stalls a stream** (`db.py:129`, run `store_stall`). The
  zeros of the gap cannot be allocated, `last_end` never moves, and every later
  packet sees the same gap.
* **A half-created instrument file stays broken** (`obn_server.py:140`, run
  `obn_broken`). The file has metadata, so its columns are never created.
* **An undecodable record takes its neighbour with it** (`server.py:325`, run
  `receiver_resync`). The manual says that the next record start is searched
  after a parse failure; the code quarantines as many bytes as the header claims
  and goes on behind them.

Where a document or a docstring says more than the code does, and the models follow
the code:

* **A timeout closes a connection.** The manual says of `socket_timeout_sec` that after
  a timeout the connection is not closed and the receiver only goes on waiting
  (`MSEED_TCP_WEBPORTAL_系统说明_CN.md:49`). That is so of each timeout but the one at
  which `idle_timeout_sec`, 300 s by default, have passed without data: it closes the
  connection, on purpose (`server.py` 219-233). `HalfOpenReaped` states what the code and
  its comment say, and it contradicts the manual.
* **A drain can miss a late packet.** `submit()` tests for the stop and puts in two steps, in
  both receivers, so a packet may be put behind the marker of its worker: accepted, never
  taken, and the deadline met, although `close()` of the ocean-bottom receiver is said to
  "drain queued packets" (`obn_server.py:103`). `ImplementsPacketLog` of both pipelines,
  `StopTakesTheTail`, `ExitedWorkerLeavesLate` and `DrainCorrect` state exactly what it
  can cost: one packet per connection.

What the models of the portal assume or except, because the code does not
prevent it:

* **A second merge can hide data.** A primary with members that is merged into
  another device takes its members out of reach: `_device_file_set()` follows the
  mappings one level (`app_db.py:969`). A later run of the tool compares its
  candidates with the primary's own file, and not with members mapped before
  (`merge_duplicate_devices.py` 116-121).
* **An interrupted merge can hide two rows behind each other.** `apply_plan()`
  killed between mapping and hiding, and run again before a sync, may choose the
  other file as primary. `NoOrphans` excludes this (`crossed`).
* **A customer can be overwritten.** `auto_apply_device_customer_rules()` reads, then
  writes without having held a transaction; an administrator's assignment in
  between is lost (`app_db.py` 559-609). Merging moves neither the grants nor the
  customer of a hidden row to its primary.
* **Only the primary's file is looked at** by the dashboard, the quality page, the
  exports and the alerts; only waveform queries read members.
* **Alerts of a device that is hidden stay open**, one that was acknowledged stays so
  when it opens again, and one that opens again inside the silence period is not
  mailed. `AlertsSettle` speaks of listed devices.
* **Files that raise are passed over without notice** in queries over several files
  (`data_reader.py:961`), and `export_download` does not say that it stopped at its
  record limit.
* **The export of several segments never works**: `main.py:860` imports
  `_stage3_iso_utc`, which does not exist.
* **The live page can show the boxes of another device** when two reloads answer in
  reverse order, until the user acts; a failing first load leaves it without a
  timer. `ChartSettles` promises the data of the selected device or an empty chart.

## 7. Not modelled

Of the receivers: the loop of `OBNRequestHandler` that cuts fixed-size packets,
and the kill of the process inside an HDF5 write. A quarantine file that cannot be
opened or written (`server.py` 44-51) loses its bytes with a log line: the packet or
the span counts as dealt with, and no property tells it from one that is in the file.
The directory that cannot be made is modelled (`QuarantineRaises`).

Modelled, but caught by no property (the notes of `PROJECT.json`, "hazards", say why):
retransmissions stored again after a seeding that failed (`db.py:317`); what a lock-free
reader sees of writes that HDF5 has not flushed (`db.py:200`; it is assumed to see them
in their order); whether a sequence number behind the wrap or a number that is none
counts as broken (`db.py:321`); an instrument's late packet put by its old connection
behind one of the new (`obn_server.py:177`); members of a primary that was merged itself
(`app_db.py:969`); two rows hiding each other after an interrupted merge
(`merge_duplicate_devices.py:154`); a second mail after a kill (`stage2.py:308`); a file
passed over in an answer (`data_reader.py:961`).

Of the portal: the reader of the ocean-bottom files, which searches unsorted times
as if they were sorted (`data_reader.py:333`); summaries, quality statistics,
lists of packets and pages, which are functions of one file or one table; the
segmented export (see above); the history page; creating customers; records of
different rates in one stream.

For good: password hashing and cookies (library calls), the station map,
translations and templates (layout), the one-shot administration and conversion
scripts, and the receiver's tools for a SQLite layout that `db.py` no longer
writes.
