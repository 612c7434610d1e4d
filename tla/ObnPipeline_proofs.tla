------------------------- MODULE ObnPipeline_proofs -------------------------
(***************************************************************************)
(* Proofs about ObnPipeline, for any number of connections, instruments,    *)
(* shards and packets and any queue size, whatever fails and whenever the   *)
(* process is told to stop.                                                 *)
(***************************************************************************)
EXTENDS ObnPipeline, TLAPS, SequenceTheorems

-----------------------------------------------------------------------------
(* Constants. *)

\* There is at least one worker, and each shard index is a natural number.
LEMMA WorkerCountPositive == WorkerCount \in Nat \ {0}
BY ConstantsAssumption DEF WorkerCount, AtLeastOne

\* The shard of an instrument.
Shard(i) == Crc32[i] % WorkerCount

\* submit() always finds a queue: crc32 modulo the worker count is a shard.
LEMMA ShardType ==
  /\ \A i \in Instruments : Shard(i) \in Shards
  /\ \A t : ShardOf(t) = Shard(t.dev)
<1>1. ASSUME NEW i \in Instruments PROVE Shard(i) \in Shards
  <2>1. Crc32[i] \in Nat
    BY ConstantsAssumption
  <2>2. QED
    BY <2>1, WorkerCountPositive DEF Shard, Shards
<1>2. QED
  BY <1>1 DEF Shard, ShardOf

\* A queue has room for at least one packet.
LEMMA PerShardType == PerShard \in Nat \ {0}
<1>1. AtLeastOne(QueueMaxPackets) + WorkerCount - 1 \in Int
  BY ConstantsAssumption, WorkerCountPositive DEF AtLeastOne
<1>2. (AtLeastOne(QueueMaxPackets) + WorkerCount - 1) \div WorkerCount \in Int
  BY <1>1, WorkerCountPositive
<1>3. QED
  BY <1>2 DEF PerShard, AtLeastOne

\* The five columns have different names, and the samples come first.
LEMMA ColumnsFacts ==
  /\ Len(Columns) = 5 /\ Columns[1] = "samples"
  /\ \A c \in 1 .. 5 : Columns[c] \in Column
  /\ \A b, c \in 1 .. 5 : Columns[b] = Columns[c] => b = c
  /\ \A x \in Column : \E c \in 1 .. 5 : x = Columns[c]
<1>1. /\ Len(Columns) = 5 /\ DOMAIN Columns = 1 .. 5
      /\ Columns[1] = "samples" /\ Columns[2] = "packet_time_us" /\ Columns[3] = "packet_no"
      /\ Columns[4] = "packet_flags" /\ Columns[5] = "raw_packets"
  BY DEF Columns
<1>2. \A c \in 1 .. 5 : c \in {1, 2, 3, 4, 5}
  OBVIOUS
<1>3. Column = {Columns[c] : c \in 1 .. 5}
  BY <1>1 DEF Column, Range
<1>4. \A b, c \in 1 .. 5 : Columns[b] = Columns[c] => b = c
  BY <1>1, <1>2
<1>5. QED
  BY <1>1, <1>3, <1>4

-----------------------------------------------------------------------------
(* What waits: a line of items, and the log of an instrument's packets of   *)
(* which the first n have been processed.                                   *)

Of(i, item) == item \in PacketTask /\ item.dev = i

\* m finds each packet of the log behind the first n in the line, in the same
\* order, and there is no other packet of the instrument in the line.
Finds(m, line, log, n, i) ==
  /\ \A a \in n + 1 .. Len(log) : line[m[a]] = log[a]
  /\ \A a, b \in n + 1 .. Len(log) : a < b => m[a] < m[b]
  /\ \A k \in 1 .. Len(line) : Of(i, line[k]) => \E a \in n + 1 .. Len(log) : m[a] = k
Waits(line, log, n, i) ==
  \E m \in [n + 1 .. Len(log) -> 1 .. Len(line)] : Finds(m, line, log, n, i)

\* Where nothing waits there is nothing left to process.
LEMMA NothingWaits ==
  ASSUME NEW line \in Seq(Item), NEW log \in Seq(PacketTask), NEW n \in Nat, NEW i,
         Waits(line, log, n, i), Len(line) = 0
  PROVE  n + 1 .. Len(log) = {}
<1>1. PICK m \in [n + 1 .. Len(log) -> 1 .. Len(line)] : TRUE
  BY DEF Waits
<1>2. QED
  BY <1>1

\* An item that is not the instrument's may join the line ...
LEMMA OtherJoins ==
  ASSUME NEW line \in Seq(Item), NEW log \in Seq(PacketTask), NEW n \in Nat, NEW i,
         Waits(line, log, n, i), NEW x \in Item, ~ Of(i, x)
  PROVE  Waits(Append(line, x), log, n, i)
<1> DEFINE more == Append(line, x)
<1>1. PICK m \in [n + 1 .. Len(log) -> 1 .. Len(line)] : Finds(m, line, log, n, i)
  BY DEF Waits
<1>2. /\ Len(more) = Len(line) + 1 /\ Len(line) \in Nat /\ Len(log) \in Nat
      /\ \A k \in 1 .. Len(line) : more[k] = line[k]
      /\ more[Len(line) + 1] = x
  OBVIOUS
<1> HIDE DEF more
<1>3. m \in [n + 1 .. Len(log) -> 1 .. Len(more)]
  BY <1>1, <1>2
<1>4. Finds(m, more, log, n, i)
  <2>1. \A a \in n + 1 .. Len(log) : more[m[a]] = log[a]
    BY <1>1, <1>2 DEF Finds
  <2>2. \A a, b \in n + 1 .. Len(log) : a < b => m[a] < m[b]
    BY <1>1 DEF Finds
  <2>3. \A k \in 1 .. Len(more) : Of(i, more[k]) => k \in 1 .. Len(line) /\ Of(i, line[k])
    BY <1>2
  <2>4. QED
    BY <1>1, <2>1, <2>2, <2>3 DEF Finds
<1>5. QED
  BY <1>3, <1>4 DEF Waits, more

\* ... and a packet of the instrument joins line and log.
LEMMA OwnJoins ==
  ASSUME NEW line \in Seq(Item), NEW log \in Seq(PacketTask), NEW n \in 0 .. Len(log), NEW i,
         Waits(line, log, n, i), NEW p \in PacketTask
  PROVE  Waits(Append(line, p), Append(log, p), n, i)
<1> DEFINE more == Append(line, p)
           longer == Append(log, p)
<1>0. p \in Item
  BY DEF Item
<1>1. PICK m \in [n + 1 .. Len(log) -> 1 .. Len(line)] : Finds(m, line, log, n, i)
  BY DEF Waits
<1>2. /\ Len(more) = Len(line) + 1 /\ Len(line) \in Nat
      /\ \A k \in 1 .. Len(line) : more[k] = line[k]
      /\ more[Len(line) + 1] = p
  BY <1>0
<1>3. /\ Len(longer) = Len(log) + 1 /\ Len(log) \in Nat
      /\ \A a \in 1 .. Len(log) : longer[a] = log[a]
      /\ longer[Len(log) + 1] = p
  OBVIOUS
<1> HIDE DEF more, longer
<1> DEFINE w == [a \in n + 1 .. Len(longer) |-> IF a <= Len(log) THEN m[a] ELSE Len(line) + 1]
<1>4. /\ w \in [n + 1 .. Len(longer) -> 1 .. Len(more)]
      /\ \A a \in n + 1 .. Len(log) : w[a] = m[a] /\ m[a] \in 1 .. Len(line)
      /\ w[Len(log) + 1] = Len(line) + 1
      /\ \A a \in n + 1 .. Len(longer) : a \in n + 1 .. Len(log) \/ a = Len(log) + 1
      /\ Len(log) + 1 \in n + 1 .. Len(longer)
      /\ n + 1 .. Len(log) \subseteq n + 1 .. Len(longer)
  <2>1. /\ \A a \in n + 1 .. Len(log) : m[a] \in 1 .. Len(line)
        /\ \A a \in n + 1 .. Len(longer) : a \in n + 1 .. Len(log) \/ a = Len(log) + 1
        /\ Len(log) + 1 \in n + 1 .. Len(longer)
        /\ n + 1 .. Len(log) \subseteq n + 1 .. Len(longer)
    BY <1>1, <1>3
  <2>2. ASSUME NEW a \in n + 1 .. Len(longer)
        PROVE  (IF a <= Len(log) THEN m[a] ELSE Len(line) + 1) \in 1 .. Len(more)
    BY <2>1, <1>2, <1>3
  <2>3. w \in [n + 1 .. Len(longer) -> 1 .. Len(more)]
    BY <2>2
  <2>4. \A a \in n + 1 .. Len(log) : w[a] = m[a]
    BY <2>1
  <2>5. w[Len(log) + 1] = Len(line) + 1
    BY <2>1, <1>3
  <2>6. QED
    BY <2>1, <2>3, <2>4, <2>5
<1> HIDE DEF w
<1>5. \A a \in n + 1 .. Len(longer) : more[w[a]] = longer[a]
  BY <1>1, <1>2, <1>3, <1>4 DEF Finds
<1>6. \A a, b \in n + 1 .. Len(longer) : a < b => w[a] < w[b]
  BY <1>1, <1>2, <1>3, <1>4 DEF Finds
<1>7. ASSUME NEW k \in 1 .. Len(more), Of(i, more[k])
      PROVE  \E a \in n + 1 .. Len(longer) : w[a] = k
  <2>1. CASE k <= Len(line)
    <3>1. k \in 1 .. Len(line) /\ Of(i, line[k])
      BY <1>2, <1>7, <2>1
    <3>2. PICK a \in n + 1 .. Len(log) : m[a] = k
      BY <1>1, <3>1 DEF Finds
    <3>3. QED
      BY <1>4, <3>2
  <2>2. CASE k > Len(line)
    BY <1>2, <1>4, <2>2
  <2>3. QED
    BY <2>1, <2>2, <1>2
<1>8. QED
  BY <1>4, <1>5, <1>6, <1>7 DEF Waits, Finds, more, longer

\* The line moves up.  Its head is the next packet of its instrument's log ...
LEMMA OwnLeaves ==
  ASSUME NEW line \in Seq(Item), NEW log \in Seq(PacketTask), NEW n \in 0 .. Len(log), NEW i,
         Waits(line, log, n, i), Len(line) > 0, Of(i, line[1])
  PROVE  /\ n < Len(log) /\ log[n + 1] = line[1]
         /\ Waits(Tail(line), log, n + 1, i)
<1> DEFINE rest == Tail(line)
<1>1. PICK m \in [n + 1 .. Len(log) -> 1 .. Len(line)] : Finds(m, line, log, n, i)
  BY DEF Waits
<1>2. /\ Len(rest) = Len(line) - 1 /\ Len(line) \in Nat \ {0} /\ Len(log) \in Nat
      /\ \A k \in 1 .. Len(line) - 1 : rest[k] = line[k + 1]
  <2>1. line # << >>
    OBVIOUS
  <2>2. QED
    BY <2>1, HeadTailProperties
<1> HIDE DEF rest
<1>3. PICK a \in n + 1 .. Len(log) : m[a] = 1
  BY <1>1, <1>2 DEF Finds
<1>4. a = n + 1
  <2>1. n + 1 \in n + 1 .. Len(log) /\ m[n + 1] \in 1 .. Len(line)
    BY <1>1, <1>2, <1>3
  <2>2. n + 1 < a => m[n + 1] < m[a]
    BY <1>1, <2>1, <1>3 DEF Finds
  <2>3. QED
    BY <1>3, <2>1, <2>2
<1>5. n < Len(log) /\ log[n + 1] = line[1]
  BY <1>1, <1>3, <1>4 DEF Finds
<1>6. ASSUME NEW b \in n + 2 .. Len(log) PROVE m[b] \in 2 .. Len(line) /\ line[m[b]] = log[b]
  <2>1. b \in n + 1 .. Len(log) /\ m[b] \in 1 .. Len(line) /\ n + 1 < b
    BY <1>1, <1>2
  <2>2. m[b] > m[n + 1]
    BY <1>1, <1>3, <1>4, <2>1 DEF Finds
  <2>3. QED
    BY <1>1, <1>2, <1>3, <1>4, <2>1, <2>2 DEF Finds
<1> DEFINE w == [b \in (n + 1) + 1 .. Len(log) |-> m[b] - 1]
<1>7. /\ w \in [(n + 1) + 1 .. Len(log) -> 1 .. Len(rest)]
      /\ \A b \in (n + 1) + 1 .. Len(log) : w[b] = m[b] - 1 /\ b \in n + 2 .. Len(log)
      /\ (n + 1) + 1 .. Len(log) \subseteq n + 1 .. Len(log)
  <2>1. (n + 1) + 1 .. Len(log) \subseteq n + 1 .. Len(log)
    BY <1>2
  <2>2. ASSUME NEW b \in (n + 1) + 1 .. Len(log) PROVE b \in n + 2 .. Len(log)
    BY <1>2
  <2>3. \A b \in (n + 1) + 1 .. Len(log) : m[b] - 1 \in 1 .. Len(rest)
    BY <1>2, <1>6, <2>2
  <2>4. w \in [(n + 1) + 1 .. Len(log) -> 1 .. Len(rest)]
    BY <2>3
  <2>5. QED
    BY <2>1, <2>2, <2>4
<1> HIDE DEF w
<1>8. ASSUME NEW b \in (n + 1) + 1 .. Len(log) PROVE rest[w[b]] = log[b]
  <2>1. w[b] = m[b] - 1 /\ m[b] \in 2 .. Len(line) /\ line[m[b]] = log[b]
    BY <1>6, <1>7
  <2>2. w[b] \in 1 .. Len(line) - 1 /\ w[b] + 1 = m[b]
    BY <1>2, <2>1
  <2>3. QED
    BY <1>2, <2>1, <2>2
<1>9. \A b, c \in (n + 1) + 1 .. Len(log) : b < c => w[b] < w[c]
  BY <1>1, <1>6, <1>7 DEF Finds
<1>10. ASSUME NEW k \in 1 .. Len(rest), Of(i, rest[k])
       PROVE  \E b \in (n + 1) + 1 .. Len(log) : w[b] = k
  <2>1. k + 1 \in 1 .. Len(line) /\ Of(i, line[k + 1])
    BY <1>2, <1>10
  <2>2. PICK b \in n + 1 .. Len(log) : m[b] = k + 1
    BY <1>1, <2>1 DEF Finds
  <2>3. b # n + 1
    BY <1>3, <1>4, <2>2, <1>2
  <2>4. b \in (n + 1) + 1 .. Len(log)
    BY <2>2, <2>3, <1>2
  <2>5. QED
    BY <1>7, <2>2, <2>4
<1>11. QED
  BY <1>5, <1>7, <1>8, <1>9, <1>10 DEF Waits, Finds, rest

\* ... and of no other.
LEMMA OtherLeaves ==
  ASSUME NEW line \in Seq(Item), NEW log \in Seq(PacketTask), NEW n \in 0 .. Len(log), NEW i,
         Waits(line, log, n, i), Len(line) > 0, ~ Of(i, line[1]),
         \A a \in 1 .. Len(log) : log[a].dev = i
  PROVE  Waits(Tail(line), log, n, i)
<1> DEFINE rest == Tail(line)
<1>1. PICK m \in [n + 1 .. Len(log) -> 1 .. Len(line)] : Finds(m, line, log, n, i)
  BY DEF Waits
<1>2. /\ Len(rest) = Len(line) - 1 /\ Len(line) \in Nat \ {0} /\ Len(log) \in Nat
      /\ \A k \in 1 .. Len(line) - 1 : rest[k] = line[k + 1]
  <2>1. line # << >>
    OBVIOUS
  <2>2. QED
    BY <2>1, HeadTailProperties
<1> HIDE DEF rest
<1>3. ASSUME NEW b \in n + 1 .. Len(log) PROVE m[b] \in 2 .. Len(line) /\ line[m[b]] = log[b]
  <2>1. m[b] \in 1 .. Len(line) /\ line[m[b]] = log[b]
    BY <1>1 DEF Finds
  <2>2. b \in 1 .. Len(log)
    BY <1>2
  <2>3. Of(i, line[m[b]])
    BY <2>1, <2>2 DEF Of
  <2>4. m[b] # 1
    BY <2>3
  <2>5. QED
    BY <2>1, <2>4, <1>2
<1> DEFINE w == [b \in n + 1 .. Len(log) |-> m[b] - 1]
<1>4. /\ w \in [n + 1 .. Len(log) -> 1 .. Len(rest)]
      /\ \A b \in n + 1 .. Len(log) : w[b] = m[b] - 1
  BY <1>2, <1>3
<1> HIDE DEF w
<1>5. \A b \in n + 1 .. Len(log) : rest[w[b]] = log[b]
  BY <1>2, <1>3, <1>4
<1>6. \A b, c \in n + 1 .. Len(log) : b < c => w[b] < w[c]
  BY <1>1, <1>3, <1>4 DEF Finds
<1>7. ASSUME NEW k \in 1 .. Len(rest), Of(i, rest[k])
      PROVE  \E b \in n + 1 .. Len(log) : w[b] = k
  <2>1. k + 1 \in 1 .. Len(line) /\ Of(i, line[k + 1])
    BY <1>2, <1>7
  <2>2. PICK b \in n + 1 .. Len(log) : m[b] = k + 1
    BY <1>1, <2>1 DEF Finds
  <2>3. QED
    BY <1>4, <2>2
<1>8. QED
  BY <1>4, <1>5, <1>6, <1>7 DEF Waits, Finds, rest

\* An item in front of a queue.
LEMMA InFront ==
  ASSUME NEW x \in Item, NEW q \in Seq(Item)
  PROVE  /\ <<x>> \o q \in Seq(Item) /\ Len(<<x>> \o q) = Len(q) + 1 /\ (<<x>> \o q)[1] = x
         /\ Tail(<<x>> \o q) = q
         /\ \A y \in Item : Append(<<x>> \o q, y) = <<x>> \o Append(q, y)
<1> DEFINE u == <<x>> \o q
<1>1. <<x>> \in Seq(Item) /\ Len(<<x>>) = 1 /\ <<x>>[1] = x
  OBVIOUS
<1>2. /\ u \in Seq(Item) /\ Len(u) = Len(q) + 1 /\ Len(q) \in Nat
      /\ \A k \in 1 .. Len(q) + 1 : u[k] = IF k <= 1 THEN x ELSE q[k - 1]
  <2>1. /\ u \in Seq(Item) /\ Len(u) = 1 + Len(q)
        /\ \A k \in 1 .. 1 + Len(q) : u[k] = IF k <= 1 THEN <<x>>[k] ELSE q[k - 1]
    BY <1>1, ConcatProperties
  <2>2. QED
    BY <1>1, <2>1
<1>3. Tail(u) = q
  <2> HIDE DEF u
  <2>1. u # << >>
    BY <1>2
  <2>2. /\ Tail(u) \in Seq(Item) /\ Len(Tail(u)) = Len(q)
        /\ \A k \in 1 .. Len(q) : Tail(u)[k] = u[k + 1]
    BY <1>2, <2>1, HeadTailProperties
  <2>3. \A k \in 1 .. Len(q) : Tail(u)[k] = q[k]
    BY <1>2, <2>2
  <2>4. QED
    BY <2>2, <2>3, SeqEqual
<1>4. ASSUME NEW y \in Item PROVE Append(u, y) = <<x>> \o Append(q, y)
  <2>1. <<y>> \in Seq(Item)
    OBVIOUS
  <2>2. Append(q, y) = q \o <<y>> /\ Append(u, y) = u \o <<y>>
    BY <1>2, AppendIsConcat
  <2>3. u \o <<y>> = <<x>> \o (q \o <<y>>)
    BY <1>1, <2>1, ConcatAssociative
  <2>4. QED
    BY <2>2, <2>3, Zenon
<1>5. QED
  BY <1>2, <1>3, <1>4

\* ... as taking it out of the queue leaves it.
LEMMA HeadInFront ==
  ASSUME NEW q \in Seq(Item), q # << >>
  PROVE  /\ Head(q) \in Item /\ Head(q) = q[1] /\ Len(q) \in Nat \ {0}
         /\ Tail(q) \in Seq(Item) /\ Len(Tail(q)) = Len(q) - 1
         /\ <<Head(q)>> \o Tail(q) = q
<1>1. /\ Head(q) \in Item /\ Head(q) = q[1]
      /\ Tail(q) \in Seq(Item) /\ Len(Tail(q)) = Len(q) - 1 /\ Len(q) \in Nat \ {0}
      /\ \A k \in 1 .. Len(Tail(q)) : Tail(q)[k] = q[k + 1]
  BY HeadTailProperties, EmptySeq
<1> DEFINE p == <<Head(q)>>
           u == p \o Tail(q)
<1>2. p \in Seq(Item) /\ Len(p) = 1 /\ p[1] = q[1]
  BY <1>1
<1>3. /\ u \in Seq(Item) /\ Len(u) = Len(q)
      /\ \A k \in 1 .. Len(q) : u[k] = IF k <= 1 THEN p[k] ELSE Tail(q)[k - 1]
  BY <1>1, <1>2, ConcatProperties
<1>4. \A k \in 1 .. Len(q) : u[k] = q[k]
  BY <1>1, <1>2, <1>3
<1>5. QED
  BY <1>1, <1>3, <1>4, SeqEqual

-----------------------------------------------------------------------------
(* Steps. *)

Handling(h) == Receive(h) \/ TestStopping(h) \/ Put(h) \/ PutTimesOut(h)
Storing(s) == Parse(s) \/ Open(s) \/ WriteColumn(s)
Finished(s) == Flush(s) \/ Raises(s) \/ ColumnMissing(s)
Working(s) == Get(s) \/ Storing(s) \/ Finished(s) \/ TaskDone(s)
Closing ==
  \/ CloseBegin \/ DeadlinePasses \/ DrainShard \/ DrainEnds
  \/ PutMarker \/ GiveUpMarker \/ JoinWorkers \/ Killed

LEMMA NextSteps ==
  Next <=> \/ \E h \in Handlers : Handling(h)
           \/ \E s \in Shards : Working(s)
           \/ Closing
BY DEF Next, Handling, Working, Storing, Finished, Closing

\* Connections change nothing but the queues, and these by a put only, ...
LEMMA HandlingFrame ==
  ASSUME NEW h \in Handlers, Handling(h)
  PROVE  /\ UNCHANGED <<worker, hand, column, files, created, stopping, closer, at, expired,
                        processed, failed, broken>>
         /\ ~ Put(h) => UNCHANGED <<queue, unfinished, accepted, late>>
<1> USE DEF workerVars, store, closeVars, history
<1>1. CASE Receive(h)
  BY <1>1 DEF Receive
<1>2. CASE TestStopping(h)
  BY <1>2 DEF TestStopping
<1>3. CASE Put(h)
  BY <1>3 DEF Put
<1>4. CASE PutTimesOut(h)
  BY <1>4 DEF PutTimesOut
<1>5. QED
  BY <1>1, <1>2, <1>3, <1>4 DEF Handling

\* ... workers nothing of the connections and of close(), ...
LEMMA WorkingFrame ==
  ASSUME NEW s \in Shards, Working(s)
  PROVE  /\ UNCHANGED <<pc, pending, received, stopping, closer, at, expired, accepted, late>>
         /\ ~ Get(s) => queue' = queue
         /\ ~ TaskDone(s) => unfinished' = unfinished
         /\ ~ Finished(s) => UNCHANGED <<processed, failed, broken>>
         /\ ~ Storing(s) /\ ~ Finished(s) => UNCHANGED <<column, files, created>>
<1> USE DEF handlerVars, workerVars, store, closeVars, history
<1>1. CASE Get(s)
  BY <1>1 DEF Get
<1>2. CASE Storing(s)
  BY <1>2 DEF Storing, Parse, Open, WriteColumn
<1>3. CASE Finished(s)
  BY <1>3 DEF Finished, Flush, Raises, ColumnMissing
<1>4. CASE TaskDone(s)
  BY <1>4 DEF TaskDone
<1>5. QED
  BY <1>1, <1>2, <1>3, <1>4 DEF Working

\* ... and the main thread nothing but its own and, with a marker, a queue.
LEMMA ClosingFrame ==
  ASSUME Closing
  PROVE  /\ UNCHANGED <<pc, pending, received, worker, hand, column, files, created,
                        accepted, processed, failed, broken, late>>
         /\ ~ PutMarker => UNCHANGED <<queue, unfinished>>
BY DEF Closing, CloseBegin, DeadlinePasses, DrainShard, DrainEnds, PutMarker, GiveUpMarker,
       JoinWorkers, Killed, handlerVars, workerVars, store, closeVars, history

-----------------------------------------------------------------------------
(* Types. *)

HandlersOK ==
  /\ pc \in [Handlers -> {"receiving", "submitting", "putting", "ended"}]
  /\ pending \in [Handlers -> Item]
  /\ received \in [Handlers -> Nat] /\ \A h \in Handlers : received[h] <= MaxPackets[h]
  /\ \A h \in Handlers : pc[h] \in {"submitting", "putting"} =>
       /\ pending[h] \in PacketTask
       /\ pending[h] = [conn |-> h, no |-> received[h], dev |-> InstrumentOf[h]]
QueuesOK ==
  /\ queue \in [Shards -> Seq(Item)]
  /\ \A s \in Shards : Len(queue[s]) <= PerShard
Busy == {"parsing", "opening", "appending"}
WorkersOK ==
  /\ worker \in [Shards -> Busy \cup {"getting", "finishing", "exited"}]
  /\ hand \in [Shards -> Item]
  /\ \A s \in Shards : worker[s] \in Busy => hand[s] \in PacketTask
  /\ column \in [Shards -> 1 .. 6]
StoreOK ==
  /\ files \in [Instruments -> [Column -> Seq(Cell)]]
  /\ created \in [Instruments -> 0 .. 5]
CloserOK ==
  /\ stopping \in BOOLEAN /\ expired \in BOOLEAN
  /\ closer \in {"serving", "draining", "marking", "exited", "killed"}
  /\ at \in 0 .. WorkerCount
HistoryOK ==
  /\ accepted \in [Instruments -> Seq(PacketTask)]
  /\ processed \in [Instruments -> Seq(PacketTask)]
  /\ failed \subseteq PacketTask /\ broken \subseteq PacketTask /\ late \subseteq PacketTask
Types == HandlersOK /\ QueuesOK /\ WorkersOK /\ StoreOK /\ CloserOK /\ HistoryOK

\* unfinished_tasks counts what is queued and what a worker has not done yet.
InWork(s) == IF worker[s] \in Busy \cup {"finishing"} THEN 1 ELSE 0
Counts == unfinished \in [Shards -> Int] /\ \A s \in Shards : unfinished[s] = Len(queue[s]) + InWork(s)

LEMMA TypesSuffice == Types /\ Counts => TypeOK
<1> SUFFICES ASSUME Types, Counts PROVE TypeOK
  OBVIOUS
<1>1. unfinished \in [Shards -> Nat]
  <2>1. ASSUME NEW s \in Shards PROVE unfinished[s] \in Nat
    <3>1. Len(queue[s]) \in Nat
      BY DEF Types, QueuesOK
    <3>2. InWork(s) \in {0, 1}
      BY DEF InWork
    <3>3. QED
      BY <3>1, <3>2 DEF Counts
  <2>2. QED
    BY <2>1 DEF Counts
<1>2. column \in [Shards -> 1 .. Len(Columns) + 1] /\ created \in [Instruments -> 0 .. Len(Columns)]
  <2>1. 1 .. Len(Columns) + 1 = 1 .. 6 /\ 0 .. Len(Columns) = 0 .. 5
    BY ColumnsFacts
  <2>2. QED
    BY <2>1 DEF Types, WorkersOK, StoreOK
<1>3. QED
  BY <1>1, <1>2
  DEF TypeOK, Types, HandlersOK, QueuesOK, WorkersOK, Busy, StoreOK, CloserOK, HistoryOK

\* The packet in a connection's hand, and its shard.
LEMMA PendingType ==
  ASSUME Types, NEW h \in Handlers, pc[h] \in {"submitting", "putting"}
  PROVE  /\ pending[h] \in PacketTask /\ pending[h] \in Item /\ pending[h].dev \in Instruments
         /\ pending[h].conn = h /\ pending[h].no = received[h] /\ pending[h].dev = InstrumentOf[h]
         /\ ShardOf(pending[h]) = Shard(InstrumentOf[h]) /\ Shard(InstrumentOf[h]) \in Shards
<1>1. pending[h] = [conn |-> h, no |-> received[h], dev |-> InstrumentOf[h]]
  BY DEF Types, HandlersOK
<1>2. pending[h] \in PacketTask /\ pending[h] \in Item
  BY DEF Types, HandlersOK, Item
<1>3. InstrumentOf[h] \in Instruments
  BY ConstantsAssumption
<1>4. QED
  BY <1>1, <1>2, <1>3, ShardType

\* A column that has been resized, and one of whose cells has been written.
LEMMA ResizedType ==
  ASSUME NEW cells \in Seq(Cell), NEW n \in Nat
  PROVE  /\ Resized(cells, n) \in Seq(Cell) /\ Len(Resized(cells, n)) = n
         /\ \A k \in 1 .. n : Resized(cells, n)[k] = IF k <= Len(cells) THEN cells[k] ELSE Blank
<1> DEFINE u == Resized(cells, n)
<1>1. u = [k \in 1 .. n |-> IF k <= Len(cells) THEN cells[k] ELSE Blank]
  BY DEF Resized
<1>2. ASSUME NEW k \in 1 .. n PROVE (IF k <= Len(cells) THEN cells[k] ELSE Blank) \in Cell
  BY DEF Cell
<1>3. u \in [1 .. n -> Cell]
  BY <1>1, <1>2
<1>4. u \in Seq(Cell) /\ Len(u) = n
  BY <1>3
<1>5. QED
  BY <1>1, <1>4

Written(cells, n, x) == [Resized(cells, n) EXCEPT ![n] = x]

LEMMA WrittenType ==
  ASSUME NEW cells \in Seq(Cell), NEW n \in Nat \ {0}, NEW x \in Cell
  PROVE  /\ Written(cells, n, x) \in Seq(Cell) /\ Len(Written(cells, n, x)) = n
         /\ Written(cells, n, x)[n] = x
         /\ \A k \in 1 .. n - 1 :
              Written(cells, n, x)[k] = IF k <= Len(cells) THEN cells[k] ELSE Blank
<1> DEFINE r == Resized(cells, n)
<1>1. /\ r \in Seq(Cell) /\ Len(r) = n
      /\ \A k \in 1 .. n : r[k] = IF k <= Len(cells) THEN cells[k] ELSE Blank
  BY ResizedType
<1> HIDE DEF r
<1>2. n \in 1 .. Len(r)
  BY <1>1
<1>3. /\ [r EXCEPT ![n] = x] \in Seq(Cell)
      /\ Len([r EXCEPT ![n] = x]) = Len(r)
      /\ \A j \in 1 .. Len(r) : [r EXCEPT ![n] = x][j] = IF j = n THEN x ELSE r[j]
  BY <1>1, <1>2, ExceptSeq
<1>4. QED
  BY <1>1, <1>3 DEF r, Written

LEMMA StaysColumn ==
  ASSUME NEW cells \in Seq(Cell), NEW n \in Nat, NEW x \in Cell
  PROVE  Written(cells, n, x) \in Seq(Cell)
<1>1. CASE n = 0
  <2>1. Resized(cells, n) \in Seq(Cell) /\ Len(Resized(cells, n)) = 0
    BY <1>1, ResizedType
  <2> DEFINE r == Resized(cells, n)
  <2> HIDE DEF r
  <2>2. r \in [1 .. 0 -> Cell] => [r EXCEPT ![n] = x] \in [1 .. 0 -> Cell]
    BY <1>1
  <2>3. r \in Seq(Cell) /\ Len(r) = 0 => r \in [1 .. 0 -> Cell]
    OBVIOUS
  <2>4. [r EXCEPT ![n] = x] \in [1 .. 0 -> Cell] => [r EXCEPT ![n] = x] \in Seq(Cell)
    OBVIOUS
  <2>5. QED
    BY <2>1, <2>2, <2>3, <2>4 DEF r, Written
<1>2. CASE n # 0
  BY <1>2, WrittenType
<1>3. QED
  BY <1>1, <1>2

\* The packet a busy worker has, and where it is going.
LEMMA HandType ==
  ASSUME Types, NEW s \in Shards, worker[s] \in Busy
  PROVE  /\ hand[s] \in PacketTask /\ hand[s] \in Item /\ hand[s] \in Cell
         /\ hand[s].dev \in Instruments
         /\ files[hand[s].dev] \in [Column -> Seq(Cell)]
         /\ created[hand[s].dev] \in 0 .. 5
<1>1. hand[s] \in PacketTask
  BY DEF Types, WorkersOK
<1>2. hand[s].dev \in Instruments
  BY <1>1 DEF PacketTask
<1>3. QED
  BY <1>1, <1>2 DEF Item, Cell, Types, StoreOK

\* The row a packet goes to.
LEMMA RowType ==
  ASSUME Types, NEW s \in Shards, worker[s] \in Busy
  PROVE  /\ RowOf(s) = IF column[s] = 1 THEN Len(files[hand[s].dev]["samples"]) + 1
                                        ELSE Len(files[hand[s].dev]["samples"])
         /\ RowOf(s) \in Nat
<1>1. "samples" \in Column
  BY ColumnsFacts
<1>2. files[hand[s].dev]["samples"] \in Seq(Cell)
  BY <1>1, HandType
<1>3. QED
  BY <1>2 DEF RowOf

\* One column of one file changes.
LEMMA ColumnChange ==
  ASSUME Types, NEW d \in Instruments, NEW x \in Column, NEW v \in Seq(Cell),
         files' = [files EXCEPT ![d][x] = v]
  PROVE  /\ files' \in [Instruments -> [Column -> Seq(Cell)]]
         /\ \A i \in Instruments, y \in Column :
              files'[i][y] = IF i = d /\ y = x THEN v ELSE files[i][y]
<1>1. files \in [Instruments -> [Column -> Seq(Cell)]]
  BY DEF Types, StoreOK
<1> DEFINE f == [files[d] EXCEPT ![x] = v]
<1>2. files' = [files EXCEPT ![d] = f]
  OBVIOUS
<1>3. f \in [Column -> Seq(Cell)] /\ \A y \in Column : f[y] = IF y = x THEN v ELSE files[d][y]
  BY <1>1
<1> HIDE DEF f
<1>4. QED
  BY <1>1, <1>2, <1>3

\* What writing a column does to the file.
LEMMA WriteChange ==
  ASSUME Types, NEW s \in Shards, WriteColumn(s)
  PROVE  LET d == hand[s].dev
             n == RowOf(s)
             v == Written(files[d][Columns[column[s]]], n, hand[s])
         IN  /\ worker[s] = "appending" /\ column[s] \in 1 .. 5 /\ d \in Instruments
             /\ files' = [files EXCEPT ![d][Columns[column[s]]] = v]
             /\ column' = [column EXCEPT ![s] = column[s] + 1]
             /\ Columns[column[s]] \in Column
             /\ UNCHANGED <<worker, hand, created>>
<1>1. /\ worker[s] = "appending" /\ column[s] <= Len(Columns)
      /\ column[s] \in 1 .. 6
  BY DEF WriteColumn, Types, WorkersOK
<1>2. column[s] \in 1 .. 5
  BY <1>1, ColumnsFacts
<1>3. QED
  BY <1>1, <1>2, ColumnsFacts, HandType DEF WriteColumn, Busy, Written

\* What a failure leaves of a file.
LEMMA ResidueChange ==
  ASSUME Types, NEW s \in Shards, worker[s] \in Busy, Residue(s)
  PROVE  LET d == hand[s].dev
         IN  /\ created' \in [Instruments -> 0 .. 5]
             /\ \/ files' = files
                \/ /\ worker[s] = "appending" /\ column[s] \in 1 .. 5
                   /\ files' = [files EXCEPT ![d][Columns[column[s]]] =
                                  Resized(files[d][Columns[column[s]]], RowOf(s))]
<1> DEFINE d == hand[s].dev
<1>1. d \in Instruments /\ created \in [Instruments -> 0 .. 5]
  BY HandType DEF Types, StoreOK
<1>2. CASE UNCHANGED store
  BY <1>1, <1>2 DEF store
<1>3. CASE /\ \E n \in 1 .. Len(Columns) - 1 : created' = [created EXCEPT ![d] = n]
           /\ UNCHANGED files
  BY <1>1, <1>3, ColumnsFacts
<1>4. CASE /\ worker[s] = "appending" /\ column[s] <= Len(Columns)
           /\ files' = [files EXCEPT ![d][Columns[column[s]]] = Resized(@, RowOf(s))]
           /\ UNCHANGED created
  <2>1. column[s] \in 1 .. 5
    BY <1>4, ColumnsFacts DEF Types, WorkersOK
  <2>2. QED
    BY <1>1, <1>4, <2>1
<1>5. QED
  BY <1>2, <1>3, <1>4 DEF Residue

\* No step breaks the types.
LEMMA HandlersStep == Types /\ [Next]_vars => HandlersOK'
<1> SUFFICES ASSUME Types, [Next]_vars PROVE HandlersOK'
  OBVIOUS
<1>1. HandlersOK
  BY DEF Types
<1>2. ASSUME NEW h \in Handlers, Receive(h) PROVE HandlersOK'
  <2> DEFINE p == [conn |-> h, no |-> received[h] + 1, dev |-> InstrumentOf[h]]
  <2>1. /\ received[h] \in Nat /\ received[h] < MaxPackets[h] /\ MaxPackets[h] \in Nat
        /\ InstrumentOf[h] \in Instruments
    BY <1>1, <1>2, ConstantsAssumption DEF Receive, HandlersOK
  <2>2. received[h] + 1 \in 1 .. MaxPackets[h]
    BY <2>1
  <2>3. p \in PacketTask
    BY <2>1, <2>2 DEF PacketTask
  <2>4. p \in Item
    BY <2>3 DEF Item
  <2>5. /\ pending' = [pending EXCEPT ![h] = p]
        /\ received' = [received EXCEPT ![h] = received[h] + 1]
        /\ pc' = [pc EXCEPT ![h] = "submitting"]
    BY <1>2 DEF Receive
  <2>6. \A g \in Handlers \ {h} : pc'[g] = pc[g] /\ pending'[g] = pending[g] /\ received'[g] = received[g]
    BY <1>1, <2>5 DEF HandlersOK
  <2>7. pc'[h] = "submitting" /\ pending'[h] = p /\ received'[h] = received[h] + 1
    BY <1>1, <2>5 DEF HandlersOK
  <2> HIDE DEF p
  <2>8. /\ pc' \in [Handlers -> {"receiving", "submitting", "putting", "ended"}]
        /\ pending' \in [Handlers -> Item]
        /\ received' \in [Handlers -> Nat]
    BY <1>1, <2>1, <2>4, <2>5 DEF HandlersOK
  <2>9. \A g \in Handlers : received'[g] <= MaxPackets[g]
    BY <1>1, <2>2, <2>6, <2>7 DEF HandlersOK
  <2>10. ASSUME NEW g \in Handlers, pc'[g] \in {"submitting", "putting"}
         PROVE  /\ pending'[g] \in PacketTask
                /\ pending'[g] = [conn |-> g, no |-> received'[g], dev |-> InstrumentOf[g]]
    <3>1. CASE g = h
      BY <2>3, <2>7, <3>1 DEF p
    <3>2. CASE g # h
      BY <1>1, <2>6, <2>10, <3>2 DEF HandlersOK
    <3>3. QED
      BY <3>1, <3>2
  <2>11. QED
    BY <2>8, <2>9, <2>10 DEF HandlersOK
<1>3. ASSUME NEW h \in Handlers, TestStopping(h) PROVE HandlersOK'
  BY <1>1, <1>3 DEF TestStopping, HandlersOK, Item
<1>4. ASSUME NEW h \in Handlers, Put(h) PROVE HandlersOK'
  BY <1>1, <1>4 DEF Put, HandlersOK, Item
<1>5. ASSUME NEW h \in Handlers, PutTimesOut(h) PROVE HandlersOK'
  BY <1>1, <1>5 DEF PutTimesOut, HandlersOK
<1>6. CASE UNCHANGED <<pc, pending, received>>
  BY <1>1, <1>6 DEF HandlersOK
<1>7. QED
  BY <1>2, <1>3, <1>4, <1>5, <1>6, NextSteps, WorkingFrame, ClosingFrame
  DEF Handling, vars, handlerVars

LEMMA QueuesStep == Types /\ [Next]_vars => QueuesOK'
<1> SUFFICES ASSUME Types, [Next]_vars PROVE QueuesOK'
  OBVIOUS
<1>1. QueuesOK
  BY DEF Types
<1>2. ASSUME NEW s \in Shards, NEW x \in Item, ~ Full(s),
             queue' = [queue EXCEPT ![s] = Append(queue[s], x)]
      PROVE  QueuesOK'
  <2>1. queue[s] \in Seq(Item) /\ Len(queue[s]) < PerShard
    BY <1>1, <1>2, PerShardType DEF QueuesOK, Full
  <2>2. /\ Append(queue[s], x) \in Seq(Item)
        /\ Len(Append(queue[s], x)) <= PerShard
    BY <2>1, PerShardType
  <2>3. QED
    BY <1>1, <1>2, <2>2 DEF QueuesOK
<1>3. ASSUME NEW h \in Handlers, Put(h) PROVE QueuesOK'
  <2>1. /\ ~ Full(ShardOf(pending[h])) /\ pc[h] = "putting"
        /\ queue' = [queue EXCEPT ![ShardOf(pending[h])] = Append(queue[ShardOf(pending[h])], pending[h])]
    BY <1>3 DEF Put
  <2>2. pending[h] \in Item /\ ShardOf(pending[h]) \in Shards
    BY <2>1, PendingType
  <2>3. QED
    BY <1>2, <2>1, <2>2
<1>4. ASSUME NEW s \in Shards, Get(s) PROVE QueuesOK'
  <2>1. /\ queue[s] \in Seq(Item) /\ queue[s] # << >> /\ Len(queue[s]) <= PerShard
        /\ queue' = [queue EXCEPT ![s] = Tail(queue[s])]
    BY <1>1, <1>4 DEF Get, QueuesOK
  <2>2. Tail(queue[s]) \in Seq(Item) /\ Len(Tail(queue[s])) <= PerShard
    BY <2>1, HeadInFront, PerShardType
  <2>3. QED
    BY <1>1, <2>1, <2>2 DEF QueuesOK
<1>5. CASE PutMarker
  <2>1. at \in Shards /\ None \in Item
    BY <1>5, WorkerCountPositive DEF PutMarker, Types, CloserOK, Shards, Item
  <2>2. ~ Full(at) /\ queue' = [queue EXCEPT ![at] = Append(queue[at], None)]
    BY <1>5 DEF PutMarker
  <2>3. QED
    BY <1>2, <2>1, <2>2
<1>6. CASE UNCHANGED queue
  BY <1>1, <1>6 DEF QueuesOK
<1>7. QED
  BY <1>3, <1>4, <1>5, <1>6, NextSteps, HandlingFrame, WorkingFrame, ClosingFrame DEF vars

LEMMA WorkersStep == Types /\ [Next]_vars => WorkersOK'
<1> SUFFICES ASSUME Types, [Next]_vars PROVE WorkersOK'
  OBVIOUS
<1>1. WorkersOK
  BY DEF Types
<1>2. ASSUME NEW s \in Shards, Get(s) PROVE WorkersOK'
  <2>1. queue[s] \in Seq(Item) /\ queue[s] # << >>
    BY <1>2 DEF Get, Types, QueuesOK
  <2>2. Head(queue[s]) \in Item
    BY <2>1, HeadInFront
  <2>3. QED
    BY <1>1, <1>2, <2>2 DEF Get, WorkersOK, Busy, Item
<1>3. ASSUME NEW s \in Shards, Parse(s) PROVE WorkersOK'
  BY <1>1, <1>3 DEF Parse, WorkersOK, Busy
<1>4. ASSUME NEW s \in Shards, Open(s) PROVE WorkersOK'
  BY <1>1, <1>4 DEF Open, WorkersOK, Busy
<1>5. ASSUME NEW s \in Shards, WriteColumn(s) PROVE WorkersOK'
  <2>1. /\ column[s] \in 1 .. 5 /\ column' = [column EXCEPT ![s] = column[s] + 1]
        /\ UNCHANGED <<worker, hand>>
    BY <1>5, WriteChange
  <2>2. column[s] + 1 \in 1 .. 6
    BY <2>1
  <2>3. QED
    BY <1>1, <2>1, <2>2 DEF WorkersOK
<1>6. ASSUME NEW s \in Shards, Finished(s) PROVE WorkersOK'
  BY <1>1, <1>6 DEF Finished, Flush, Raises, ColumnMissing, Processed, WorkersOK, Busy
<1>7. ASSUME NEW s \in Shards, TaskDone(s) PROVE WorkersOK'
  BY <1>1, <1>7 DEF TaskDone, WorkersOK, Busy, Item
<1>8. CASE UNCHANGED <<worker, hand, column>>
  BY <1>1, <1>8 DEF WorkersOK
<1>9. QED
  BY <1>2, <1>3, <1>4, <1>5, <1>6, <1>7, <1>8, NextSteps, HandlingFrame, ClosingFrame
  DEF Working, Storing, vars, workerVars

LEMMA StoreStep == Types /\ [Next]_vars => StoreOK'
<1> SUFFICES ASSUME Types, [Next]_vars PROVE StoreOK'
  OBVIOUS
<1>1. StoreOK
  BY DEF Types
<1>2. ASSUME NEW s \in Shards, Parse(s) \/ Flush(s) \/ ColumnMissing(s) PROVE StoreOK'
  BY <1>1, <1>2 DEF Parse, Flush, ColumnMissing, store, StoreOK
<1>3. ASSUME NEW s \in Shards, Open(s) PROVE StoreOK'
  <2> DEFINE d == hand[s].dev
             n == IF created[d] = 0 THEN Len(Columns) ELSE created[d]
  <2>1. created' = [created EXCEPT ![d] = n] /\ files' = files /\ worker[s] = "opening"
    BY <1>3 DEF Open
  <2>2. created[d] \in 0 .. 5
    BY <2>1, HandType DEF Busy
  <2>3. n \in 0 .. 5
    BY <2>2, ColumnsFacts
  <2> HIDE DEF n
  <2>4. QED
    BY <1>1, <2>1, <2>3 DEF StoreOK
<1>4. ASSUME NEW s \in Shards, WriteColumn(s) PROVE StoreOK'
  <2> DEFINE d == hand[s].dev
             n == RowOf(s)
             x == Columns[column[s]]
             v == Written(files[d][x], n, hand[s])
  <2>1. /\ worker[s] = "appending" /\ d \in Instruments /\ x \in Column /\ created' = created
        /\ files' = [files EXCEPT ![d][x] = v]
    BY <1>4, WriteChange
  <2>2. hand[s] \in Cell /\ files[d][x] \in Seq(Cell)
    BY <2>1, HandType DEF Busy
  <2>3. n \in Nat
    BY <2>1, RowType DEF Busy
  <2>4. v \in Seq(Cell)
    BY <2>2, <2>3, StaysColumn
  <2> HIDE DEF v
  <2>5. files' \in [Instruments -> [Column -> Seq(Cell)]]
    BY <2>1, <2>4, ColumnChange
  <2>6. QED
    BY <1>1, <2>1, <2>5 DEF StoreOK
<1>5. ASSUME NEW s \in Shards, Raises(s) PROVE StoreOK'
  <2> DEFINE d == hand[s].dev
             x == Columns[column[s]]
             v == Resized(files[d][x], RowOf(s))
  <2>1. worker[s] \in Busy /\ Residue(s)
    BY <1>5 DEF Raises, Busy
  <2>2. CASE files' = files
    BY <1>1, <2>1, <2>2, ResidueChange DEF StoreOK
  <2>3. CASE column[s] \in 1 .. 5 /\ files' = [files EXCEPT ![d][x] = v]
    <3>1. d \in Instruments /\ x \in Column
      BY <2>1, <2>3, HandType, ColumnsFacts
    <3>2. files[d][x] \in Seq(Cell)
      BY <2>1, <3>1, HandType
    <3>3. v \in Seq(Cell)
      BY <2>1, <3>2, RowType, ResizedType
    <3> HIDE DEF v
    <3>4. files' \in [Instruments -> [Column -> Seq(Cell)]]
      BY <2>3, <3>1, <3>3, ColumnChange
    <3>5. QED
      BY <2>1, <3>4, ResidueChange DEF StoreOK
  <2>4. QED
    BY <2>1, <2>2, <2>3, ResidueChange
<1>6. CASE UNCHANGED <<files, created>>
  BY <1>1, <1>6 DEF StoreOK
<1>7. QED
  BY <1>2, <1>3, <1>4, <1>5, <1>6, NextSteps, HandlingFrame, WorkingFrame, ClosingFrame
  DEF Working, Storing, Finished, vars, store

LEMMA CloserStep == Types /\ [Next]_vars => CloserOK'
<1> SUFFICES ASSUME Types, [Next]_vars PROVE CloserOK'
  OBVIOUS
<1>1. CloserOK
  BY DEF Types
<1>2. CASE PutMarker \/ GiveUpMarker
  <2>1. /\ closer = "marking" /\ at' = at + 1 /\ at < WorkerCount
        /\ UNCHANGED <<stopping, closer, expired>>
    BY <1>2 DEF PutMarker, GiveUpMarker
  <2>2. at' \in 0 .. WorkerCount
    BY <1>1, <2>1, WorkerCountPositive DEF CloserOK
  <2>3. QED
    BY <1>1, <2>1, <2>2 DEF CloserOK
<1>3. CASE DrainShard
  <2>1. /\ at' = WorkerCount \/ (at' = at + 1 /\ at < WorkerCount)
        /\ UNCHANGED <<stopping, closer, expired>>
    BY <1>3 DEF DrainShard
  <2>2. at' \in 0 .. WorkerCount
    BY <1>1, <2>1, WorkerCountPositive DEF CloserOK
  <2>3. QED
    BY <1>1, <2>1, <2>2 DEF CloserOK
<1>4. CASE CloseBegin \/ DeadlinePasses \/ DrainEnds \/ JoinWorkers \/ Killed
  <2>1. stopping' \in BOOLEAN /\ expired' \in BOOLEAN
    BY <1>1, <1>4 DEF CloseBegin, DeadlinePasses, DrainEnds, JoinWorkers, Killed, CloserOK
  <2>2. closer' \in {"serving", "draining", "marking", "exited", "killed"}
    BY <1>1, <1>4 DEF CloseBegin, DeadlinePasses, DrainEnds, JoinWorkers, Killed, CloserOK
  <2>3. at' = at \/ at' = 0
    BY <1>4 DEF CloseBegin, DeadlinePasses, DrainEnds, JoinWorkers, Killed
  <2>4. at' \in 0 .. WorkerCount
    BY <1>1, <2>3, WorkerCountPositive DEF CloserOK
  <2>5. QED
    BY <2>1, <2>2, <2>4 DEF CloserOK
<1>5. CASE UNCHANGED <<stopping, closer, at, expired>>
  BY <1>1, <1>5 DEF CloserOK
<1>6. QED
  BY <1>2, <1>3, <1>4, <1>5, NextSteps, HandlingFrame, WorkingFrame DEF Closing, vars, closeVars

LEMMA HistoryStep == Types /\ [Next]_vars => HistoryOK'
<1> SUFFICES ASSUME Types, [Next]_vars PROVE HistoryOK'
  OBVIOUS
<1>1. HistoryOK
  BY DEF Types
<1>2. ASSUME NEW h \in Handlers, Put(h) PROVE HistoryOK'
  <2> DEFINE p == pending[h]
  <2>1. /\ accepted' = [accepted EXCEPT ![p.dev] = Append(accepted[p.dev], p)]
        /\ late' \subseteq late \cup {p} /\ UNCHANGED <<processed, failed, broken>>
        /\ pc[h] = "putting"
    BY <1>2 DEF Put
  <2>2. p \in PacketTask /\ p.dev \in Instruments
    BY <2>1, PendingType
  <2>3. Append(accepted[p.dev], p) \in Seq(PacketTask)
    BY <1>1, <2>2 DEF HistoryOK
  <2>4. QED
    BY <1>1, <2>1, <2>2, <2>3 DEF HistoryOK
<1>3. ASSUME NEW s \in Shards, Finished(s) PROVE HistoryOK'
  <2> DEFINE p == hand[s]
  <2>1. /\ processed' = [processed EXCEPT ![p.dev] = Append(processed[p.dev], p)]
        /\ failed' \subseteq failed \cup {p} /\ broken' \subseteq broken \cup {p}
        /\ UNCHANGED <<accepted, late>>
        /\ worker[s] \in Busy
    BY <1>3 DEF Finished, Flush, Raises, ColumnMissing, Processed, Busy
  <2>2. p \in PacketTask /\ p.dev \in Instruments
    BY <2>1, HandType
  <2>3. Append(processed[p.dev], p) \in Seq(PacketTask)
    BY <1>1, <2>2 DEF HistoryOK
  <2>4. QED
    BY <1>1, <2>1, <2>2, <2>3 DEF HistoryOK
<1>4. CASE UNCHANGED <<accepted, processed, failed, broken, late>>
  BY <1>1, <1>4 DEF HistoryOK
<1>5. QED
  BY <1>2, <1>3, <1>4, NextSteps, HandlingFrame, WorkingFrame, ClosingFrame DEF vars, history

LEMMA TypesStep == Types /\ [Next]_vars => Types'
BY HandlersStep, QueuesStep, WorkersStep, StoreStep, CloserStep, HistoryStep DEF Types

\* Files of earlier runs have their types.
LEMMA TypesInit == Init => Types
<1> SUFFICES ASSUME Init PROVE Types
  OBVIOUS
<1>1. HandlersOK
  BY ConstantsAssumption DEF Init, HandlersOK, Item
<1>2. QueuesOK
  BY PerShardType DEF Init, QueuesOK
<1>3. WorkersOK
  BY DEF Init, WorkersOK, Busy, Item
<1>4. StoreOK
  <2>1. NoRows \in [Column -> Seq(Cell)]
    BY DEF NoRows
  <2>2. ASSUME NEW old \in OldFiles PROVE OldFile(old) \in [Column -> Seq(Cell)]
    <3>1. old.rows \in Nat /\ Old \in Cell
      BY ConstantsAssumption DEF Cell
    <3>2. [i \in 1 .. old.rows |-> Old] \in Seq(Cell) /\ << >> \in Seq(Cell)
      BY <3>1
    <3>3. QED
      BY <3>2 DEF OldFile
  <2>3. files \in [Instruments -> [Column -> Seq(Cell)]]
    BY <2>1, <2>2 DEF Init
  <2>4. QED
    BY <2>3, ColumnsFacts DEF Init, StoreOK
<1>5. CloserOK
  <2>1. 0 \in 0 .. WorkerCount
    BY WorkerCountPositive
  <2>2. QED
    BY <2>1 DEF Init, CloserOK
<1>6. HistoryOK
  BY DEF Init, HistoryOK
<1>7. QED
  BY <1>1, <1>2, <1>3, <1>4, <1>5, <1>6 DEF Types
-----------------------------------------------------------------------------
(* Type correctness. *)

\* Queue.put() and task_done() keep the count of what is in work.
LEMMA CountsStep == Types /\ Counts /\ [Next]_vars => Counts'
<1> SUFFICES ASSUME Types, Counts, [Next]_vars PROVE Counts'
  OBVIOUS
<1>0. /\ queue \in [Shards -> Seq(Item)] /\ unfinished \in [Shards -> Int]
      /\ worker \in [Shards -> Busy \cup {"getting", "finishing", "exited"}]
      /\ \A r \in Shards : Len(queue[r]) \in Nat /\ InWork(r) \in {0, 1}
      /\ \A r \in Shards : unfinished[r] = Len(queue[r]) + InWork(r)
  BY DEF Types, QueuesOK, WorkersOK, Counts, InWork
<1>1. ASSUME NEW s \in Shards, NEW x \in Item,
             queue' = [queue EXCEPT ![s] = Append(queue[s], x)],
             unfinished' = [unfinished EXCEPT ![s] = unfinished[s] + 1], worker' = worker
      PROVE  Counts'
  <2>1. Len(Append(queue[s], x)) = Len(queue[s]) + 1
    BY <1>0
  <2>2. \A r \in Shards : Len(queue'[r]) = IF r = s THEN Len(queue[r]) + 1 ELSE Len(queue[r])
    BY <1>0, <1>1, <2>1
  <2>3. \A r \in Shards : InWork(r)' = InWork(r)
    BY <1>1 DEF InWork
  <2>4. \A r \in Shards : unfinished'[r] = IF r = s THEN unfinished[r] + 1 ELSE unfinished[r]
    BY <1>0, <1>1
  <2>5. unfinished' \in [Shards -> Int]
    BY <1>0, <1>1
  <2>6. ASSUME NEW r \in Shards PROVE unfinished'[r] = Len(queue'[r]) + InWork(r)'
    <3>1. Len(queue[r]) \in Nat /\ InWork(r) \in {0, 1} /\ unfinished[r] = Len(queue[r]) + InWork(r)
      BY <1>0
    <3>2. QED
      BY <2>2, <2>3, <2>4, <3>1
  <2>7. QED
    BY <2>5, <2>6 DEF Counts
<1>2. ASSUME NEW h \in Handlers, Put(h) PROVE Counts'
  <2>1. pending[h] \in Item /\ ShardOf(pending[h]) \in Shards
    BY <1>2, PendingType DEF Put
  <2>2. /\ queue' = [queue EXCEPT ![ShardOf(pending[h])] = Append(queue[ShardOf(pending[h])], pending[h])]
        /\ unfinished' = [unfinished EXCEPT ![ShardOf(pending[h])] = unfinished[ShardOf(pending[h])] + 1]
        /\ worker' = worker
    BY <1>2 DEF Put, workerVars
  <2>3. QED
    BY <1>1, <2>1, <2>2
<1>3. CASE PutMarker
  <2>1. at \in Shards /\ None \in Item
    BY <1>3, WorkerCountPositive DEF PutMarker, Types, CloserOK, Shards, Item
  <2>2. /\ queue' = [queue EXCEPT ![at] = Append(queue[at], None)]
        /\ unfinished' = [unfinished EXCEPT ![at] = unfinished[at] + 1]
        /\ worker' = worker
    BY <1>3 DEF PutMarker, workerVars
  <2>3. QED
    BY <1>1, <2>1, <2>2
<1>4. ASSUME NEW s \in Shards, Get(s) PROVE Counts'
  <2>1. queue[s] \in Seq(Item) /\ queue[s] # << >>
    BY <1>0, <1>4 DEF Get
  <2>2. Len(Tail(queue[s])) = Len(queue[s]) - 1
    BY <2>1, HeadTailProperties
  <2>3. /\ queue' = [queue EXCEPT ![s] = Tail(queue[s])]
        /\ unfinished' = unfinished /\ worker[s] = "getting"
        /\ worker' = [worker EXCEPT ![s] = worker'[s]]
        /\ worker'[s] \in {"finishing", "parsing"}
    BY <1>0, <1>4 DEF Get
  <2>4. \A r \in Shards : Len(queue'[r]) = IF r = s THEN Len(queue[r]) - 1 ELSE Len(queue[r])
    BY <1>0, <2>2, <2>3
  <2>5. \A r \in Shards : InWork(r)' = IF r = s THEN InWork(r) + 1 ELSE InWork(r)
    BY <1>0, <2>3 DEF InWork, Busy
  <2>6. ASSUME NEW r \in Shards PROVE unfinished'[r] = Len(queue'[r]) + InWork(r)'
    <3>1. Len(queue[r]) \in Nat /\ InWork(r) \in {0, 1} /\ unfinished[r] = Len(queue[r]) + InWork(r)
      BY <1>0
    <3>2. QED
      BY <2>3, <2>4, <2>5, <3>1
  <2>7. QED
    BY <1>0, <2>3, <2>6 DEF Counts
<1>5. ASSUME NEW s \in Shards, TaskDone(s) PROVE Counts'
  <2>1. /\ queue' = queue /\ worker[s] = "finishing"
        /\ unfinished' = [unfinished EXCEPT ![s] = unfinished[s] - 1]
        /\ worker' = [worker EXCEPT ![s] = worker'[s]]
        /\ worker'[s] \in {"exited", "getting"}
    BY <1>0, <1>5 DEF TaskDone
  <2>2. \A r \in Shards : InWork(r)' = IF r = s THEN InWork(r) - 1 ELSE InWork(r)
    BY <1>0, <2>1 DEF InWork, Busy
  <2>3. \A r \in Shards : unfinished'[r] = IF r = s THEN unfinished[r] - 1 ELSE unfinished[r]
    BY <1>0, <2>1
  <2>4. unfinished' \in [Shards -> Int]
    BY <1>0, <2>1
  <2>5. QED
    BY <1>0, <2>1, <2>2, <2>3, <2>4 DEF Counts
<1>6. ASSUME UNCHANGED <<queue, unfinished>>, \A r \in Shards : InWork(r)' = InWork(r)
      PROVE  Counts'
  BY <1>0, <1>6 DEF Counts
<1>7. ASSUME NEW s \in Shards, Storing(s) \/ Finished(s) PROVE Counts'
  <2>1. \/ Parse(s) /\ worker' = [worker EXCEPT ![s] = "opening"]
        \/ Open(s) /\ worker' = [worker EXCEPT ![s] = "appending"]
        \/ WriteColumn(s) /\ worker' = worker
        \/ Finished(s) /\ worker' = [worker EXCEPT ![s] = "finishing"]
    BY <1>7 DEF Storing, Finished, Parse, Open, WriteColumn, Flush, Raises, ColumnMissing, Processed
  <2>0. worker[s] \in Busy
    BY <1>7 DEF Storing, Finished, Parse, Open, WriteColumn, Flush, Raises, ColumnMissing, Busy
  <2>2. \A r \in Shards : InWork(r)' = InWork(r)
    BY <1>0, <2>0, <2>1 DEF InWork, Busy
  <2>3. UNCHANGED <<queue, unfinished>>
    BY <1>7 DEF Storing, Finished, Parse, Open, WriteColumn, Flush, Raises, ColumnMissing
  <2>4. QED
    BY <1>6, <2>2, <2>3
<1>8. CASE UNCHANGED <<queue, unfinished, worker>>
  BY <1>6, <1>8 DEF InWork
<1>9. QED
  BY <1>2, <1>3, <1>4, <1>5, <1>7, <1>8, NextSteps, HandlingFrame, ClosingFrame
  DEF Working, vars, workerVars

\* Every variable keeps its type, for any number of connections and instruments:
\* queues stay within their bound, a worker that writes has a packet, and each
\* packet's queue exists.
THEOREM TypeCorrect == Spec => []TypeOK
<1>1. Init => Counts
  BY DEF Init, Counts, InWork, Busy
<1>2. QED
  BY <1>1, TypesInit, TypesStep, CountsStep, TypesSuffice, PTL DEF Spec

\* What the theorems below take from it.
THEOREM TypesCorrect == Spec => [](Types /\ Counts)
<1>1. Init => Counts
  BY DEF Init, Counts, InWork, Busy
<1>2. Types /\ Counts /\ [Next]_vars => (Types /\ Counts)'
  BY TypesStep, CountsStep
<1>3. Init => Types /\ Counts
  BY <1>1, TypesInit
<1>4. QED
  BY <1>2, <1>3, PTL DEF Spec
-----------------------------------------------------------------------------
(* Lines. *)

\* What waits for a worker: its queue, behind the packet it has in hand.
Line(s) == IF worker[s] \in Busy THEN <<hand[s]>> \o queue[s] ELSE queue[s]

LEMMA LineType ==
  ASSUME Types, NEW s \in Shards
  PROVE  /\ Line(s) \in Seq(Item) /\ Len(Line(s)) = Len(queue[s]) + (IF worker[s] \in Busy THEN 1 ELSE 0)
         /\ Len(queue[s]) \in Nat
<1>1. queue[s] \in Seq(Item) /\ Len(queue[s]) \in Nat
  BY DEF Types, QueuesOK
<1>2. CASE worker[s] \in Busy
  BY <1>1, <1>2, HandType, InFront DEF Line
<1>3. CASE worker[s] \notin Busy
  BY <1>1, <1>3 DEF Line
<1>4. QED
  BY <1>1, <1>2, <1>3

\* An item joins the line of shard t, the head of that line leaves it, or no
\* line changes.
Joins(t, x) == \A s \in Shards : Line(s)' = IF s = t THEN Append(Line(s), x) ELSE Line(s)
Leaves(t) == \A s \in Shards : Line(s)' = IF s = t THEN Tail(Line(s)) ELSE Line(s)
Still == \A s \in Shards : Line(s)' = Line(s)

LEMMA QueueJoins ==
  ASSUME Types, NEW t \in Shards, NEW x \in Item, UNCHANGED <<worker, hand>>,
         queue' = [queue EXCEPT ![t] = Append(queue[t], x)]
  PROVE  Joins(t, x)
<1>1. ASSUME NEW s \in Shards PROVE Line(s)' = IF s = t THEN Append(Line(s), x) ELSE Line(s)
  <2>1. queue[s] \in Seq(Item) /\ queue'[s] = IF s = t THEN Append(queue[s], x) ELSE queue[s]
    BY DEF Types, QueuesOK
  <2>2. CASE worker[s] \in Busy
    <3>1. hand[s] \in Item
      BY <2>2, HandType
    <3>2. Append(<<hand[s]>> \o queue[s], x) = <<hand[s]>> \o Append(queue[s], x)
      BY <2>1, <3>1, InFront
    <3>3. Line(s) = <<hand[s]>> \o queue[s] /\ Line(s)' = <<hand[s]>> \o queue'[s]
      BY <2>2 DEF Line
    <3>4. QED
      BY <2>1, <3>2, <3>3
  <2>3. CASE worker[s] \notin Busy
    BY <2>1, <2>3 DEF Line
  <2>4. QED
    BY <2>2, <2>3
<1>2. QED
  BY <1>1 DEF Joins

\* A put.
LEMMA PutLine ==
  ASSUME Types, NEW h \in Handlers, Put(h)
  PROVE  LET p == pending[h]
         IN  /\ p \in PacketTask /\ p.conn = h /\ p.no = received[h] /\ p.dev \in Instruments
             /\ Shard(p.dev) \in Shards /\ ShardOf(p) = Shard(p.dev)
             /\ Joins(Shard(p.dev), p)
             /\ accepted' = [accepted EXCEPT ![p.dev] = Append(accepted[p.dev], p)]
             /\ UNCHANGED <<processed, received, stopping, closer, at, expired>>
             /\ late' = (IF stopping THEN late \cup {p} ELSE late)
             /\ pc[h] = "putting" /\ pc' = [pc EXCEPT ![h] = "receiving"]
<1> DEFINE p == pending[h]
<1>1. pc[h] = "putting"
  BY DEF Put
<1>2. /\ p \in PacketTask /\ p \in Item /\ p.conn = h /\ p.no = received[h] /\ p.dev \in Instruments
      /\ Shard(p.dev) \in Shards /\ ShardOf(p) = Shard(p.dev)
  BY <1>1, PendingType, ShardType
<1>3. /\ queue' = [queue EXCEPT ![ShardOf(p)] = Append(queue[ShardOf(p)], p)]
      /\ UNCHANGED <<worker, hand>>
  BY DEF Put, workerVars
<1>4. Joins(Shard(p.dev), p)
  BY <1>2, <1>3, QueueJoins
<1>5. /\ accepted' = [accepted EXCEPT ![p.dev] = Append(accepted[p.dev], p)]
      /\ UNCHANGED <<processed, received, stopping, closer, at, expired>>
      /\ late' = (IF stopping THEN late \cup {p} ELSE late)
      /\ pc' = [pc EXCEPT ![h] = "receiving"]
  BY DEF Put, closeVars
<1>6. QED
  BY <1>1, <1>2, <1>4, <1>5

\* close() puts a marker.
LEMMA MarkerLine ==
  ASSUME Types, PutMarker
  PROVE  at \in Shards /\ None \in Item /\ Joins(at, None)
<1>1. at \in Shards /\ None \in Item
  BY WorkerCountPositive DEF PutMarker, Types, CloserOK, Shards, Item
<1>2. queue' = [queue EXCEPT ![at] = Append(queue[at], None)] /\ UNCHANGED <<worker, hand>>
  BY DEF PutMarker, workerVars
<1>3. QED
  BY <1>1, <1>2, QueueJoins

\* A worker takes a packet, which stays in the line, or a marker.
LEMMA GetLine ==
  ASSUME Types, NEW t \in Shards, Get(t)
  PROVE  Still \/ (Leaves(t) /\ Len(Line(t)) > 0 /\ Line(t)[1] = None)
<1>1. /\ worker[t] = "getting" /\ queue[t] # << >>
      /\ hand' = [hand EXCEPT ![t] = Head(queue[t])]
      /\ queue' = [queue EXCEPT ![t] = Tail(queue[t])]
      /\ worker' = [worker EXCEPT ![t] = IF Head(queue[t]) = None THEN "finishing" ELSE "parsing"]
  BY DEF Get
<1>2. /\ queue \in [Shards -> Seq(Item)] /\ hand \in [Shards -> Item]
      /\ worker \in [Shards -> Busy \cup {"getting", "finishing", "exited"}]
  BY DEF Types, QueuesOK, WorkersOK
<1>3. /\ Head(queue[t]) = queue[t][1] /\ Len(queue[t]) \in Nat \ {0}
      /\ <<Head(queue[t])>> \o Tail(queue[t]) = queue[t]
  BY <1>1, <1>2, HeadInFront
<1>4. Line(t) = queue[t]
  BY <1>1 DEF Line, Busy
<1>5. \A s \in Shards : s # t => Line(s)' = Line(s)
  BY <1>1, <1>2 DEF Line
<1>6. hand'[t] = Head(queue[t]) /\ queue'[t] = Tail(queue[t])
  BY <1>1, <1>2
<1>7. CASE Head(queue[t]) = None
  <2>1. worker'[t] = "finishing"
    BY <1>1, <1>2, <1>7
  <2>2. Line(t)' = Tail(queue[t])
    BY <1>6, <2>1 DEF Line, Busy
  <2>3. Leaves(t)
    BY <1>4, <1>5, <2>2 DEF Leaves
  <2>4. QED
    BY <1>3, <1>4, <1>7, <2>3
<1>8. CASE Head(queue[t]) # None
  <2>1. worker'[t] = "parsing"
    BY <1>1, <1>2, <1>8
  <2>2. Line(t)' = <<Head(queue[t])>> \o Tail(queue[t])
    BY <1>6, <2>1 DEF Line, Busy
  <2>3. QED
    BY <1>3, <1>4, <1>5, <2>2 DEF Still
<1>9. QED
  BY <1>7, <1>8

\* A worker is done with its packet.
LEMMA FinishedLine ==
  ASSUME Types, NEW t \in Shards, Finished(t)
  PROVE  LET p == hand[t]
         IN  /\ worker[t] \in Busy /\ worker' = [worker EXCEPT ![t] = "finishing"]
             /\ p \in PacketTask /\ p.dev \in Instruments
             /\ Leaves(t) /\ Len(Line(t)) > 0 /\ Line(t)[1] = p
             /\ processed' = [processed EXCEPT ![p.dev] = Append(processed[p.dev], p)]
             /\ UNCHANGED <<accepted, late, hand>>
<1> DEFINE p == hand[t]
<1>1. /\ worker[t] \in Busy /\ worker' = [worker EXCEPT ![t] = "finishing"]
      /\ UNCHANGED <<queue, hand>>
      /\ processed' = [processed EXCEPT ![p.dev] = Append(processed[p.dev], p)]
      /\ UNCHANGED <<accepted, late>>
  BY DEF Finished, Flush, Raises, ColumnMissing, Processed, Busy
<1>2. p \in PacketTask /\ p \in Item /\ p.dev \in Instruments
  BY <1>1, HandType
<1>3. queue[t] \in Seq(Item) /\ worker \in [Shards -> Busy \cup {"getting", "finishing", "exited"}]
  BY DEF Types, QueuesOK, WorkersOK
<1>4. Line(t) = <<p>> \o queue[t]
  BY <1>1 DEF Line
<1>5. Len(queue[t]) \in Nat
  BY <1>3
<1>6. Len(Line(t)) > 0 /\ Line(t)[1] = p /\ Tail(Line(t)) = queue[t]
  BY <1>2, <1>3, <1>4, <1>5, InFront
<1>7. Line(t)' = queue[t]
  BY <1>1, <1>3 DEF Line, Busy
<1>8. \A s \in Shards : s # t => Line(s)' = Line(s)
  BY <1>1, <1>3 DEF Line
<1>9. Leaves(t)
  BY <1>6, <1>7, <1>8 DEF Leaves
<1>10. QED
  BY <1>1, <1>2, <1>6, <1>9

\* Nothing else changes a line.
LEMMA StillLine ==
  ASSUME Types, [Next]_vars,
         ~ \E h \in Handlers : Put(h),
         ~ \E s \in Shards : Get(s) \/ Finished(s),
         ~ PutMarker
  PROVE  Still /\ UNCHANGED <<accepted, processed, late>>
<1>0. worker \in [Shards -> Busy \cup {"getting", "finishing", "exited"}]
  BY DEF Types, WorkersOK
<1>1. ASSUME NEW t \in Shards, Storing(t) PROVE Still
  <2>1. /\ worker[t] \in Busy /\ UNCHANGED <<queue, hand>>
        /\ worker' = worker \/ worker' = [worker EXCEPT ![t] = "opening"]
           \/ worker' = [worker EXCEPT ![t] = "appending"]
    BY <1>1 DEF Storing, Parse, Open, WriteColumn, Busy
  <2>2. QED
    BY <1>0, <2>1 DEF Still, Line, Busy
<1>2. ASSUME NEW t \in Shards, TaskDone(t) PROVE Still
  <2>1. /\ worker[t] = "finishing" /\ queue' = queue
        /\ hand' = [hand EXCEPT ![t] = None]
        /\ worker' = [worker EXCEPT ![t] = worker'[t]] /\ worker'[t] \in {"exited", "getting"}
    BY <1>0, <1>2 DEF TaskDone
  <2>2. hand \in [Shards -> Item]
    BY DEF Types, WorkersOK
  <2>3. ASSUME NEW s \in Shards PROVE Line(s)' = Line(s)
    <3>1. CASE s = t
      BY <1>0, <2>1, <3>1 DEF Line, Busy
    <3>2. CASE s # t
      BY <1>0, <2>1, <2>2, <3>2 DEF Line
    <3>3. QED
      BY <3>1, <3>2
  <2>4. QED
    BY <2>3 DEF Still
<1>3. ASSUME UNCHANGED <<worker, hand, queue>> PROVE Still
  <2>1. ASSUME NEW s \in Shards PROVE Line(s)' = Line(s)
    BY <1>3 DEF Line
  <2>2. QED
    BY <2>1 DEF Still
<1>4. Still
  BY <1>1, <1>2, <1>3, NextSteps, HandlingFrame, ClosingFrame DEF Working, vars, workerVars
<1>5. UNCHANGED <<accepted, processed, late>>
  <2>1. CASE \E h \in Handlers : Handling(h)
    BY <2>1, HandlingFrame
  <2>2. CASE \E s \in Shards : Working(s)
    BY <2>2, WorkingFrame
  <2>3. CASE Closing
    BY <2>3, ClosingFrame
  <2>4. CASE UNCHANGED vars
    BY <2>4 DEF vars, history
  <2>5. QED
    BY <2>1, <2>2, <2>3, <2>4, NextSteps
<1>6. QED
  BY <1>4, <1>5
-----------------------------------------------------------------------------
(* Packets are processed in the order of acceptance. *)

\* A packet waits at the shard of its instrument.
Lives(s, line) == \A k \in 1 .. Len(line) : line[k] \in PacketTask => ShardOf(line[k]) = s
AtHome == \A s \in Shards : Lives(s, Line(s))

\* A prefix of what was accepted has been processed, and the rest waits, in the
\* order of acceptance.
InOrder(i) ==
  /\ Len(processed[i]) <= Len(accepted[i])
  /\ \A a \in 1 .. Len(processed[i]) : processed[i][a] = accepted[i][a]
  /\ \A a \in 1 .. Len(accepted[i]) : accepted[i][a].dev = i
  /\ Waits(Line(Shard(i)), accepted[i], Len(processed[i]), i)
OrderInv == AtHome /\ \A i \in Instruments : InOrder(i)

LEMMA HistoryType ==
  ASSUME Types, NEW i \in Instruments
  PROVE  /\ accepted[i] \in Seq(PacketTask) /\ Len(accepted[i]) \in Nat
         /\ processed[i] \in Seq(PacketTask) /\ Len(processed[i]) \in Nat
         /\ \A a \in 1 .. Len(accepted[i]) : accepted[i][a] \in PacketTask
<1>1. accepted[i] \in Seq(PacketTask) /\ processed[i] \in Seq(PacketTask)
  BY DEF Types, HistoryOK
<1>2. QED
  BY <1>1

LEMMA AtHomeJoins ==
  ASSUME Types, AtHome, NEW t \in Shards, NEW x \in Item, Joins(t, x),
         x \in PacketTask => ShardOf(x) = t
  PROVE  AtHome'
<1>1. ASSUME NEW s \in Shards PROVE Lives(s, Line(s)')
  <2> DEFINE line == Line(s)
  <2>0. line \in Seq(Item)
    BY LineType
  <2>1. line \in Seq(Item) /\ Len(line) \in Nat /\ Lives(s, line)
    BY <2>0 DEF AtHome
  <2> HIDE DEF line
  <2>2. CASE s # t
    <3>1. Line(s)' = line
      BY <2>2 DEF Joins, line
    <3>2. QED
      BY <2>1, <3>1
  <2>3. CASE s = t
    <3>1. Line(s)' = Append(line, x)
      BY <2>3 DEF Joins, line
    <3>2. /\ Len(Append(line, x)) = Len(line) + 1 /\ Append(line, x)[Len(line) + 1] = x
          /\ \A j \in 1 .. Len(line) : Append(line, x)[j] = line[j]
      BY <2>1
    <3>3. \A k \in 1 .. Len(line) + 1 : k \in 1 .. Len(line) \/ k = Len(line) + 1
      BY <2>1
    <3>4. Lives(s, Append(line, x))
      BY <2>1, <2>3, <3>2, <3>3 DEF Lives
    <3>5. QED
      BY <3>1, <3>4
  <2>4. QED
    BY <2>2, <2>3
<1>2. QED
  BY <1>1 DEF AtHome

LEMMA AtHomeLeaves ==
  ASSUME Types, AtHome, NEW t \in Shards, Leaves(t), Len(Line(t)) > 0
  PROVE  AtHome'
<1>1. ASSUME NEW s \in Shards PROVE Lives(s, Line(s)')
  <2> DEFINE line == Line(s)
  <2>0. line \in Seq(Item)
    BY LineType
  <2>1. line \in Seq(Item) /\ Len(line) \in Nat /\ Lives(s, line)
    BY <2>0 DEF AtHome
  <2>2. CASE s # t
    <3>1. Line(s)' = line
      BY <2>2 DEF Leaves
    <3>2. QED
      BY <2>1, <3>1
  <2>3. CASE s = t
    <3>1. Line(s)' = Tail(line)
      BY <2>3 DEF Leaves
    <3>2. line # << >>
      BY <2>3
    <3>3. /\ Len(Tail(line)) = Len(line) - 1
          /\ \A j \in 1 .. Len(Tail(line)) : Tail(line)[j] = line[j + 1]
      BY <2>1, <3>2, HeadTailProperties
    <3>4. \A j \in 1 .. Len(line) - 1 : j + 1 \in 1 .. Len(line)
      BY <2>1
    <3>5. Lives(s, Tail(line))
      BY <2>1, <3>3, <3>4 DEF Lives
    <3>6. QED
      BY <3>1, <3>5
  <2>4. QED
    BY <2>2, <2>3
<1>2. QED
  BY <1>1 DEF AtHome

LEMMA OrderStep == Types /\ OrderInv /\ [Next]_vars => OrderInv'
<1> SUFFICES ASSUME Types, OrderInv, [Next]_vars PROVE OrderInv'
  OBVIOUS
<1>1. ASSUME NEW i \in Instruments
      PROVE  /\ accepted[i] \in Seq(PacketTask) /\ processed[i] \in Seq(PacketTask)
             /\ Len(accepted[i]) \in Nat /\ Len(processed[i]) \in 0 .. Len(accepted[i])
             /\ InOrder(i) /\ Shard(i) \in Shards /\ Line(Shard(i)) \in Seq(Item)
  <2>1. InOrder(i)
    BY DEF OrderInv
  <2>2. Shard(i) \in Shards
    BY ShardType
  <2>3. Line(Shard(i)) \in Seq(Item)
    BY <2>2, LineType
  <2>4. /\ accepted[i] \in Seq(PacketTask) /\ processed[i] \in Seq(PacketTask)
        /\ Len(accepted[i]) \in Nat /\ Len(processed[i]) \in Nat
    BY HistoryType
  <2>5. Len(processed[i]) \in 0 .. Len(accepted[i])
    BY <2>1, <2>4 DEF InOrder
  <2>6. QED
    BY <2>1, <2>2, <2>3, <2>4, <2>5
<1>2. AtHome
  BY DEF OrderInv
<1>3. ASSUME NEW h \in Handlers, Put(h) PROVE OrderInv'
  <2> DEFINE p == pending[h]
             t == Shard(p.dev)
  <2>1. /\ p \in PacketTask /\ p.dev \in Instruments /\ t \in Shards /\ ShardOf(p) = t
        /\ Joins(t, p)
        /\ accepted' = [accepted EXCEPT ![p.dev] = Append(accepted[p.dev], p)]
        /\ processed' = processed
    BY <1>3, PutLine
  <2> HIDE DEF p
  <2>2. p \in Item
    BY <2>1 DEF Item
  <2>3. AtHome'
    BY <1>2, <2>1, <2>2, AtHomeJoins
  <2>4. ASSUME NEW i \in Instruments PROVE InOrder(i)'
    <3>1. CASE i = p.dev
      <4>1. accepted'[i] = Append(accepted[i], p) /\ processed'[i] = processed[i]
        BY <2>1, <3>1 DEF Types, HistoryOK
      <4>2. Line(Shard(i))' = Append(Line(Shard(i)), p)
        BY <2>1, <3>1 DEF Joins
      <4>3. Waits(Line(Shard(i)), accepted[i], Len(processed[i]), i)
        BY <1>1 DEF InOrder
      <4>4. Waits(Append(Line(Shard(i)), p), Append(accepted[i], p), Len(processed[i]), i)
        BY <1>1, <2>1, <4>3, OwnJoins
      <4>5. /\ Len(accepted'[i]) = Len(accepted[i]) + 1
            /\ accepted'[i][Len(accepted[i]) + 1] = p
            /\ \A a \in 1 .. Len(accepted[i]) : accepted'[i][a] = accepted[i][a]
        BY <1>1, <2>1, <4>1
      <4>6. ASSUME NEW a \in 1 .. Len(accepted'[i]) PROVE accepted'[i][a].dev = i
        <5>1. CASE a = Len(accepted[i]) + 1
          BY <3>1, <4>5, <5>1
        <5>2. CASE a # Len(accepted[i]) + 1
          <6>1. a \in 1 .. Len(accepted[i])
            BY <1>1, <4>5, <5>2
          <6>2. QED
            BY <1>1, <4>5, <6>1 DEF InOrder
        <5>3. QED
          BY <5>1, <5>2
      <4>7. \A a \in 1 .. Len(processed[i]) : processed[i][a] = accepted'[i][a]
        BY <1>1, <4>5 DEF InOrder
      <4>8. Len(processed[i]) <= Len(accepted'[i])
        BY <1>1, <4>5
      <4>9. QED
        BY <4>1, <4>2, <4>4, <4>6, <4>7, <4>8 DEF InOrder, Shard
    <3>2. CASE i # p.dev
      <4>1. accepted'[i] = accepted[i] /\ processed'[i] = processed[i]
        BY <2>1, <3>2 DEF Types, HistoryOK
      <4>2. Waits(Line(Shard(i)), accepted[i], Len(processed[i]), i)
        BY <1>1 DEF InOrder
      <4>3. ~ Of(i, p)
        BY <3>2 DEF Of
      <4>4. Waits(Append(Line(Shard(i)), p), accepted[i], Len(processed[i]), i)
        BY <1>1, <2>2, <4>2, <4>3, OtherJoins
      <4>5. Line(Shard(i))' = Line(Shard(i)) \/ Line(Shard(i))' = Append(Line(Shard(i)), p)
        BY <1>1, <2>1 DEF Joins
      <4>6. QED
        BY <1>1, <4>1, <4>2, <4>4, <4>5 DEF InOrder, Shard
    <3>3. QED
      BY <3>1, <3>2
  <2>5. QED
    BY <2>3, <2>4 DEF OrderInv
<1>4. CASE PutMarker
  <2>1. /\ at \in Shards /\ None \in Item /\ Joins(at, None) /\ None \notin PacketTask
        /\ UNCHANGED <<accepted, processed>>
    BY <1>4, MarkerLine, ClosingFrame, ConstantsAssumption DEF Closing
  <2>2. AtHome'
    BY <1>2, <2>1, AtHomeJoins
  <2>3. ASSUME NEW i \in Instruments PROVE InOrder(i)'
    <3>1. Waits(Line(Shard(i)), accepted[i], Len(processed[i]), i)
      BY <1>1 DEF InOrder
    <3>2. ~ Of(i, None)
      BY <2>1 DEF Of
    <3>3. Waits(Append(Line(Shard(i)), None), accepted[i], Len(processed[i]), i)
      BY <1>1, <2>1, <3>1, <3>2, OtherJoins
    <3>4. Line(Shard(i))' = Line(Shard(i)) \/ Line(Shard(i))' = Append(Line(Shard(i)), None)
      BY <1>1, <2>1 DEF Joins
    <3>5. QED
      BY <1>1, <2>1, <3>1, <3>3, <3>4 DEF InOrder, Shard
  <2>4. QED
    BY <2>2, <2>3 DEF OrderInv
<1>5. CASE Still /\ UNCHANGED <<accepted, processed>>
  <2>1. AtHome'
    BY <1>2, <1>5 DEF AtHome, Still
  <2>2. ASSUME NEW i \in Instruments PROVE InOrder(i)'
    <3>1. Line(Shard(i))' = Line(Shard(i))
      BY <1>1, <1>5 DEF Still
    <3>2. QED
      BY <1>1, <1>5, <3>1 DEF InOrder, Shard
  <2>3. QED
    BY <2>1, <2>2 DEF OrderInv
<1>6. ASSUME NEW t \in Shards, Get(t) PROVE OrderInv'
  <2>1. UNCHANGED <<accepted, processed>>
    BY <1>6 DEF Get, history
  <2>2. CASE Still
    BY <1>5, <2>1, <2>2
  <2>3. CASE Leaves(t) /\ Len(Line(t)) > 0 /\ Line(t)[1] = None
    <3>1. AtHome'
      BY <1>2, <2>3, AtHomeLeaves
    <3>2. ASSUME NEW i \in Instruments PROVE InOrder(i)'
      <4>1. Waits(Line(Shard(i)), accepted[i], Len(processed[i]), i)
        BY <1>1 DEF InOrder
      <4>2. CASE Shard(i) = t
        <5>1. ~ Of(i, Line(Shard(i))[1]) /\ \A a \in 1 .. Len(accepted[i]) : accepted[i][a].dev = i
          BY <1>1, <2>3, <4>2, ConstantsAssumption DEF Of, InOrder
        <5>2. Waits(Tail(Line(Shard(i))), accepted[i], Len(processed[i]), i)
          BY <1>1, <2>3, <4>1, <4>2, <5>1, OtherLeaves
        <5>3. Line(Shard(i))' = Tail(Line(Shard(i)))
          BY <2>3, <4>2 DEF Leaves
        <5>4. QED
          BY <1>1, <2>1, <5>2, <5>3 DEF InOrder, Shard
      <4>3. CASE Shard(i) # t
        <5>1. Line(Shard(i))' = Line(Shard(i))
          BY <1>1, <2>3, <4>3 DEF Leaves
        <5>2. QED
          BY <1>1, <2>1, <5>1 DEF InOrder, Shard
      <4>4. QED
        BY <4>2, <4>3
    <3>3. QED
      BY <3>1, <3>2 DEF OrderInv
  <2>4. QED
    BY <1>6, <2>2, <2>3, GetLine
<1>7. ASSUME NEW t \in Shards, Finished(t) PROVE OrderInv'
  <2> DEFINE p == hand[t]
  <2>1. /\ p \in PacketTask /\ p.dev \in Instruments
        /\ Leaves(t) /\ Len(Line(t)) > 0 /\ Line(t)[1] = p
        /\ processed' = [processed EXCEPT ![p.dev] = Append(processed[p.dev], p)]
        /\ accepted' = accepted
    BY <1>7, FinishedLine
  <2> HIDE DEF p
  <2>2. AtHome'
    BY <1>2, <2>1, AtHomeLeaves
  <2>3. Shard(p.dev) = t
    <3>1. 1 \in 1 .. Len(Line(t))
      BY <2>1, LineType
    <3>2. ShardOf(p) = t
      BY <1>2, <2>1, <3>1 DEF AtHome, Lives
    <3>3. QED
      BY <3>2, ShardType
  <2>4. ASSUME NEW i \in Instruments PROVE InOrder(i)'
    <3>1. Waits(Line(Shard(i)), accepted[i], Len(processed[i]), i)
      BY <1>1 DEF InOrder
    <3>2. CASE i = p.dev
      <4>1. Of(i, Line(Shard(i))[1])
        BY <2>1, <2>3, <3>2 DEF Of
      <4>2. /\ Len(processed[i]) < Len(accepted[i]) /\ accepted[i][Len(processed[i]) + 1] = p
            /\ Waits(Tail(Line(Shard(i))), accepted[i], Len(processed[i]) + 1, i)
        BY <1>1, <2>1, <2>3, <3>1, <3>2, <4>1, OwnLeaves
      <4>3. Line(Shard(i))' = Tail(Line(Shard(i)))
        BY <1>1, <2>1, <2>3, <3>2 DEF Leaves
      <4>4. processed'[i] = Append(processed[i], p) /\ accepted'[i] = accepted[i]
        BY <2>1, <3>2 DEF Types, HistoryOK
      <4>5. /\ Len(processed'[i]) = Len(processed[i]) + 1
            /\ processed'[i][Len(processed[i]) + 1] = p
            /\ \A a \in 1 .. Len(processed[i]) : processed'[i][a] = processed[i][a]
        BY <1>1, <2>1, <4>4
      <4>6. \A a \in 1 .. Len(processed'[i]) : processed'[i][a] = accepted[i][a]
        BY <1>1, <4>2, <4>5 DEF InOrder
      <4>7. Len(processed'[i]) <= Len(accepted[i])
        BY <1>1, <4>2, <4>5
      <4>8. QED
        BY <1>1, <4>2, <4>3, <4>4, <4>5, <4>6, <4>7 DEF InOrder, Shard
    <3>3. CASE i # p.dev
      <4>1. accepted'[i] = accepted[i] /\ processed'[i] = processed[i]
        BY <2>1, <3>3 DEF Types, HistoryOK
      <4>2. CASE Shard(i) = t
        <5>1. ~ Of(i, Line(Shard(i))[1]) /\ \A a \in 1 .. Len(accepted[i]) : accepted[i][a].dev = i
          BY <1>1, <2>1, <3>3, <4>2 DEF Of, InOrder
        <5>2. Waits(Tail(Line(Shard(i))), accepted[i], Len(processed[i]), i)
          BY <1>1, <2>1, <3>1, <4>2, <5>1, OtherLeaves
        <5>3. Line(Shard(i))' = Tail(Line(Shard(i)))
          BY <1>1, <2>1, <4>2 DEF Leaves
        <5>4. QED
          BY <1>1, <4>1, <5>2, <5>3 DEF InOrder, Shard
      <4>3. CASE Shard(i) # t
        <5>1. Line(Shard(i))' = Line(Shard(i))
          BY <1>1, <2>1, <4>3 DEF Leaves
        <5>2. QED
          BY <1>1, <4>1, <5>1 DEF InOrder, Shard
      <4>4. QED
        BY <4>2, <4>3
    <3>4. QED
      BY <3>2, <3>3
  <2>5. QED
    BY <2>2, <2>4 DEF OrderInv
<1>8. QED
  BY <1>3, <1>4, <1>5, <1>6, <1>7, StillLine

LEMMA OrderInit == Init => OrderInv
<1> SUFFICES ASSUME Init PROVE OrderInv
  OBVIOUS
<1>1. \A s \in Shards : Line(s) = << >>
  BY DEF Init, Line, Busy
<1>2. AtHome
  BY <1>1 DEF AtHome, Lives
<1>3. ASSUME NEW i \in Instruments PROVE InOrder(i)
  <2>1. accepted[i] = << >> /\ processed[i] = << >> /\ Line(Shard(i)) = << >>
    BY <1>1, ShardType DEF Init
  <2> DEFINE m == [a \in 1 .. 0 |-> 0]
  <2>2. 0 + 1 .. Len(<< >>) = 1 .. 0 /\ 1 .. Len(<< >>) = 1 .. 0 /\ 1 .. 0 = {}
    OBVIOUS
  <2>3. m \in [1 .. 0 -> 1 .. 0]
    BY <2>2
  <2>4. Finds(m, << >>, << >>, 0, i)
    BY <2>2 DEF Finds
  <2>5. Waits(<< >>, << >>, 0, i)
    BY <2>2, <2>3, <2>4 DEF Waits
  <2>6. QED
    BY <2>1, <2>2, <2>5 DEF InOrder
<1>4. QED
  BY <1>2, <1>3 DEF OrderInv

\* Whatever fails, an instrument's packets are processed in the order submit()
\* accepted them: what waits is the rest of what was accepted, in its order.
THEOREM OrderCorrect == Spec => []OrderInv
BY OrderInit, OrderStep, TypesCorrect, PTL DEF Spec

-----------------------------------------------------------------------------
(* Each connection's packets keep their order. *)

\* A connection numbers its packets, and puts one before it cuts off the next.
Numbered(log) ==
  \A a \in 1 .. Len(log) :
    LET p == log[a]
    IN  /\ p.no <= received[p.conn]
        /\ pc[p.conn] \in {"submitting", "putting"} => p.no < received[p.conn]
        /\ \A b \in 1 .. Len(log) : a < b /\ log[b].conn = p.conn => p.no < log[b].no
NumberInv == \A i \in Instruments : Numbered(accepted[i])

LEMMA TaskType ==
  ASSUME NEW p \in PacketTask
  PROVE  p.conn \in Handlers /\ p.no \in Nat /\ p.dev \in Instruments
<1>1. PICK h \in Handlers : p.no \in 1 .. MaxPackets[h]
  BY DEF PacketTask
<1>2. MaxPackets[h] \in Nat
  BY ConstantsAssumption
<1>3. p.no \in Nat
  BY <1>1, <1>2
<1>4. QED
  BY <1>3 DEF PacketTask

\* Connections count up, and one that has a packet in hand has counted it.
LEMMA CountsUp ==
  ASSUME Types, [Next]_vars, NEW h \in Handlers
  PROVE  /\ received[h] \in Nat /\ received'[h] \in Nat /\ received[h] <= received'[h]
         /\ pc'[h] \in {"submitting", "putting"} =>
              \/ received[h] < received'[h]
              \/ pc[h] \in {"submitting", "putting"} /\ received'[h] = received[h]
<1>0. /\ received \in [Handlers -> Nat] /\ pc \in [Handlers -> {"receiving", "submitting", "putting", "ended"}]
  BY DEF Types, HandlersOK
<1>1. ASSUME NEW g \in Handlers, Receive(g)
      PROVE  /\ received' = [received EXCEPT ![g] = received[g] + 1]
             /\ pc' = [pc EXCEPT ![g] = "submitting"]
  BY <1>1 DEF Receive
<1>2. ASSUME NEW g \in Handlers, TestStopping(g) \/ Put(g) \/ PutTimesOut(g)
      PROVE  /\ received' = received
             /\ \E y : pc' = [pc EXCEPT ![g] = y]
             /\ pc[g] \in {"submitting", "putting"}
  BY <1>2 DEF TestStopping, Put, PutTimesOut
<1>3. CASE \E g \in Handlers : Receive(g)
  BY <1>0, <1>1, <1>3
<1>4. CASE \E g \in Handlers : TestStopping(g) \/ Put(g) \/ PutTimesOut(g)
  BY <1>0, <1>2, <1>4
<1>5. CASE UNCHANGED <<pc, received>>
  BY <1>0, <1>5
<1>6. QED
  BY <1>3, <1>4, <1>5, NextSteps, WorkingFrame, ClosingFrame DEF Handling, vars, handlerVars

\* ... so that a log that does not grow stays numbered.
LEMMA StaysNumbered ==
  ASSUME Types, [Next]_vars, NEW log \in Seq(PacketTask), Numbered(log)
  PROVE  Numbered(log)'
<1>1. ASSUME NEW a \in 1 .. Len(log)
      PROVE  /\ log[a].no <= received'[log[a].conn]
             /\ pc'[log[a].conn] \in {"submitting", "putting"} => log[a].no < received'[log[a].conn]
             /\ \A b \in 1 .. Len(log) : a < b /\ log[b].conn = log[a].conn => log[a].no < log[b].no
  <2> DEFINE p == log[a]
             h == p.conn
  <2>1. p \in PacketTask
    OBVIOUS
  <2>2. h \in Handlers /\ p.no \in Nat
    BY <2>1, TaskType
  <2>3. /\ p.no <= received[h]
        /\ pc[h] \in {"submitting", "putting"} => p.no < received[h]
        /\ \A b \in 1 .. Len(log) : a < b /\ log[b].conn = p.conn => p.no < log[b].no
    BY DEF Numbered
  <2> HIDE DEF p, h
  <2>4. /\ received[h] \in Nat /\ received'[h] \in Nat /\ received[h] <= received'[h]
        /\ pc'[h] \in {"submitting", "putting"} =>
             \/ received[h] < received'[h]
             \/ pc[h] \in {"submitting", "putting"} /\ received'[h] = received[h]
    BY <2>2, CountsUp
  <2>5. p.no <= received'[h] /\ (pc'[h] \in {"submitting", "putting"} => p.no < received'[h])
    BY <2>2, <2>3, <2>4
  <2>6. QED
    BY <2>3, <2>5 DEF p, h
<1>2. QED
  BY <1>1 DEF Numbered

\* The packet in hand is the connection's latest.
LEMMA NumberStep == Types /\ NumberInv /\ [Next]_vars => NumberInv'
<1> SUFFICES ASSUME Types, NumberInv, [Next]_vars, NEW i \in Instruments
             PROVE  Numbered(accepted[i])'
  BY DEF NumberInv
<1>0. accepted[i] \in Seq(PacketTask) /\ Len(accepted[i]) \in Nat /\ Numbered(accepted[i])
  BY HistoryType DEF NumberInv
<1> DEFINE log == accepted[i]
<1>1. CASE accepted'[i] = accepted[i]
  BY <1>0, <1>1, StaysNumbered DEF Numbered
<1>2. ASSUME NEW h \in Handlers, Put(h), accepted'[i] # accepted[i] PROVE Numbered(accepted[i])'
  <2> DEFINE p == pending[h]
             longer == Append(log, p)
  <2>1. /\ p \in PacketTask /\ p.conn = h /\ p.no = received[h]
        /\ accepted' = [accepted EXCEPT ![p.dev] = Append(accepted[p.dev], p)]
        /\ received' = received /\ pc[h] = "putting" /\ pc' = [pc EXCEPT ![h] = "receiving"]
    BY <1>2, PutLine
  <2> HIDE DEF p
  <2>2. accepted'[i] = longer
    BY <1>2, <2>1 DEF Types, HistoryOK
  <2>3. /\ Len(longer) = Len(log) + 1 /\ longer[Len(log) + 1] = p
        /\ \A a \in 1 .. Len(log) : longer[a] = log[a] /\ log[a] \in PacketTask
        /\ \A a \in 1 .. Len(longer) : a \in 1 .. Len(log) \/ a = Len(log) + 1
    BY <1>0, <2>1
  <2> HIDE DEF longer
  <2>4. pc'[h] = "receiving" /\ received[h] \in Nat
    BY <2>1 DEF Types, HandlersOK
  <2>5. ASSUME NEW a \in 1 .. Len(log)
        PROVE  /\ log[a].no <= received'[log[a].conn]
               /\ pc'[log[a].conn] \in {"submitting", "putting"} => log[a].no < received'[log[a].conn]
    <3>1. log[a].conn \in Handlers
      BY <2>3, TaskType
    <3>2. pc'[log[a].conn] \in {"submitting", "putting"} => pc'[log[a].conn] = pc[log[a].conn]
      BY <2>1, <2>4, <3>1 DEF Types, HandlersOK
    <3>3. QED
      BY <1>0, <2>1, <3>2 DEF Numbered
  <2>6. ASSUME NEW a \in 1 .. Len(log), NEW b \in 1 .. Len(longer), a < b,
               longer[b].conn = log[a].conn
        PROVE  log[a].no < longer[b].no
    <3>1. CASE b = Len(log) + 1
      BY <1>0, <2>1, <2>3, <2>6, <3>1 DEF Numbered
    <3>2. CASE b \in 1 .. Len(log)
      BY <1>0, <2>3, <2>6, <3>2 DEF Numbered
    <3>3. QED
      BY <2>3, <3>1, <3>2
  <2>7. ASSUME NEW a \in 1 .. Len(longer)
        PROVE  /\ longer[a].no <= received'[longer[a].conn]
               /\ pc'[longer[a].conn] \in {"submitting", "putting"} => longer[a].no < received'[longer[a].conn]
               /\ \A b \in 1 .. Len(longer) : a < b /\ longer[b].conn = longer[a].conn => longer[a].no < longer[b].no
    <3>1. CASE a \in 1 .. Len(log)
      BY <2>3, <2>5, <2>6, <3>1
    <3>2. CASE a = Len(log) + 1
      <4>1. longer[a] = p
        BY <2>3, <3>2
      <4>2. p.no <= received'[p.conn] /\ pc'[p.conn] \notin {"submitting", "putting"}
        BY <2>1, <2>4
      <4>3. \A b \in 1 .. Len(longer) : ~ (a < b)
        BY <1>0, <2>3, <3>2
      <4>4. QED
        BY <4>1, <4>2, <4>3
    <3>3. QED
      BY <2>3, <3>1, <3>2
  <2>8. QED
    BY <2>2, <2>7 DEF Numbered
<1>3. accepted'[i] = accepted[i] \/ \E h \in Handlers : Put(h)
  <2>1. CASE \E h \in Handlers : Handling(h)
    BY <2>1, HandlingFrame
  <2>2. CASE \E s \in Shards : Working(s)
    BY <2>2, WorkingFrame
  <2>3. CASE Closing
    BY <2>3, ClosingFrame
  <2>4. CASE UNCHANGED vars
    BY <2>4 DEF vars, history
  <2>5. QED
    BY <2>1, <2>2, <2>3, <2>4, NextSteps
<1>4. QED
  BY <1>1, <1>2, <1>3

LEMMA NumberInit == Init => NumberInv
<1>1. Init => \A i \in Instruments : accepted[i] = << >>
  BY DEF Init
<1>2. QED
  BY <1>1 DEF NumberInv, Numbered

\* Each accepted packet has a number of its own: of an instrument, a connection's
\* packets are accepted in the order it received them, none twice.
THEOREM NumberCorrect == Spec => []NumberInv
BY NumberInit, NumberStep, TypesCorrect, PTL DEF Spec

\* No packet is accepted twice.
LEMMA AcceptedOnce ==
  ASSUME Types, NumberInv, NEW i \in Instruments,
         NEW a \in 1 .. Len(accepted[i]), NEW b \in 1 .. Len(accepted[i]),
         accepted[i][a] = accepted[i][b]
  PROVE  a = b
<1>1. ASSUME NEW x \in 1 .. Len(accepted[i]), NEW y \in 1 .. Len(accepted[i]), x < y
      PROVE  accepted[i][x] # accepted[i][y]
  <2>1. accepted[i][x] \in PacketTask /\ accepted[i][y] \in PacketTask
    BY HistoryType
  <2>2. accepted[i][x].no \in Nat
    BY <2>1, TaskType
  <2>3. accepted[i][x].conn = accepted[i][y].conn => accepted[i][x].no < accepted[i][y].no
    BY <1>1 DEF NumberInv, Numbered
  <2>4. QED
    BY <2>2, <2>3
<1>2. QED
  BY <1>1
-----------------------------------------------------------------------------
(* Shutdown. *)

\* After the stop a connection gets in only the packet it was putting.
LateInv ==
  /\ closer = "serving" => ~stopping /\ at = 0
  /\ closer \in {"draining", "marking", "exited"} => stopping
  /\ late # {} => stopping
  /\ \A q \in late : pc[q.conn] # "putting"

LEMMA StoppingStep ==
  Types /\ [Next]_vars =>
    \/ CloseBegin
    \/ JoinWorkers
    \/ Killed
    \/ /\ stopping' = stopping
       /\ closer' = "serving" => closer = "serving" /\ at' = at
       /\ closer' \in {"exited", "killed"} => closer' = closer
       /\ closer' \in {"draining", "marking"} => closer \in {"draining", "marking"}
<1> SUFFICES ASSUME Types, [Next]_vars, ~ CloseBegin, ~ JoinWorkers, ~ Killed
             PROVE  /\ stopping' = stopping
                    /\ closer' = "serving" => closer = "serving" /\ at' = at
                    /\ closer' \in {"exited", "killed"} => closer' = closer
                    /\ closer' \in {"draining", "marking"} => closer \in {"draining", "marking"}
  OBVIOUS
<1>1. CASE DrainEnds
  BY <1>1 DEF DrainEnds
<1>2. CASE DeadlinePasses \/ DrainShard \/ PutMarker \/ GiveUpMarker
  BY <1>2 DEF DeadlinePasses, DrainShard, PutMarker, GiveUpMarker
<1>3. CASE UNCHANGED <<stopping, closer, at>>
  BY <1>3
<1>4. QED
  BY <1>1, <1>2, <1>3, NextSteps, HandlingFrame, WorkingFrame DEF Closing, vars, closeVars

\* A put after the stop ends the connection's chances: it must look at the stop
\* event before the next one.
LEMMA LateStep == Types /\ LateInv /\ [Next]_vars => LateInv'
<1> SUFFICES ASSUME Types, LateInv, [Next]_vars PROVE LateInv'
  OBVIOUS
<1>1. /\ closer' = "serving" => ~stopping' /\ at' = 0
      /\ closer' \in {"draining", "marking", "exited"} => stopping'
      /\ stopping => stopping'
  <2>1. CASE CloseBegin \/ JoinWorkers \/ Killed
    BY <2>1 DEF CloseBegin, JoinWorkers, Killed, LateInv
  <2>2. QED
    BY <2>1, StoppingStep DEF LateInv
<1>2. /\ late' # {} => stopping'
      /\ \A q \in late' : pc'[q.conn] # "putting"
  <2>1. ASSUME NEW h \in Handlers, Put(h)
        PROVE  /\ late' # {} => stopping'
               /\ \A q \in late' : pc'[q.conn] # "putting"
    <3> DEFINE p == pending[h]
    <3>1. /\ p.conn = h /\ late' = (IF stopping THEN late \cup {p} ELSE late)
          /\ stopping' = stopping /\ pc' = [pc EXCEPT ![h] = "receiving"]
      BY <2>1, PutLine
    <3> HIDE DEF p
    <3>2. late' # {} => stopping'
      BY <3>1 DEF LateInv
    <3>3. ASSUME NEW q \in late' PROVE pc'[q.conn] # "putting"
      <4>1. \A g \in Handlers : pc'[g] = IF g = h THEN "receiving" ELSE pc[g]
        BY <3>1 DEF Types, HandlersOK
      <4>2. q \in late \/ q = p
        BY <3>1
      <4>3. CASE q = p
        BY <3>1, <4>1, <4>3
      <4>4. CASE q \in late
        <5>1. q.conn \in Handlers /\ pc[q.conn] # "putting"
          BY <4>4, TaskType DEF Types, HistoryOK, LateInv
        <5>2. QED
          BY <4>1, <5>1
      <4>5. QED
        BY <4>2, <4>3, <4>4
    <3>4. QED
      BY <3>2, <3>3
  <2>2. ASSUME NEW h \in Handlers, TestStopping(h)
        PROVE  \A q \in late : pc'[q.conn] # "putting"
    <3>1. /\ stopping => pc' = [pc EXCEPT ![h] = "ended"]
          /\ pc \in [Handlers -> {"receiving", "submitting", "putting", "ended"}]
      BY <2>2 DEF TestStopping, Types, HandlersOK
    <3>2. ASSUME NEW q \in late PROVE pc'[q.conn] # "putting"
      <4>1. q.conn \in Handlers /\ pc[q.conn] # "putting" /\ stopping
        BY TaskType DEF Types, HistoryOK, LateInv
      <4>2. QED
        BY <3>1, <4>1
    <3>3. QED
      BY <3>2
  <2>3. ASSUME NEW h \in Handlers, Receive(h) \/ PutTimesOut(h)
        PROVE  \A q \in late : pc'[q.conn] # "putting"
    <3>1. /\ pc' = [pc EXCEPT ![h] = "submitting"]
          /\ pc \in [Handlers -> {"receiving", "submitting", "putting", "ended"}]
      BY <2>3 DEF Receive, PutTimesOut, Types, HandlersOK
    <3>2. ASSUME NEW q \in late PROVE pc'[q.conn] # "putting"
      <4>1. q.conn \in Handlers /\ pc[q.conn] # "putting"
        BY TaskType DEF Types, HistoryOK, LateInv
      <4>2. QED
        BY <3>1, <4>1
    <3>3. QED
      BY <3>2
  <2>4. ASSUME pc' = pc PROVE \A q \in late : pc'[q.conn] # "putting"
    BY <2>4 DEF LateInv
  <2>5. late' = late \/ \E h \in Handlers : Put(h)
    BY NextSteps, HandlingFrame, WorkingFrame, ClosingFrame DEF vars, history
  <2>6. QED
    BY <1>1, <2>1, <2>2, <2>3, <2>4, <2>5, NextSteps, WorkingFrame, ClosingFrame
    DEF Handling, LateInv, vars, handlerVars
<1>3. QED
  BY <1>1, <1>2 DEF LateInv

\* A connection gets at most the packet in its hand in once the receiver stops.
THEOREM LateCorrect == Spec => []LateInv
<1>1. Init => LateInv
  BY DEF Init, LateInv
<1>2. QED
  BY <1>1, LateStep, TypesCorrect, PTL DEF Spec

\* What close() has waited for, unless it ran out of time.
OnlyLate(i) == \A a \in Len(processed[i]) + 1 .. Len(accepted[i]) : accepted[i][a] \in late
Drained(i) ==
  \/ closer = "draining" /\ Shard(i) < at
  \/ closer \in {"marking", "exited"}
DrainInv == ~expired => \A i \in Instruments : Drained(i) => OnlyLate(i)

\* A queue without unfinished tasks is empty, and nothing waits.
LEMMA EmptyShard ==
  ASSUME Types, Counts, OrderInv, NEW i \in Instruments, unfinished[Shard(i)] = 0
  PROVE  Len(processed[i]) + 1 .. Len(accepted[i]) = {}
<1> DEFINE s == Shard(i)
<1>1. s \in Shards
  BY ShardType
<1>2. /\ Line(s) \in Seq(Item) /\ Len(queue[s]) \in Nat
      /\ Len(Line(s)) = Len(queue[s]) + (IF worker[s] \in Busy THEN 1 ELSE 0)
  BY <1>1, LineType
<1>3. unfinished[s] = Len(queue[s]) + InWork(s)
  BY <1>1 DEF Counts
<1>4. Len(Line(s)) = 0
  <2>1. InWork(s) \in {0, 1} /\ (worker[s] \in Busy => InWork(s) = 1)
    BY DEF InWork
  <2>2. worker[s] \notin Busy /\ Len(queue[s]) = 0
    BY <1>2, <1>3, <2>1
  <2>3. QED
    BY <1>2, <2>2
<1>5. Waits(Line(s), accepted[i], Len(processed[i]), i)
  BY DEF OrderInv, InOrder
<1>6. accepted[i] \in Seq(PacketTask) /\ Len(processed[i]) \in Nat
  BY HistoryType
<1> HIDE DEF s
<1>7. QED
  BY <1>2, <1>4, <1>5, <1>6, NothingWaits

\* What was accepted before the stop does not grow after it.
LEMMA OnlyLateStays ==
  ASSUME Types, OrderInv, LateInv, [Next]_vars, stopping, NEW i \in Instruments, OnlyLate(i)
  PROVE  OnlyLate(i)'
<1>0. /\ Len(accepted[i]) \in Nat /\ Len(processed[i]) \in Nat /\ accepted[i] \in Seq(PacketTask)
      /\ processed[i] \in Seq(PacketTask)
  BY HistoryType
<1>1. ASSUME NEW h \in Handlers, Put(h) PROVE OnlyLate(i)'
  <2> DEFINE p == pending[h]
  <2>1. /\ p \in PacketTask /\ accepted' = [accepted EXCEPT ![p.dev] = Append(accepted[p.dev], p)]
        /\ late' = late \cup {p} /\ processed' = processed
    BY <1>1, PutLine
  <2> HIDE DEF p
  <2>2. CASE accepted'[i] = accepted[i]
    BY <2>1, <2>2 DEF OnlyLate
  <2>3. CASE accepted'[i] = Append(accepted[i], p)
    <3>1. /\ Len(accepted'[i]) = Len(accepted[i]) + 1
          /\ accepted'[i][Len(accepted[i]) + 1] = p
          /\ \A a \in 1 .. Len(accepted[i]) : accepted'[i][a] = accepted[i][a]
      BY <1>0, <2>1, <2>3
    <3>2. ASSUME NEW a \in Len(processed[i]) + 1 .. Len(accepted'[i]) PROVE accepted'[i][a] \in late'
      <4>1. CASE a = Len(accepted[i]) + 1
        BY <2>1, <3>1, <4>1
      <4>2. CASE a # Len(accepted[i]) + 1
        <5>1. a \in Len(processed[i]) + 1 .. Len(accepted[i]) /\ a \in 1 .. Len(accepted[i])
          BY <1>0, <3>1, <4>2
        <5>2. QED
          BY <2>1, <3>1, <5>1 DEF OnlyLate
      <4>3. QED
        BY <4>1, <4>2
    <3>3. QED
      BY <2>1, <3>2 DEF OnlyLate
  <2>4. QED
    BY <2>1, <2>2, <2>3 DEF Types, HistoryOK
<1>2. ASSUME NEW s \in Shards, Finished(s) PROVE OnlyLate(i)'
  <2> DEFINE p == hand[s]
  <2>1. /\ p \in PacketTask /\ processed' = [processed EXCEPT ![p.dev] = Append(processed[p.dev], p)]
        /\ UNCHANGED <<accepted, late>>
    BY <1>2, FinishedLine
  <2> HIDE DEF p
  <2>2. processed'[i] = processed[i] \/ processed'[i] = Append(processed[i], p)
    BY <2>1 DEF Types, HistoryOK
  <2>3. Len(processed'[i]) \in Nat /\ Len(processed'[i]) >= Len(processed[i])
    BY <1>0, <2>1, <2>2
  <2>4. \A a \in Len(processed'[i]) + 1 .. Len(accepted[i]) :
          a \in Len(processed[i]) + 1 .. Len(accepted[i])
    BY <1>0, <2>3
  <2>5. QED
    BY <2>1, <2>4 DEF OnlyLate
<1>3. ASSUME UNCHANGED <<accepted, processed, late>> PROVE OnlyLate(i)'
  BY <1>3 DEF OnlyLate
<1>4. QED
  <2>1. CASE \E h \in Handlers : Handling(h)
    BY <1>1, <1>3, <2>1, HandlingFrame
  <2>2. CASE \E s \in Shards : Working(s)
    BY <1>2, <1>3, <2>2, WorkingFrame
  <2>3. CASE Closing
    BY <1>3, <2>3, ClosingFrame
  <2>4. CASE UNCHANGED vars
    BY <1>3, <2>4 DEF vars, history
  <2>5. QED
    BY <2>1, <2>2, <2>3, <2>4, NextSteps

LEMMA DrainStep ==
  Types /\ Counts /\ OrderInv /\ LateInv /\ DrainInv /\ [Next]_vars => DrainInv'
<1> SUFFICES ASSUME Types, Counts, OrderInv, LateInv, DrainInv, [Next]_vars, ~expired',
                    NEW i \in Instruments, Drained(i)'
             PROVE  OnlyLate(i)'
  BY DEF DrainInv
<1>0. /\ closer \in {"serving", "draining", "marking", "exited", "killed"}
      /\ at \in 0 .. WorkerCount /\ WorkerCount \in Nat
      /\ Shard(i) \in Nat /\ Shard(i) < WorkerCount /\ expired \in BOOLEAN
  BY ShardType, WorkerCountPositive DEF Types, CloserOK, Shards
<1>1. CASE Closing
  <2>0. UNCHANGED <<accepted, processed, late>>
    BY <1>1, ClosingFrame
  <2>1. ~expired
    BY <1>1 DEF Closing, CloseBegin, DeadlinePasses, DrainShard, DrainEnds, PutMarker,
                GiveUpMarker, JoinWorkers, Killed
  <2>2. Drained(i) => OnlyLate(i)
    BY <2>1 DEF DrainInv
  <2>3. OnlyLate(i) => OnlyLate(i)'
    BY <2>0 DEF OnlyLate
  <2>4. CASE CloseBegin \/ Killed
    <3>1. Drained(i)' = ((closer' = "draining" /\ Shard(i) < at') \/ closer' \in {"marking", "exited"})
      BY DEF Drained, Shard
    <3>2. CASE Killed
      BY <3>1, <3>2 DEF Killed
    <3>3. CASE CloseBegin
      <4>1. at' = at /\ closer = "serving"
        BY <3>3 DEF CloseBegin
      <4>2. ~ Drained(i)'
        BY <1>0, <3>1, <3>3, <4>1 DEF CloseBegin, LateInv
      <4>3. QED
        BY <4>2
    <3>4. QED
      BY <2>4, <3>2, <3>3
  <2>5. CASE DrainShard
    <3>1. /\ closer = "draining" /\ closer' = closer /\ unfinished[at] = 0 /\ at' = at + 1
      BY <2>1, <2>5 DEF DrainShard
    <3>2. Shard(i) < at + 1
      BY <3>1 DEF Drained, Shard
    <3>3. CASE Shard(i) = at
      <4>1. Len(processed[i]) + 1 .. Len(accepted[i]) = {}
        BY <3>1, <3>3, EmptyShard
      <4>2. OnlyLate(i)
        BY <4>1 DEF OnlyLate
      <4>3. QED
        BY <2>3, <4>2
    <3>4. CASE Shard(i) # at
      <4>1. Shard(i) < at
        BY <1>0, <3>2, <3>4
      <4>2. QED
        BY <2>2, <2>3, <3>1, <4>1 DEF Drained
    <3>5. QED
      BY <3>3, <3>4
  <2>6. CASE DrainEnds
    <3>1. closer = "draining" /\ at = WorkerCount
      BY <2>6 DEF DrainEnds
    <3>2. Drained(i)
      BY <1>0, <3>1 DEF Drained
    <3>3. QED
      BY <2>2, <2>3, <3>2
  <2>7. CASE PutMarker \/ GiveUpMarker \/ JoinWorkers
    <3>1. closer = "marking"
      BY <2>7 DEF PutMarker, GiveUpMarker, JoinWorkers
    <3>2. QED
      BY <2>2, <2>3, <3>1 DEF Drained
  <2>8. CASE DeadlinePasses
    BY <2>8 DEF DeadlinePasses
  <2>9. QED
    BY <1>1, <2>4, <2>5, <2>6, <2>7, <2>8 DEF Closing
<1>2. ASSUME UNCHANGED closeVars PROVE OnlyLate(i)'
  <2>1. Drained(i) /\ ~expired
    BY <1>2 DEF closeVars, Drained, Shard
  <2>2. OnlyLate(i)
    BY <2>1 DEF DrainInv
  <2>3. stopping
    BY <2>1 DEF Drained, LateInv
  <2>4. QED
    BY <2>2, <2>3, OnlyLateStays
<1>3. QED
  BY <1>1, <1>2, NextSteps, HandlingFrame, WorkingFrame DEF vars, closeVars
\* What close() has waited for stays processed, whatever connections put after
\* the stop.
THEOREM DrainCorrect == Spec => []DrainInv
<1>1. Init => DrainInv
  BY DEF Init, DrainInv, Drained
<1>2. QED
  BY <1>1, DrainStep, TypesCorrect, OrderCorrect, LateCorrect, PTL DEF Spec

-----------------------------------------------------------------------------
(* The pipeline implements the packet log. *)

\* Only the first and the last step of close() and a kill change the phase.
LEMMA PhaseFrame ==
  Types /\ [Next]_vars /\ ~CloseBegin /\ ~JoinWorkers /\ ~Killed => Phase' = Phase
<1> SUFFICES ASSUME Types, [Next]_vars, ~CloseBegin, ~JoinWorkers, ~Killed PROVE Phase' = Phase
  OBVIOUS
<1>1. CASE DeadlinePasses
  BY <1>1 DEF DeadlinePasses, Phase, Alive
<1>2. CASE DrainShard \/ DrainEnds \/ PutMarker \/ GiveUpMarker
  BY <1>2 DEF DrainShard, DrainEnds, PutMarker, GiveUpMarker, Phase, Alive
<1>3. CASE UNCHANGED closeVars
  BY <1>3 DEF closeVars, Phase, Alive
<1>4. QED
  BY <1>1, <1>2, <1>3, NextSteps, HandlingFrame, WorkingFrame DEF Closing, vars, closeVars

\* The process works on the packets in the phases "open" and "stopping".
LEMMA PhaseRunning ==
  Alive => Phase \in {"open", "stopping"} /\ (Phase = "stopping" <=> stopping)
BY DEF Phase, Alive

\* A put accepts its packet in the log.
LEMMA PutAccepts ==
  ASSUME Types, NumberInv, LateInv, [Next]_vars, NEW h \in Handlers, Put(h)
  PROVE  pending[h] \in PacketTask /\ Log!Accept(pending[h])
<1> DEFINE p == pending[h]
<1>1. /\ p \in PacketTask /\ p.dev \in Instruments /\ p.conn = h /\ p.no = received[h]
      /\ accepted' = [accepted EXCEPT ![p.dev] = Append(accepted[p.dev], p)]
      /\ late' = (IF stopping THEN late \cup {p} ELSE late)
      /\ UNCHANGED <<processed, closer>> /\ pc[h] = "putting"
  BY PutLine
<1>2. Alive
  BY DEF Put
<1>3. Phase' = Phase
  BY <1>1, <1>2, PhaseFrame DEF CloseBegin, JoinWorkers, Killed, Alive
<1>4. Phase \in {"open", "stopping"} /\ (Phase = "stopping" => stopping) /\ (stopping => Phase = "stopping")
  BY <1>2, PhaseRunning
<1>5. ASSUME NEW q \in Log!Range(accepted[p.dev]), q.conn = p.conn PROVE q.no < p.no
  <2>1. accepted[p.dev] \in Seq(PacketTask)
    BY <1>1, HistoryType
  <2>2. PICK a \in 1 .. Len(accepted[p.dev]) : accepted[p.dev][a] = q
    BY <1>5, <2>1 DEF Log!Range
  <2>3. QED
    BY <1>1, <1>5, <2>2 DEF NumberInv, Numbered
<1>6. Phase = "stopping" => \A q \in late : q.conn # p.conn
  BY <1>1 DEF LateInv
<1>7. QED
  BY <1>1, <1>3, <1>4, <1>5, <1>6 DEF Log!Accept, Log!Running

\* The packet a busy worker has is the next of its instrument.
LEMMA HandIsNext ==
  ASSUME Types, OrderInv, NEW s \in Shards, worker[s] \in Busy
  PROVE  LET d == hand[s].dev
         IN  /\ d \in Instruments /\ Shard(d) = s
             /\ Len(processed[d]) < Len(accepted[d])
             /\ accepted[d][Len(processed[d]) + 1] = hand[s]
<1> DEFINE d == hand[s].dev
<1>1. hand[s] \in PacketTask /\ hand[s] \in Item /\ d \in Instruments
  BY HandType
<1>2. queue[s] \in Seq(Item) /\ Len(queue[s]) \in Nat
  BY DEF Types, QueuesOK
<1>3. Line(s) \in Seq(Item) /\ Len(Line(s)) > 0 /\ Line(s)[1] = hand[s] /\ 1 \in 1 .. Len(Line(s))
  BY <1>1, <1>2, InFront DEF Line
<1>4. Shard(d) = s
  <2>1. ShardOf(hand[s]) = s
    BY <1>1, <1>3 DEF OrderInv, AtHome, Lives
  <2>2. QED
    BY <2>1, ShardType
<1>5. /\ Waits(Line(s), accepted[d], Len(processed[d]), d)
      /\ Len(processed[d]) <= Len(accepted[d])
  BY <1>1, <1>4 DEF OrderInv, InOrder
<1>6. accepted[d] \in Seq(PacketTask) /\ Len(processed[d]) \in 0 .. Len(accepted[d])
  BY <1>1, <1>5, HistoryType
<1>7. Of(d, Line(s)[1])
  BY <1>1, <1>3 DEF Of
<1>8. Len(processed[d]) < Len(accepted[d]) /\ accepted[d][Len(processed[d]) + 1] = Line(s)[1]
  BY <1>3, <1>5, <1>6, <1>7, OwnLeaves
<1>9. QED
  BY <1>1, <1>3, <1>4, <1>8

\* What a worker is done with is the log's next packet of that instrument.
LEMMA FinishedSettles ==
  ASSUME Types, OrderInv, [Next]_vars, NEW s \in Shards, Finished(s)
  PROVE  hand[s].dev \in Instruments /\ Log!Settle(hand[s].dev)
<1> DEFINE d == hand[s].dev
<1>1. /\ d \in Instruments /\ worker[s] \in Busy /\ UNCHANGED <<accepted, late>>
      /\ processed' = [processed EXCEPT ![d] = Append(processed[d], hand[s])]
  BY FinishedLine
<1>2. accepted[d][Len(processed[d]) + 1] = hand[s] /\ Len(processed[d]) < Len(accepted[d])
  BY <1>1, HandIsNext
<1>3. Alive /\ closer' = closer
  BY DEF Finished, Flush, Raises, ColumnMissing, closeVars
<1>4. Phase' = Phase
  BY <1>3, PhaseFrame DEF CloseBegin, JoinWorkers, Killed, Alive
<1>5. Phase \in {"open", "stopping"}
  BY <1>3, PhaseRunning
<1>6. QED
  BY <1>1, <1>2, <1>4, <1>5 DEF Log!Settle, Log!Pending, Log!NextOf, Log!Running

\* Each step of the receiver is a step of the log or invisible in it.
LEMMA LogStep ==
  Types /\ OrderInv /\ NumberInv /\ LateInv /\ DrainInv /\ [Next]_vars => [Log!Next]_(Log!vars)
<1> SUFFICES ASSUME Types, OrderInv, NumberInv, LateInv, DrainInv, [Next]_vars
             PROVE  [Log!Next]_(Log!vars)
  OBVIOUS
<1>1. ASSUME NEW h \in Handlers, Put(h) PROVE Log!Next
  BY <1>1, PutAccepts DEF Log!Next
<1>2. ASSUME NEW s \in Shards, Finished(s) PROVE Log!Next
  BY <1>2, FinishedSettles DEF Log!Next
<1>3. CASE CloseBegin
  <2>1. /\ ~stopping /\ stopping' /\ closer = "serving" /\ closer' = "draining"
        /\ UNCHANGED <<accepted, processed, late>>
    BY <1>3 DEF CloseBegin, LateInv, history
  <2>2. Phase = "open" /\ Phase' = "stopping"
    BY <2>1 DEF Phase, Alive
  <2>3. QED
    BY <2>1, <2>2 DEF Log!Next, Log!Stop
<1>4. CASE JoinWorkers
  <2>1. /\ closer = "marking" /\ closer' = "exited" /\ stopping /\ stopping' = stopping
        /\ expired' = expired /\ expired \in BOOLEAN
        /\ UNCHANGED <<accepted, processed, late>>
    BY <1>4 DEF JoinWorkers, LateInv, history, Types, CloserOK
  <2>2. Phase = "stopping" /\ Phase' = IF expired THEN "expired" ELSE "drained"
    BY <2>1 DEF Phase, Alive
  <2>3. CASE expired
    BY <2>1, <2>2, <2>3 DEF Log!Next, Log!EndExpired
  <2>4. CASE ~expired
    <3>1. \A d \in Instruments : \A a \in Len(processed[d]) + 1 .. Len(accepted[d]) :
            accepted[d][a] \in late
      BY <2>1, <2>4 DEF DrainInv, Drained, OnlyLate
    <3>2. QED
      BY <2>1, <2>2, <2>4, <3>1 DEF Log!Next, Log!EndDrained
  <2>5. QED
    BY <2>3, <2>4
<1>5. CASE Killed
  <2>1. Alive /\ closer' = "killed" /\ UNCHANGED <<accepted, processed, late>>
    BY <1>5 DEF Killed, history
  <2>2. Phase \in {"open", "stopping"} /\ Phase' = "killed"
    BY <2>1, PhaseRunning DEF Phase
  <2>3. QED
    BY <2>1, <2>2 DEF Log!Next, Log!Kill, Log!Running
<1>6. ASSUME UNCHANGED <<accepted, processed, late>>, ~CloseBegin, ~JoinWorkers, ~Killed
      PROVE  UNCHANGED Log!vars
  <2>1. Phase' = Phase
    BY <1>6, PhaseFrame
  <2>2. QED
    BY <1>6, <2>1 DEF Log!vars
<1>7. CASE \E h \in Handlers : Handling(h)
  <2>1. (~CloseBegin /\ ~JoinWorkers /\ ~Killed) \/ \E h \in Handlers : Put(h)
    BY <1>7, HandlingFrame DEF Handling, CloseBegin, JoinWorkers, Killed, Receive, TestStopping,
                              PutTimesOut, Alive
  <2>2. QED
    BY <1>1, <1>6, <1>7, <2>1, HandlingFrame
<1>8. CASE \E s \in Shards : Working(s)
  <2>1. ~CloseBegin /\ ~JoinWorkers /\ ~Killed
    BY <1>8, WorkingFrame DEF CloseBegin, JoinWorkers, Killed, Alive
  <2>2. QED
    BY <1>2, <1>6, <1>8, <2>1, WorkingFrame
<1>9. CASE Closing
  BY <1>3, <1>4, <1>5, <1>6, <1>9, ClosingFrame
<1>10. CASE UNCHANGED vars
  <2>1. ~CloseBegin /\ ~JoinWorkers /\ ~Killed /\ UNCHANGED <<accepted, processed, late>>
    BY <1>10 DEF vars, closeVars, history, CloseBegin, JoinWorkers, Killed, Alive
  <2>2. QED
    BY <1>6, <2>1
<1>11. QED
  BY <1>7, <1>8, <1>9, <1>10, NextSteps

\* Seen through its histories, the receiver is a log per instrument of which a
\* prefix is processed: every behaviour of Spec is one of the packet log, for
\* any number of connections, shards and packets.
THEOREM PacketLogImplemented == Spec => ImplementsPacketLog
<1>1. Init => Log!Init
  BY DEF Init, Log!Init, Phase
<1>2. QED
  BY <1>1, LogStep, TypesCorrect, OrderCorrect, NumberCorrect, LateCorrect, DrainCorrect, PTL
     DEF Spec, ImplementsPacketLog, Log!Spec
-----------------------------------------------------------------------------
(* The files. *)

\* A file whose columns agree.
Aligned(f) ==
  \A c \in 2 .. 5 :
    /\ Len(f[Columns[c]]) <= Len(f[Columns[c - 1]])
    /\ \A k \in 1 .. Len(f[Columns[c]]) :
         f[Columns[c]][k] # Blank => f["samples"][k] = f[Columns[c]][k]

\* The columns a worker has written end with its packet.
EndsWith(f, n, last, p) ==
  /\ n = Len(f["samples"]) /\ n > 0
  /\ \A c \in 1 .. last : Len(f[Columns[c]]) = n /\ f[Columns[c]][n] = p
Row(s) == Len(files[hand[s].dev]["samples"])
RowInv ==
  \A s \in Shards : worker[s] = "appending" /\ column[s] > 1 =>
    EndsWith(files[hand[s].dev], Row(s), column[s] - 1, hand[s])

FilesInv == RowInv /\ \A i \in Instruments : Aligned(files[i])

LEMMA AlignedRows == (\A i \in Instruments : Aligned(files[i])) <=> RowsAligned
<1>1. 2 .. Len(Columns) = 2 .. 5
  BY ColumnsFacts
<1>2. QED
  BY <1>1 DEF Aligned, RowsAligned

LEMMA FileType ==
  ASSUME Types, NEW i \in Instruments
  PROVE  /\ files[i] \in [Column -> Seq(Cell)]
         /\ \A x \in Column : files[i][x] \in Seq(Cell) /\ Len(files[i][x]) \in Nat
         /\ \A c \in 1 .. 5 : Columns[c] \in Column
         /\ "samples" \in Column /\ Columns[1] = "samples"
<1>1. files[i] \in [Column -> Seq(Cell)]
  BY DEF Types, StoreOK
<1>2. QED
  BY <1>1, ColumnsFacts

\* No column is longer than the samples.
LEMMA SamplesLongest ==
  ASSUME Types, NEW i \in Instruments, Aligned(files[i]), NEW c \in 1 .. 5
  PROVE  Len(files[i][Columns[c]]) <= Len(files[i]["samples"])
<1> DEFINE l(k) == Len(files[i][Columns[k]])
<1>1. /\ l(1) \in Nat /\ l(2) \in Nat /\ l(3) \in Nat /\ l(4) \in Nat /\ l(5) \in Nat
      /\ l(1) = Len(files[i]["samples"])
  BY FileType
<1>2. /\ 2 \in 2 .. 5 /\ 2 - 1 = 1 /\ 3 \in 2 .. 5 /\ 3 - 1 = 2
      /\ 4 \in 2 .. 5 /\ 4 - 1 = 3 /\ 5 \in 2 .. 5 /\ 5 - 1 = 4
  OBVIOUS
<1>3. l(2) <= l(1) /\ l(3) <= l(2) /\ l(4) <= l(3) /\ l(5) <= l(4)
  BY <1>2 DEF Aligned
<1>4. l(c) = l(1) \/ l(c) = l(2) \/ l(c) = l(3) \/ l(c) = l(4) \/ l(c) = l(5)
  <2>1. c \in {1, 2, 3, 4, 5}
    OBVIOUS
  <2>2. QED
    BY <2>1
<1> HIDE DEF l
<1>5. l(c) <= l(1)
  BY <1>1, <1>3, <1>4
<1>6. QED
  BY <1>1, <1>5 DEF l

\* A column becomes v, of n cells: cells other than the last stay as they are,
\* new ones are blank, and the last one is blank, p, or as it was.
Grown(old, v, n, p) ==
  /\ v \in Seq(Cell) /\ Len(v) = n
  /\ \A k \in 1 .. n : k # n => v[k] = IF k <= Len(old) THEN old[k] ELSE Blank
  /\ v[n] = p \/ v[n] = IF n <= Len(old) THEN old[n] ELSE Blank

\* The two ways a column grows: WriteColumn, and a write that fails half way.
Grows(s) ==
  /\ worker[s] = "appending" /\ column[s] \in 1 .. 5
  /\ \E v \in Seq(Cell) :
       /\ Grown(files[hand[s].dev][Columns[column[s]]], v, RowOf(s), hand[s])
       /\ files' = [files EXCEPT ![hand[s].dev][Columns[column[s]]] = v]
       /\ WriteColumn(s) => v[RowOf(s)] = hand[s]
       /\ Raises(s) => v = Resized(files[hand[s].dev][Columns[column[s]]], RowOf(s))

\* Where a packet goes: to the row behind the samples, or to their last row.
LEMMA RowPlace ==
  ASSUME Types, OrderInv, FilesInv, NEW s \in Shards, worker[s] = "appending", column[s] \in 1 .. 5
  PROVE  LET d == hand[s].dev
             c == column[s]
             n == RowOf(s)
         IN  /\ d \in Instruments /\ Shard(d) = s
             /\ n \in Nat \ {0} /\ Len(files[d][Columns[c]]) <= n
             /\ c = 1 => n = Len(files[d]["samples"]) + 1
             /\ c # 1 => EndsWith(files[d], n, c - 1, hand[s])
<1> DEFINE d == hand[s].dev
           c == column[s]
           n == RowOf(s)
<1>1. worker[s] \in Busy
  BY DEF Busy
<1>2. d \in Instruments /\ Shard(d) = s
  BY <1>1, HandIsNext
<1>3. /\ n = IF c = 1 THEN Len(files[d]["samples"]) + 1 ELSE Len(files[d]["samples"])
      /\ n \in Nat
  BY <1>1, RowType
<1>4. Len(files[d]["samples"]) \in Nat /\ Len(files[d][Columns[c]]) \in Nat
  BY <1>2, FileType
<1>5. Len(files[d][Columns[c]]) <= Len(files[d]["samples"])
  BY <1>2, SamplesLongest DEF FilesInv
<1>6. c # 1 => EndsWith(files[d], n, c - 1, hand[s])
  BY <1>3 DEF FilesInv, RowInv, Row
<1>7. c # 1 => n > 0
  BY <1>6 DEF EndsWith
<1> HIDE DEF n
<1>8. n \in Nat \ {0} /\ Len(files[d][Columns[c]]) <= n
  BY <1>3, <1>4, <1>5, <1>7
<1>9. QED
  BY <1>2, <1>3, <1>6, <1>8 DEF n

LEMMA WriteGrows ==
  ASSUME Types, OrderInv, FilesInv, NEW s \in Shards, WriteColumn(s)
  PROVE  Grows(s) /\ column' = [column EXCEPT ![s] = column[s] + 1] /\ UNCHANGED <<worker, hand, processed, failed, broken, accepted>>
<1> DEFINE d == hand[s].dev
           x == Columns[column[s]]
           old == files[d][x]
           n == RowOf(s)
           v == Written(old, n, hand[s])
<1>1. /\ worker[s] = "appending" /\ column[s] \in 1 .. 5 /\ d \in Instruments /\ x \in Column
      /\ files' = [files EXCEPT ![d][x] = v]
      /\ column' = [column EXCEPT ![s] = column[s] + 1] /\ UNCHANGED <<worker, hand>>
  BY WriteChange
<1>2. n \in Nat \ {0} /\ old \in Seq(Cell) /\ hand[s] \in Cell
  BY <1>1, RowPlace, HandType DEF Busy
<1> HIDE DEF old, n
<1>3. /\ v \in Seq(Cell) /\ Len(v) = n /\ v[n] = hand[s]
      /\ \A k \in 1 .. n - 1 : v[k] = IF k <= Len(old) THEN old[k] ELSE Blank
  <2>1. v \in Seq(Cell)
    BY <1>2, WrittenType
  <2>2. Len(v) = n
    BY <1>2, WrittenType
  <2>3. \A k \in 1 .. n - 1 : v[k] = IF k <= Len(old) THEN old[k] ELSE Blank
    BY <1>2, WrittenType
  <2>4. v[n] = hand[s]
    <3>1. \A u \in Seq(Cell), m \in Nat \ {0}, p \in Cell : Written(u, m, p)[m] = p
      BY WrittenType
    <3>2. QED
      BY <1>2, <3>1, Zenon
  <2>5. QED
    BY <2>1, <2>2, <2>3, <2>4
<1> HIDE DEF v
<1>4. \A k \in 1 .. n : k # n => k \in 1 .. n - 1
  BY <1>2
<1>5. Grown(old, v, n, hand[s])
  BY <1>3, <1>4 DEF Grown
<1>6. ~ Raises(s)
  BY <1>1 DEF Raises, Processed, Types, WorkersOK
<1>7. Grows(s)
  BY <1>1, <1>3, <1>5, <1>6 DEF Grows, old, n
<1>8. UNCHANGED <<processed, failed, broken, accepted>>
  BY DEF WriteColumn, history
<1>9. QED
  BY <1>1, <1>7, <1>8

LEMMA ResidueGrows ==
  ASSUME Types, OrderInv, FilesInv, NEW s \in Shards, Raises(s), files' # files
  PROVE  Grows(s)
<1> DEFINE d == hand[s].dev
           x == Columns[column[s]]
           old == files[d][x]
           n == RowOf(s)
           v == Resized(old, n)
<1>1. worker[s] \in Busy /\ Residue(s) /\ worker' = [worker EXCEPT ![s] = "finishing"]
  BY DEF Raises, Processed, Busy
<1>2. /\ worker[s] = "appending" /\ column[s] \in 1 .. 5
      /\ files' = [files EXCEPT ![d][x] = v]
  BY <1>1, ResidueChange
<1>3. n \in Nat \ {0} /\ old \in Seq(Cell)
  BY <1>1, <1>2, RowPlace, HandType, ColumnsFacts
<1> HIDE DEF old
<1>4. /\ v \in Seq(Cell) /\ Len(v) = n
      /\ \A k \in 1 .. n : v[k] = IF k <= Len(old) THEN old[k] ELSE Blank
  BY <1>3, ResizedType
<1>5. n \in 1 .. n
  BY <1>3
<1> HIDE DEF v
<1>6. Grown(old, v, n, hand[s])
  BY <1>4, <1>5 DEF Grown
<1>7. ~ WriteColumn(s)
  BY <1>1, <1>2 DEF WriteColumn, Types, WorkersOK
<1>8. QED
  BY <1>2, <1>4, <1>6, <1>7 DEF Grows, old, v

\* No other step changes a file's columns.
LEMMA FilesFrame ==
  ASSUME Types, OrderInv, FilesInv, [Next]_vars
  PROVE  files' = files \/ \E s \in Shards : Grows(s) /\ (WriteColumn(s) \/ Raises(s))
<1>1. ASSUME NEW s \in Shards, Storing(s) \/ Finished(s), ~ WriteColumn(s), ~ Raises(s)
      PROVE  files' = files
  BY <1>1 DEF Storing, Finished, Parse, Open, Flush, ColumnMissing, store
<1>2. CASE \E h \in Handlers : Handling(h)
  BY <1>2, HandlingFrame
<1>3. CASE \E s \in Shards : Working(s)
  BY <1>1, <1>3, WorkingFrame, WriteGrows, ResidueGrows
<1>4. CASE Closing
  BY <1>4, ClosingFrame
<1>5. CASE UNCHANGED vars
  BY <1>5 DEF vars, store
<1>6. QED
  BY <1>2, <1>3, <1>4, <1>5, NextSteps

\* What growing a column changes.
LEMMA GrowsChange ==
  ASSUME Types, OrderInv, FilesInv, NEW s \in Shards, Grows(s)
  PROVE  LET d == hand[s].dev
             x == Columns[column[s]]
             n == RowOf(s)
         IN  /\ d \in Instruments /\ Shard(d) = s /\ x \in Column /\ column[s] \in 1 .. 5
             /\ n \in Nat \ {0} /\ Len(files[d][x]) <= n /\ Len(files[d][x]) \in Nat
             /\ column[s] = 1 => n = Len(files[d]["samples"]) + 1
             /\ column[s] # 1 => EndsWith(files[d], n, column[s] - 1, hand[s])
             /\ Grown(files[d][x], files'[d][x], n, hand[s])
             /\ WriteColumn(s) => files'[d][x][n] = hand[s]
             /\ Raises(s) => files'[d][x] = Resized(files[d][x], n)
             /\ \A i \in Instruments, y \in Column : i # d \/ y # x => files'[i][y] = files[i][y]
             /\ \A i \in Instruments : i # d => files'[i] = files[i]
<1> DEFINE d == hand[s].dev
           x == Columns[column[s]]
           n == RowOf(s)
<1>1. worker[s] = "appending" /\ column[s] \in 1 .. 5
  BY DEF Grows
<1>2. /\ d \in Instruments /\ Shard(d) = s
      /\ n \in Nat \ {0} /\ Len(files[d][x]) <= n
      /\ column[s] = 1 => n = Len(files[d]["samples"]) + 1
      /\ column[s] # 1 => EndsWith(files[d], n, column[s] - 1, hand[s])
  BY <1>1, RowPlace
<1>3. x \in Column /\ Len(files[d][x]) \in Nat
  BY <1>1, <1>2, FileType
<1>4. PICK v \in Seq(Cell) :
        /\ Grown(files[d][x], v, n, hand[s])
        /\ files' = [files EXCEPT ![d][x] = v]
        /\ WriteColumn(s) => v[n] = hand[s]
        /\ Raises(s) => v = Resized(files[d][x], n)
  BY DEF Grows
<1>5. \A i \in Instruments, y \in Column :
        files'[i][y] = IF i = d /\ y = x THEN v ELSE files[i][y]
  BY <1>2, <1>3, <1>4, ColumnChange
<1>6. \A i \in Instruments : i # d => files'[i] = files[i]
  BY <1>4 DEF Types, StoreOK
<1>7. files'[d][x] = v
  BY <1>2, <1>3, <1>5
<1>8. QED
  BY <1>1, <1>2, <1>3, <1>4, <1>5, <1>6, <1>7
\* The columns agree: a column grows to the row of its packet's samples.
LEMMA AlignedGrows ==
  ASSUME Types, OrderInv, FilesInv, NEW s \in Shards, Grows(s)
  PROVE  Aligned(files'[hand[s].dev])
<1> DEFINE d == hand[s].dev
           f == files[d]
           g == files'[d]
           b == column[s]
           n == RowOf(s)
<1>1. /\ d \in Instruments /\ b \in 1 .. 5 /\ Columns[b] \in Column
      /\ n \in Nat \ {0} /\ Len(f[Columns[b]]) <= n /\ Len(f[Columns[b]]) \in Nat
      /\ b = 1 => n = Len(f["samples"]) + 1
      /\ b # 1 => EndsWith(f, n, b - 1, hand[s])
      /\ Grown(f[Columns[b]], g[Columns[b]], n, hand[s])
      /\ \A y \in Column : y # Columns[b] => g[y] = f[y]
  BY GrowsChange
<1>2. /\ \A y \in Column : f[y] \in Seq(Cell) /\ Len(f[y]) \in Nat
      /\ "samples" \in Column /\ Columns[1] = "samples"
  BY <1>1, FileType
<1>3. Aligned(f) /\ \A c \in 1 .. 5 : Len(f[Columns[c]]) <= Len(f["samples"])
  BY <1>1, SamplesLongest DEF FilesInv
<1>4. /\ \A c \in 1 .. 5 : Columns[c] \in Column /\ (Columns[c] = Columns[b] => c = b)
      /\ \A c \in 1 .. 5 : Columns[c] = "samples" => c = 1
  BY <1>1, ColumnsFacts
<1> HIDE DEF d, f, g, b, n
<1>5. ASSUME NEW c \in 2 .. 5
      PROVE  /\ Len(g[Columns[c]]) <= Len(g[Columns[c - 1]])
             /\ \A k \in 1 .. Len(g[Columns[c]]) :
                  g[Columns[c]][k] # Blank => g["samples"][k] = g[Columns[c]][k]
  <2>1. /\ c \in 1 .. 5 /\ c - 1 \in 1 .. 5 /\ c # 1 /\ Columns[c] \in Column /\ Columns[c - 1] \in Column
    BY <1>4
  <2>2. /\ Len(f[Columns[c]]) <= Len(f[Columns[c - 1]])
        /\ \A k \in 1 .. Len(f[Columns[c]]) :
             f[Columns[c]][k] # Blank => f["samples"][k] = f[Columns[c]][k]
    BY <1>3 DEF Aligned
  <2>3. CASE c = b
    <3>1. EndsWith(f, n, c - 1, hand[s])
      BY <1>1, <2>1, <2>3
    <3>2. c - 1 \in 1 .. c - 1 /\ 1 \in 1 .. c - 1
      BY <2>1
    <3>3. Len(f[Columns[c - 1]]) = n /\ f["samples"][n] = hand[s] /\ n = Len(f["samples"])
      BY <1>2, <3>1, <3>2 DEF EndsWith
    <3>4. g[Columns[c - 1]] = f[Columns[c - 1]] /\ g["samples"] = f["samples"]
      <4>1. c - 1 # b /\ 1 # b
        BY <1>1, <2>1, <2>3
      <4>2. Columns[c - 1] # Columns[b] /\ "samples" # Columns[b]
        BY <1>1, <1>2, <1>4, <2>1, <4>1
      <4>3. QED
        BY <1>1, <1>2, <2>1, <4>2
    <3>5. /\ Len(g[Columns[c]]) = n
          /\ \A k \in 1 .. n : k # n => g[Columns[c]][k] = IF k <= Len(f[Columns[c]]) THEN f[Columns[c]][k] ELSE Blank
          /\ \/ g[Columns[c]][n] = hand[s]
             \/ g[Columns[c]][n] = IF n <= Len(f[Columns[c]]) THEN f[Columns[c]][n] ELSE Blank
      BY <1>1, <2>3 DEF Grown
    <3>6. ASSUME NEW k \in 1 .. n, g[Columns[c]][k] # Blank PROVE f["samples"][k] = g[Columns[c]][k]
      <4>1. CASE g[Columns[c]][k] = IF k <= Len(f[Columns[c]]) THEN f[Columns[c]][k] ELSE Blank
        <5>1. k <= Len(f[Columns[c]]) /\ g[Columns[c]][k] = f[Columns[c]][k]
          BY <3>6, <4>1
        <5>2. k \in 1 .. Len(f[Columns[c]])
          BY <1>2, <2>1, <5>1
        <5>3. QED
          BY <2>2, <3>6, <5>1, <5>2
      <4>2. CASE k = n /\ g[Columns[c]][n] = hand[s]
        BY <3>3, <4>2
      <4>3. QED
        BY <3>5, <4>1, <4>2
    <3>7. QED
      BY <1>1, <3>3, <3>4, <3>5, <3>6
  <2>4. CASE c # b
    <3>1. g[Columns[c]] = f[Columns[c]]
      <4>1. Columns[c] # Columns[b]
        BY <1>4, <2>1, <2>4
      <4>2. QED
        BY <1>1, <2>1, <4>1
    <3>2. Len(g[Columns[c]]) <= Len(g[Columns[c - 1]])
      <4>1. CASE Columns[c - 1] = Columns[b]
        <5>1. Len(g[Columns[c - 1]]) = n /\ Len(f[Columns[c - 1]]) <= n
          BY <1>1, <4>1 DEF Grown
        <5>2. Len(f[Columns[c]]) \in Nat /\ Len(f[Columns[c - 1]]) \in Nat
          BY <1>2, <2>1
        <5>3. QED
          BY <1>1, <2>2, <3>1, <5>1, <5>2
      <4>2. CASE Columns[c - 1] # Columns[b]
        <5>1. g[Columns[c - 1]] = f[Columns[c - 1]]
          BY <1>1, <2>1, <4>2
        <5>2. QED
          BY <2>2, <3>1, <5>1
      <4>3. QED
        BY <4>1, <4>2
    <3>3. ASSUME NEW k \in 1 .. Len(f[Columns[c]]) PROVE g["samples"][k] = f["samples"][k]
      <4>1. CASE "samples" # Columns[b]
        BY <1>1, <1>2, <4>1
      <4>2. CASE "samples" = Columns[b]
        <5>1. b = 1
          BY <1>1, <1>4, <4>2
        <5>2. n = Len(f["samples"]) + 1 /\ Len(f["samples"]) \in Nat
          BY <1>1, <1>2, <5>1
        <5>3. k <= Len(f["samples"]) /\ k \in 1 .. n /\ k # n
          <6>1. Len(f[Columns[c]]) <= Len(f["samples"]) /\ Len(f[Columns[c]]) \in Nat
            BY <1>2, <1>3, <2>1
          <6>2. QED
            BY <5>2, <6>1
        <5>4. \A j \in 1 .. n : j # n => g["samples"][j] = IF j <= Len(f["samples"]) THEN f["samples"][j] ELSE Blank
          BY <1>1, <4>2 DEF Grown
        <5>5. QED
          BY <5>3, <5>4
      <4>3. QED
        BY <4>1, <4>2
    <3>4. QED
      BY <2>2, <3>1, <3>2, <3>3
  <2>5. QED
    BY <2>3, <2>4
<1>6. Aligned(g)
  BY <1>5 DEF Aligned
<1>7. QED
  BY <1>6 DEF g, d

\* The worker goes on to the next column.
LEMMA RowGrows ==
  ASSUME Types, OrderInv, FilesInv, NEW s \in Shards, WriteColumn(s), Grows(s)
  PROVE  EndsWith(files'[hand[s].dev], Len(files'[hand[s].dev]["samples"]), column[s], hand[s])
<1> DEFINE d == hand[s].dev
           f == files[d]
           g == files'[d]
           b == column[s]
           n == RowOf(s)
<1>1. /\ d \in Instruments /\ b \in 1 .. 5 /\ Columns[b] \in Column
      /\ n \in Nat \ {0}
      /\ b # 1 => EndsWith(f, n, b - 1, hand[s])
      /\ Grown(f[Columns[b]], g[Columns[b]], n, hand[s])
      /\ g[Columns[b]][n] = hand[s]
      /\ \A y \in Column : y # Columns[b] => g[y] = f[y]
  BY GrowsChange
<1>2. /\ \A c \in 1 .. 5 : Columns[c] \in Column /\ (Columns[c] = Columns[b] => c = b)
      /\ Columns[1] = "samples"
  BY <1>1, ColumnsFacts
<1> HIDE DEF d, f, g, b, n
<1>3. ASSUME NEW c \in 1 .. b PROVE Len(g[Columns[c]]) = n /\ g[Columns[c]][n] = hand[s]
  <2>1. CASE c = b
    BY <1>1, <2>1 DEF Grown
  <2>2. CASE c # b
    <3>1. c \in 1 .. b - 1 /\ c \in 1 .. 5 /\ b # 1
      BY <1>1, <2>2
    <3>2. Len(f[Columns[c]]) = n /\ f[Columns[c]][n] = hand[s]
      BY <1>1, <3>1 DEF EndsWith
    <3>3. Columns[c] # Columns[b] /\ Columns[c] \in Column
      BY <1>2, <2>2, <3>1
    <3>4. QED
      BY <1>1, <3>2, <3>3
  <2>3. QED
    BY <2>1, <2>2
<1>4. 1 \in 1 .. b
  BY <1>1
<1>5. n = Len(g["samples"]) /\ n > 0
  BY <1>1, <1>2, <1>3, <1>4
<1>6. EndsWith(g, Len(g["samples"]), b, hand[s])
  BY <1>3, <1>5 DEF EndsWith
<1>7. QED
  BY <1>6 DEF g, d, b

LEMMA FilesStep == Types /\ OrderInv /\ FilesInv /\ [Next]_vars => FilesInv'
<1> SUFFICES ASSUME Types, OrderInv, FilesInv, [Next]_vars PROVE FilesInv'
  OBVIOUS
<1>1. ASSUME NEW i \in Instruments PROVE Aligned(files'[i])
  <2>1. CASE files' = files
    BY <2>1 DEF FilesInv
  <2>2. ASSUME NEW s \in Shards, Grows(s) PROVE Aligned(files'[i])
    <3>1. i # hand[s].dev => files'[i] = files[i]
      BY <2>2, GrowsChange
    <3>2. QED
      BY <2>2, <3>1, AlignedGrows DEF FilesInv
  <2>3. QED
    BY <2>1, <2>2, FilesFrame
<1>2. ASSUME NEW t \in Shards, worker'[t] = "appending", column'[t] > 1
      PROVE  EndsWith(files'[hand'[t].dev], Len(files'[hand'[t].dev]["samples"]), column'[t] - 1, hand'[t])
  <2>0. /\ worker \in [Shards -> Busy \cup {"getting", "finishing", "exited"}]
        /\ hand \in [Shards -> Item] /\ column \in [Shards -> 1 .. 6]
    BY DEF Types, WorkersOK
  <2>1. ASSUME NEW s \in Shards, WriteColumn(s), s = t
        PROVE  EndsWith(files'[hand'[t].dev], Len(files'[hand'[t].dev]["samples"]), column'[t] - 1, hand'[t])
    <3>1. Grows(s) /\ column' = [column EXCEPT ![s] = column[s] + 1] /\ hand' = hand
      BY <2>1, WriteGrows
    <3>2. column'[t] - 1 = column[s]
      BY <2>0, <2>1, <3>1
    <3>3. EndsWith(files'[hand[s].dev], Len(files'[hand[s].dev]["samples"]), column[s], hand[s])
      BY <2>1, <3>1, RowGrows
    <3>4. QED
      BY <2>1, <3>1, <3>2, <3>3
  <2>2. CASE \A s \in Shards : WriteColumn(s) => s # t
    <3>1. /\ worker[t] = "appending" /\ column[t] > 1
          /\ column'[t] = column[t] /\ hand'[t] = hand[t]
      <4>1. ASSUME NEW s \in Shards, Working(s)
            PROVE  /\ worker[t] = "appending" /\ column[t] > 1
                   /\ column'[t] = column[t] /\ hand'[t] = hand[t]
        <5>1. CASE Get(s)
          <6>1. /\ hand' = [hand EXCEPT ![s] = Head(queue[s])]
                /\ worker' = [worker EXCEPT ![s] = IF Head(queue[s]) = None THEN "finishing" ELSE "parsing"]
                /\ column' = column
            BY <5>1 DEF Get
          <6>2. s # t
            BY <1>2, <2>0, <6>1
          <6>3. QED
            BY <1>2, <2>0, <6>1, <6>2
        <5>2. CASE Parse(s)
          BY <1>2, <2>0, <5>2 DEF Parse
        <5>3. CASE Open(s)
          <6>1. /\ worker' = [worker EXCEPT ![s] = "appending"] /\ hand' = hand
                /\ column' = [column EXCEPT ![s] = 1]
            BY <5>3 DEF Open
          <6>2. QED
            BY <1>2, <2>0, <6>1
        <5>4. CASE WriteColumn(s)
          <6>1. /\ column' = [column EXCEPT ![s] = column[s] + 1] /\ UNCHANGED <<worker, hand>>
            BY <5>4, WriteGrows
          <6>2. QED
            BY <1>2, <2>0, <2>2, <5>4, <6>1
        <5>5. CASE Finished(s)
          <6>1. worker' = [worker EXCEPT ![s] = "finishing"] /\ UNCHANGED <<hand, column>>
            BY <5>5 DEF Finished, Flush, Raises, ColumnMissing, Processed
          <6>2. QED
            BY <1>2, <2>0, <6>1
        <5>6. CASE TaskDone(s)
          <6>1. /\ hand' = [hand EXCEPT ![s] = None] /\ column' = column
                /\ worker' = [worker EXCEPT ![s] = IF hand[s] = None THEN "exited" ELSE "getting"]
            BY <5>6 DEF TaskDone
          <6>2. s # t
            BY <1>2, <2>0, <6>1
          <6>3. QED
            BY <1>2, <2>0, <6>1, <6>2
        <5>7. QED
          BY <4>1, <5>1, <5>2, <5>3, <5>4, <5>5, <5>6 DEF Working, Storing
      <4>2. CASE UNCHANGED <<worker, hand, column>>
        BY <1>2, <4>2
      <4>3. QED
        BY <4>1, <4>2, NextSteps, HandlingFrame, ClosingFrame DEF vars, workerVars
    <3>2. hand[t].dev \in Instruments /\ Shard(hand[t].dev) = t /\ worker[t] \in Busy
      BY <3>1, HandIsNext DEF Busy
    <3>3. files'[hand[t].dev] = files[hand[t].dev]
      <4>1. ASSUME NEW s \in Shards, Grows(s), WriteColumn(s) \/ Raises(s)
            PROVE  files'[hand[t].dev] = files[hand[t].dev]
        <5>1. s # t
          <6>1. CASE WriteColumn(s)
            BY <2>2, <6>1
          <6>2. CASE Raises(s)
            BY <1>2, <2>0, <6>2 DEF Raises, Processed
          <6>3. QED
            BY <4>1, <6>1, <6>2
        <5>2. Shard(hand[s].dev) = s
          BY <4>1, GrowsChange
        <5>3. hand[s].dev # hand[t].dev
          BY <3>2, <5>1, <5>2
        <5>4. QED
          BY <3>2, <4>1, <5>3, GrowsChange
      <4>2. QED
        BY <4>1, FilesFrame
    <3>4. EndsWith(files[hand[t].dev], Row(t), column[t] - 1, hand[t])
      BY <3>1 DEF FilesInv, RowInv
    <3>5. QED
      BY <3>1, <3>3, <3>4 DEF Row
  <2>3. QED
    BY <2>1, <2>2
<1>3. RowInv'
  BY <1>2 DEF RowInv, Row
<1>4. QED
  BY <1>1, <1>3 DEF FilesInv
\* New and old files, with raw_packets or without.
LEMMA FilesInit == Init => FilesInv
<1> SUFFICES ASSUME Init PROVE FilesInv
  OBVIOUS
<1>1. RowInv
  BY DEF Init, RowInv
<1>2. ASSUME NEW i \in Instruments PROVE Aligned(files[i])
  <2>1. /\ \A c \in 2 .. 5 : Columns[c] \in Column /\ Columns[c - 1] \in Column
                             /\ Columns[c - 1] # "raw_packets"
        /\ "samples" \in Column /\ "samples" # "raw_packets"
    <3>1. \A c \in 2 .. 5 : c \in 1 .. 5 /\ c - 1 \in 1 .. 5 /\ c - 1 # 5
      OBVIOUS
    <3>2. Columns[5] = "raw_packets" /\ 5 \in 1 .. 5
      BY DEF Columns
    <3>3. \A c \in 2 .. 5 : Columns[c - 1] # Columns[5]
      BY <3>1, <3>2, ColumnsFacts
    <3>4. QED
      BY <3>1, <3>2, <3>3, ColumnsFacts
  <2>2. CASE files[i] = NoRows
    <3>1. \A y \in Column : files[i][y] = << >>
      BY <2>2 DEF NoRows
    <3>2. QED
      BY <2>1, <3>1 DEF Aligned
  <2>3. ASSUME NEW old \in OldFiles, files[i] = OldFile(old) PROVE Aligned(files[i])
    <3> DEFINE full == [k \in 1 .. old.rows |-> Old]
    <3>1. old.rows \in Nat
      BY ConstantsAssumption
    <3>2. Len(full) = old.rows /\ \A k \in 1 .. old.rows : full[k] = Old
      BY <3>1
    <3>3. \A y \in Column : files[i][y] = IF y = "raw_packets" /\ ~old.raw THEN << >> ELSE full
      BY <2>3 DEF OldFile
    <3> HIDE DEF full
    <3>4. ASSUME NEW c \in 2 .. 5
          PROVE  /\ Len(files[i][Columns[c]]) <= Len(files[i][Columns[c - 1]])
                 /\ \A k \in 1 .. Len(files[i][Columns[c]]) :
                      files[i][Columns[c]][k] # Blank => files[i]["samples"][k] = files[i][Columns[c]][k]
      <4>1. files[i][Columns[c - 1]] = full /\ files[i]["samples"] = full
        BY <2>1, <3>3
      <4>2. files[i][Columns[c]] = full \/ files[i][Columns[c]] = << >>
        BY <2>1, <3>3
      <4>3. QED
        BY <3>1, <3>2, <4>1, <4>2
    <3>5. QED
      BY <3>4 DEF Aligned
  <2>4. QED
    BY <2>2, <2>3 DEF Init
<1>3. QED
  BY <1>1, <1>2 DEF FilesInv

\* A file is whole, or its first columns end with the packet its worker holds.
THEOREM FilesCorrect == Spec => []FilesInv
BY FilesInit, FilesStep, TypesCorrect, OrderCorrect, PTL DEF Spec

\* The columns of a file never disagree about a packet, whatever writes fail half
\* way and however many instruments and packets there are.
THEOREM RowsAlignedCorrect == Spec => []RowsAligned
<1>1. FilesInv => RowsAligned
  BY AlignedRows DEF FilesInv
<1>2. QED
  BY <1>1, FilesCorrect, PTL

-----------------------------------------------------------------------------
(* Rows and the order of acceptance. *)

\* Rows hold packets that are processed or being written.
Begun(i, a) ==
  \/ a <= Len(processed[i])
  \/ /\ a = Len(processed[i]) + 1
     /\ worker[Shard(i)] = "appending" /\ column[Shard(i)] > 1
     /\ hand[Shard(i)].dev = i
Samples(i) == files[i]["samples"]
RowsBegun ==
  \A i \in Instruments : \A k \in 1 .. Len(Samples(i)) :
    Samples(i)[k] \in PacketTask =>
      \E a \in 1 .. Len(accepted[i]) : Samples(i)[k] = accepted[i][a] /\ Begun(i, a)

\* Rows are in the order of acceptance, and no packet has two.
Before(u, log) ==
  \A a, b \in 1 .. Len(log) : a <= b =>
    \A j, k \in 1 .. Len(u) : u[j] = log[a] /\ u[k] = log[b] =>
      IF a = b THEN j = k ELSE j < k
RowsInv == RowsBegun /\ \A i \in Instruments : Before(Samples(i), accepted[i])

LEMMA RowsInvOrder == RowsInv => WrittenInArrivalOrder
BY DEF RowsInv, Before, Samples, WrittenInArrivalOrder, RowsOf

\* What is begun stays begun.
LEMMA BegunStays ==
  ASSUME Types, OrderInv, FilesInv, [Next]_vars, NEW i \in Instruments, NEW a \in Nat, Begun(i, a)
  PROVE  Begun(i, a)'
<1> DEFINE t == Shard(i)
<1>0. /\ worker \in [Shards -> Busy \cup {"getting", "finishing", "exited"}]
      /\ hand \in [Shards -> Item] /\ column \in [Shards -> 1 .. 6]
      /\ t \in Shards /\ Len(processed[i]) \in Nat /\ processed[i] \in Seq(PacketTask)
  BY HistoryType, ShardType DEF Types, WorkersOK
<1>1. ASSUME UNCHANGED <<processed, worker, column, hand>> PROVE Begun(i, a)'
  BY <1>1 DEF Begun, Shard
<1>2. ASSUME NEW s \in Shards, Working(s) PROVE Begun(i, a)'
  <2>1. CASE Get(s) \/ Parse(s) \/ Open(s) \/ TaskDone(s)
    <3>1. /\ worker[s] # "appending" /\ processed' = processed
          /\ \A r \in Shards \ {s} : worker'[r] = worker[r] /\ hand'[r] = hand[r] /\ column'[r] = column[r]
      <4>1. CASE Get(s)
        BY <1>0, <4>1 DEF Get, history
      <4>2. CASE Parse(s)
        BY <1>0, <4>2 DEF Parse, history
      <4>3. CASE Open(s)
        BY <1>0, <4>3 DEF Open, history
      <4>4. CASE TaskDone(s)
        BY <1>0, <4>4 DEF TaskDone, history
      <4>5. QED
        BY <2>1, <4>1, <4>2, <4>3, <4>4
    <3>2. CASE t = s
      BY <3>1, <3>2 DEF Begun, Shard
    <3>3. CASE t # s
      BY <1>0, <3>1, <3>3 DEF Begun, Shard
    <3>4. QED
      BY <3>2, <3>3
  <2>2. CASE WriteColumn(s)
    <3>1. /\ column' = [column EXCEPT ![s] = column[s] + 1] /\ UNCHANGED <<worker, hand, processed>>
      BY <2>2, WriteGrows
    <3>2. column'[t] >= column[t] /\ column[t] \in Int /\ column'[t] \in Int
      BY <1>0, <3>1
    <3>3. column[t] > 1 => column'[t] > 1
      BY <3>2
    <3>4. QED
      BY <3>1, <3>3 DEF Begun, Shard
  <2>3. CASE Finished(s)
    <3> DEFINE p == hand[s]
    <3>1. /\ worker[s] \in Busy /\ worker' = [worker EXCEPT ![s] = "finishing"]
          /\ p \in PacketTask /\ p.dev \in Instruments /\ hand' = hand
          /\ processed' = [processed EXCEPT ![p.dev] = Append(processed[p.dev], p)]
      BY <2>3, FinishedLine
    <3>2. column' = column
      BY <2>3 DEF Finished, Flush, Raises, ColumnMissing
    <3>3. CASE p.dev = i
      <4>1. processed'[i] = Append(processed[i], p)
        BY <3>1, <3>3 DEF Types, HistoryOK
      <4>2. Len(processed'[i]) = Len(processed[i]) + 1
        BY <1>0, <3>1, <4>1
      <4>3. a <= Len(processed[i]) + 1
        BY <1>0 DEF Begun
      <4>4. QED
        BY <4>2, <4>3 DEF Begun
    <3>4. CASE p.dev # i
      <4>1. processed'[i] = processed[i]
        BY <3>1, <3>4 DEF Types, HistoryOK
      <4>2. CASE t = s
        BY <3>4, <4>1, <4>2 DEF Begun, Shard
      <4>3. CASE t # s
        <5>1. worker'[t] = worker[t]
          BY <1>0, <3>1, <4>3
        <5>2. QED
          BY <3>1, <3>2, <4>1, <5>1 DEF Begun, Shard
      <4>4. QED
        BY <4>2, <4>3
    <3>5. QED
      BY <3>3, <3>4
  <2>4. QED
    BY <1>2, <2>1, <2>2, <2>3 DEF Working, Storing
<1>3. QED
  BY <1>1, <1>2, NextSteps, HandlingFrame, ClosingFrame DEF vars, workerVars, history

\* A row is added behind the others, blank or with the packet in hand, of which
\* nothing was written before.
LEMMA SamplesGrow ==
  ASSUME Types, OrderInv, FilesInv, [Next]_vars, NEW i \in Instruments, Samples(i)' # Samples(i)
  PROVE  LET n == Len(Samples(i)) + 1
         IN  /\ Samples(i) \in Seq(Cell) /\ Samples(i)' \in Seq(Cell) /\ Len(Samples(i)') = n
             /\ \A k \in 1 .. Len(Samples(i)) : Samples(i)'[k] = Samples(i)[k]
             /\ \/ Samples(i)'[n] = Blank
                \/ /\ worker[Shard(i)] = "appending" /\ column[Shard(i)] = 1
                   /\ hand[Shard(i)].dev = i /\ Samples(i)'[n] = hand[Shard(i)]
                   /\ WriteColumn(Shard(i))
<1> DEFINE n == Len(Samples(i)) + 1
<1>1. PICK s \in Shards : Grows(s) /\ (WriteColumn(s) \/ Raises(s))
  BY FilesFrame DEF Samples
<1> DEFINE d == hand[s].dev
           x == Columns[column[s]]
<1>2. /\ d \in Instruments /\ Shard(d) = s /\ x \in Column /\ column[s] \in 1 .. 5
      /\ column[s] = 1 => RowOf(s) = Len(files[d]["samples"]) + 1
      /\ Grown(files[d][x], files'[d][x], RowOf(s), hand[s])
      /\ Raises(s) => files'[d][x] = Resized(files[d][x], RowOf(s))
      /\ \A j \in Instruments, y \in Column : j # d \/ y # x => files'[j][y] = files[j][y]
  BY <1>1, GrowsChange
<1>3. i = d /\ x = "samples"
  BY <1>2, FileType DEF Samples
<1>4. column[s] = 1
  <2>1. \A c \in 1 .. 5 : Columns[c] = Columns[1] => c = 1
    BY ColumnsFacts
  <2>2. QED
    BY <1>2, <1>3, <2>1, ColumnsFacts
<1>5. Samples(i) \in Seq(Cell) /\ Len(Samples(i)) \in Nat /\ n = RowOf(s)
  BY <1>2, <1>3, <1>4, FileType DEF Samples
<1>6. Grown(Samples(i), Samples(i)', n, hand[s]) /\ (Raises(s) => Samples(i)' = Resized(Samples(i), n))
  BY <1>2, <1>3, <1>5 DEF Samples
<1>7. n \in 1 .. n /\ ~ (n <= Len(Samples(i))) /\ \A k \in 1 .. Len(Samples(i)) : k \in 1 .. n /\ k # n /\ k <= Len(Samples(i))
  BY <1>5
<1>8. /\ Samples(i)' \in Seq(Cell) /\ Len(Samples(i)') = n
      /\ \A k \in 1 .. Len(Samples(i)) : Samples(i)'[k] = Samples(i)[k]
      /\ Samples(i)'[n] = hand[s] \/ Samples(i)'[n] = Blank
  BY <1>6, <1>7 DEF Grown
<1>9. Raises(s) => Samples(i)'[n] = Blank
  <2>1. n \in Nat
    BY <1>5
  <2>2. Resized(Samples(i), n)[n] = Blank
    BY <1>5, <1>7, <2>1, ResizedType
  <2>3. QED
    BY <1>6, <2>2
<1>10. worker[s] = "appending"
  BY <1>1 DEF Grows
<1>11. QED
  BY <1>1, <1>2, <1>3, <1>4, <1>5, <1>8, <1>9, <1>10
\* What was accepted stays, in its place.
LEMMA AcceptedStays ==
  ASSUME Types, [Next]_vars, NEW i \in Instruments
  PROVE  /\ accepted'[i] \in Seq(PacketTask)
         /\ Len(accepted[i]) <= Len(accepted'[i]) /\ Len(accepted'[i]) \in Nat
         /\ \A a \in 1 .. Len(accepted[i]) : a \in 1 .. Len(accepted'[i]) /\ accepted'[i][a] = accepted[i][a]
<1>0. accepted[i] \in Seq(PacketTask) /\ Len(accepted[i]) \in Nat
  BY HistoryType
<1>1. CASE accepted'[i] = accepted[i]
  BY <1>0, <1>1
<1>2. ASSUME NEW p \in PacketTask, accepted'[i] = Append(accepted[i], p)
      PROVE  /\ accepted'[i] \in Seq(PacketTask)
             /\ Len(accepted[i]) <= Len(accepted'[i]) /\ Len(accepted'[i]) \in Nat
             /\ \A a \in 1 .. Len(accepted[i]) :
                  a \in 1 .. Len(accepted'[i]) /\ accepted'[i][a] = accepted[i][a]
  <2>1. /\ accepted'[i] \in Seq(PacketTask) /\ Len(accepted'[i]) = Len(accepted[i]) + 1
        /\ \A a \in 1 .. Len(accepted[i]) : accepted'[i][a] = accepted[i][a]
    BY <1>0, <1>2
  <2>2. QED
    BY <1>0, <2>1
<1>3. accepted'[i] = accepted[i] \/ \E p \in PacketTask : accepted'[i] = Append(accepted[i], p)
  <2>1. CASE \E h \in Handlers : Put(h)
    <3>1. PICK h \in Handlers : Put(h)
      BY <2>1
    <3>2. /\ pending[h] \in PacketTask
          /\ accepted' = [accepted EXCEPT ![pending[h].dev] = Append(accepted[pending[h].dev], pending[h])]
      BY <3>1, PutLine
    <3>3. accepted'[i] = accepted[i] \/ accepted'[i] = Append(accepted[i], pending[h])
      BY <3>2 DEF Types, HistoryOK
    <3>4. QED
      BY <3>2, <3>3
  <2>2. CASE \E h \in Handlers : Handling(h) /\ ~ Put(h)
    BY <2>2, HandlingFrame
  <2>3. CASE \E s \in Shards : Working(s)
    BY <2>3, WorkingFrame
  <2>4. CASE Closing
    BY <2>4, ClosingFrame
  <2>5. CASE UNCHANGED vars
    BY <2>5 DEF vars, history
  <2>6. QED
    BY <2>1, <2>2, <2>3, <2>4, <2>5, NextSteps
<1>4. QED
  BY <1>1, <1>2, <1>3

\* Only packets that submit() accepted are stored, each after it was taken.
LEMMA RowsBegunStep ==
  Types /\ OrderInv /\ FilesInv /\ RowsBegun /\ [Next]_vars => RowsBegun'
<1> SUFFICES ASSUME Types, OrderInv, FilesInv, RowsBegun, [Next]_vars,
                    NEW i \in Instruments, NEW k \in 1 .. Len(Samples(i)'), Samples(i)'[k] \in PacketTask
             PROVE  \E a \in 1 .. Len(accepted'[i]) : Samples(i)'[k] = accepted'[i][a] /\ Begun(i, a)'
  BY DEF RowsBegun
<1>1. ASSUME k \in 1 .. Len(Samples(i)), Samples(i)'[k] = Samples(i)[k]
      PROVE  \E a \in 1 .. Len(accepted'[i]) : Samples(i)'[k] = accepted'[i][a] /\ Begun(i, a)'
  <2>1. PICK a \in 1 .. Len(accepted[i]) : Samples(i)[k] = accepted[i][a] /\ Begun(i, a)
    BY <1>1 DEF RowsBegun
  <2>2. a \in 1 .. Len(accepted'[i]) /\ accepted'[i][a] = accepted[i][a]
    BY AcceptedStays
  <2>3. Begun(i, a)'
    BY <2>1, BegunStays
  <2>4. QED
    BY <1>1, <2>1, <2>2, <2>3
<1>2. CASE Samples(i)' = Samples(i)
  BY <1>1, <1>2
<1>3. CASE Samples(i)' # Samples(i)
  <2> DEFINE n == Len(Samples(i)) + 1
             s == Shard(i)
  <2>1. /\ Samples(i) \in Seq(Cell) /\ Len(Samples(i)') = n
        /\ \A j \in 1 .. Len(Samples(i)) : Samples(i)'[j] = Samples(i)[j]
        /\ \/ Samples(i)'[n] = Blank
           \/ /\ worker[s] = "appending" /\ column[s] = 1
              /\ hand[s].dev = i /\ Samples(i)'[n] = hand[s]
              /\ WriteColumn(s)
    BY <1>3, SamplesGrow
  <2>2. Blank \notin PacketTask
    BY ConstantsAssumption
  <2>3. CASE k = n
    <3>1. /\ worker[s] = "appending" /\ column[s] = 1
          /\ hand[s].dev = i /\ Samples(i)'[k] = hand[s] /\ WriteColumn(s)
      BY <2>1, <2>2, <2>3
    <3>2. s \in Shards
      BY ShardType
    <3>3. Len(processed[i]) < Len(accepted[i]) /\ accepted[i][Len(processed[i]) + 1] = hand[s]
      BY <3>1, <3>2, HandIsNext DEF Busy
    <3>4. Len(processed[i]) + 1 \in 1 .. Len(accepted[i])
      BY <3>3, HistoryType
    <3>0. PICK l \in 1 .. Len(accepted[i]) : l = Len(processed[i]) + 1
      BY <3>4
    <3>5. l \in 1 .. Len(accepted'[i]) /\ accepted'[i][l] = hand[s]
      BY <3>0, <3>3, AcceptedStays
    <3>6. Begun(i, l)'
      <4>1. column' = [column EXCEPT ![s] = column[s] + 1] /\ UNCHANGED <<worker, hand, processed>>
        BY <3>1, <3>2, WriteGrows
      <4>2. column'[s] > 1
        BY <3>1, <3>2, <4>1 DEF Types, WorkersOK
      <4>3. QED
        BY <3>0, <3>1, <4>1, <4>2 DEF Begun, Shard
    <3>7. QED
      BY <3>1, <3>5, <3>6
  <2>4. CASE k # n
    <3>1. k \in 1 .. Len(Samples(i))
      BY <2>1, <2>4
    <3>2. QED
      BY <1>1, <2>1, <3>1
  <2>5. QED
    BY <2>3, <2>4
<1>4. QED
  BY <1>2, <1>3

\* A connection puts a packet once.
LEMMA PutIsNew ==
  ASSUME Types, NumberInv, NEW h \in Handlers, Put(h)
  PROVE  \A a \in 1 .. Len(accepted[pending[h].dev]) : accepted[pending[h].dev][a] # pending[h]
<1> DEFINE p == pending[h]
<1>1. p \in PacketTask /\ p.dev \in Instruments /\ p.conn = h /\ p.no = received[h] /\ pc[h] = "putting"
  BY PutLine
<1> HIDE DEF p
<1>2. ASSUME NEW a \in 1 .. Len(accepted[p.dev]), accepted[p.dev][a] = p PROVE FALSE
  <2>1. p.no < received[p.conn]
    BY <1>1, <1>2 DEF NumberInv, Numbered
  <2>2. QED
    BY <1>1, <2>1, TaskType
<1>3. QED
  BY <1>2 DEF p

\* Rows stay in order when a packet is accepted that has no row ...
LEMMA BeforePut ==
  ASSUME Types, NumberInv, RowsInv, NEW h \in Handlers, Put(h), NEW i \in Instruments
  PROVE  Before(Samples(i), accepted'[i])
<1> DEFINE p == pending[h]
           log == accepted[i]
<1>0. Before(Samples(i), log) /\ log \in Seq(PacketTask) /\ Len(log) \in Nat
  BY HistoryType DEF RowsInv
<1>1. p \in PacketTask /\ accepted' = [accepted EXCEPT ![p.dev] = Append(accepted[p.dev], p)]
  BY PutLine
<1>2. CASE p.dev # i
  BY <1>0, <1>1, <1>2 DEF Types, HistoryOK
<1>3. CASE p.dev = i
  <2>1. \A a \in 1 .. Len(log) : log[a] # p
    BY <1>3, PutIsNew
  <2>2. \A k \in 1 .. Len(Samples(i)) : Samples(i)[k] # p
    BY <1>1, <2>1 DEF RowsInv, RowsBegun
  <2> DEFINE longer == accepted'[i]
  <2>3. longer = Append(log, p)
    BY <1>1, <1>3 DEF Types, HistoryOK
  <2>4. /\ Len(longer) = Len(log) + 1 /\ longer[Len(log) + 1] = p
        /\ \A a \in 1 .. Len(log) : longer[a] = log[a]
    BY <1>0, <1>1, <2>3
  <2>5. \A a \in 1 .. Len(longer) : a \in 1 .. Len(log) \/ a = Len(log) + 1
    BY <1>0, <2>4
  <2> HIDE DEF longer, p
  <2>6. \A a \in 1 .. Len(longer), k \in 1 .. Len(Samples(i)) :
          Samples(i)[k] = longer[a] => a \in 1 .. Len(log) /\ longer[a] = log[a]
    BY <2>2, <2>4, <2>5
  <2>7. Before(Samples(i), longer)
    BY <1>0, <2>6 DEF Before
  <2>8. QED
    BY <2>7 DEF longer
<1>4. QED
  BY <1>2, <1>3

\* ... and when the next packet gets the next row.
LEMMA BeforeWrite ==
  ASSUME Types, OrderInv, NumberInv, FilesInv, RowsInv, [Next]_vars, NEW i \in Instruments,
         Samples(i)' # Samples(i)
  PROVE  Before(Samples(i)', accepted[i])
<1> DEFINE n == Len(Samples(i)) + 1
           s == Shard(i)
           u == Samples(i)
           v == Samples(i)'
           l == Len(processed[i]) + 1
           log == accepted[i]
<1>1. /\ u \in Seq(Cell) /\ Len(v) = n
      /\ \A j \in 1 .. Len(u) : v[j] = u[j]
      /\ \/ v[n] = Blank
         \/ /\ worker[s] = "appending" /\ column[s] = 1 /\ hand[s].dev = i /\ v[n] = hand[s]
  BY SamplesGrow
<1>2. s \in Shards /\ Before(u, log) /\ log \in Seq(PacketTask) /\ Len(log) \in Nat /\ l \in Nat
  BY ShardType, HistoryType DEF RowsInv
<1>3. \A a \in 1 .. Len(log) : log[a] \in PacketTask /\ log[a] # Blank
  BY <1>2, ConstantsAssumption
<1>4. v[n] \in PacketTask =>
        /\ log[l] = v[n] /\ l \in 1 .. Len(log)
        /\ \A k \in 1 .. Len(u) : u[k] \in PacketTask => \E a \in 1 .. Len(log) : u[k] = log[a] /\ a < l
  <2> SUFFICES ASSUME v[n] \in PacketTask
               PROVE  /\ log[l] = v[n] /\ l \in 1 .. Len(log)
                      /\ \A k \in 1 .. Len(u) : u[k] \in PacketTask =>
                           \E a \in 1 .. Len(log) : u[k] = log[a] /\ a < l
    OBVIOUS
  <2>1. worker[s] = "appending" /\ column[s] = 1 /\ hand[s].dev = i /\ v[n] = hand[s]
    BY <1>1, ConstantsAssumption
  <2>2. Len(processed[i]) < Len(log) /\ log[l] = hand[s]
    BY <1>2, <2>1, HandIsNext DEF Busy
  <2>3. l \in 1 .. Len(log)
    BY <1>2, <2>2, HistoryType
  <2>4. ASSUME NEW k \in 1 .. Len(u), u[k] \in PacketTask
        PROVE  \E a \in 1 .. Len(log) : u[k] = log[a] /\ a < l
    <3>1. PICK a \in 1 .. Len(log) : u[k] = log[a] /\ Begun(i, a)
      BY <2>4 DEF RowsInv, RowsBegun
    <3>2. a <= Len(processed[i])
      BY <2>1, <3>1 DEF Begun
    <3>3. a < l
      BY <3>2, HistoryType
    <3>4. QED
      BY <3>1, <3>3
  <2>5. QED
    BY <2>1, <2>2, <2>3, <2>4
<1>5. \A a, b \in 1 .. Len(log) : log[a] = log[b] => a = b
  BY AcceptedOnce
<1> HIDE DEF n, s, u, v, l, log
<1>6. Len(u) \in Nat /\ n = Len(u) + 1 /\ \A k \in 1 .. Len(v) : k \in 1 .. Len(u) \/ k = n
  <2>1. Len(u) \in Nat
    BY <1>1
  <2>2. QED
    <3>1. n = Len(u) + 1
      BY DEF n, u
    <3>2. QED
      BY <1>1, <2>1, <3>1
<1>7. ASSUME NEW a \in 1 .. Len(log), NEW b \in 1 .. Len(log), a <= b,
             NEW j \in 1 .. Len(v), NEW k \in 1 .. Len(v), v[j] = log[a], v[k] = log[b]
      PROVE  IF a = b THEN j = k ELSE j < k
  <2>1. v[j] \in PacketTask /\ v[k] \in PacketTask
    BY <1>3, <1>7
  <2>2. CASE j \in 1 .. Len(u) /\ k \in 1 .. Len(u)
    <3>1. u[j] = log[a] /\ u[k] = log[b]
      BY <1>1, <1>7, <2>2
    <3>2. QED
      BY <1>2, <1>7, <2>2, <3>1 DEF Before
  <2>3. CASE j = n /\ k = n
    <3>1. a = b
      BY <1>5, <1>7, <2>3
    <3>2. QED
      BY <2>3, <3>1
  <2>4. CASE j \in 1 .. Len(u) /\ k = n
    <3>1. u[j] = v[j] /\ u[j] \in PacketTask
      BY <1>1, <2>1, <2>4
    <3>2. PICK c \in 1 .. Len(log) : u[j] = log[c] /\ c < l
      BY <1>4, <2>1, <2>4, <3>1
    <3>3. c = a /\ l = b
      BY <1>4, <1>5, <1>7, <2>1, <2>4, <3>1, <3>2
    <3>4. a # b /\ j < k
      BY <1>6, <2>4, <3>2, <3>3
    <3>5. QED
      BY <3>4
  <2>5. CASE j = n /\ k \in 1 .. Len(u)
    <3>1. u[k] = v[k] /\ u[k] \in PacketTask
      BY <1>1, <2>1, <2>5
    <3>2. PICK c \in 1 .. Len(log) : u[k] = log[c] /\ c < l
      BY <1>4, <2>1, <2>5, <3>1
    <3>3. c = b /\ l = a
      BY <1>4, <1>5, <1>7, <2>1, <2>5, <3>1, <3>2
    <3>4. QED
      BY <1>7, <3>2, <3>3
  <2>6. QED
    BY <1>6, <2>2, <2>3, <2>4, <2>5
<1>8. Before(v, log)
  BY <1>7 DEF Before
<1>9. QED
  BY <1>8 DEF v, log
LEMMA RowsStep ==
  Types /\ OrderInv /\ NumberInv /\ FilesInv /\ RowsInv /\ [Next]_vars => RowsInv'
<1> SUFFICES ASSUME Types, OrderInv, NumberInv, FilesInv, RowsInv, [Next]_vars PROVE RowsInv'
  OBVIOUS
<1>1. RowsBegun'
  BY RowsBegunStep DEF RowsInv
<1>2. ASSUME NEW i \in Instruments PROVE Before(Samples(i)', accepted'[i])
  <2>1. CASE \E h \in Handlers : Put(h)
    <3>1. Samples(i)' = Samples(i)
      BY <2>1, HandlingFrame DEF Handling, Samples
    <3>2. QED
      BY <2>1, <3>1, BeforePut
  <2>2. CASE ~ \E h \in Handlers : Put(h)
    <3>1. accepted' = accepted
      <4>1. CASE \E h \in Handlers : Handling(h)
        BY <2>2, <4>1, HandlingFrame
      <4>2. CASE \E s \in Shards : Working(s)
        BY <4>2, WorkingFrame
      <4>3. CASE Closing
        BY <4>3, ClosingFrame
      <4>4. CASE UNCHANGED vars
        BY <4>4 DEF vars, history
      <4>5. QED
        BY <4>1, <4>2, <4>3, <4>4, NextSteps
    <3>2. CASE Samples(i)' = Samples(i)
      BY <3>1, <3>2 DEF RowsInv
    <3>3. CASE Samples(i)' # Samples(i)
      BY <3>1, <3>3, BeforeWrite
    <3>4. QED
      BY <3>2, <3>3
  <2>3. QED
    BY <2>1, <2>2
<1>3. QED
  BY <1>1, <1>2 DEF RowsInv, Samples

LEMMA RowsInit == Init => RowsInv
<1> SUFFICES ASSUME Init PROVE RowsInv
  OBVIOUS
<1>1. ASSUME NEW i \in Instruments, NEW k \in 1 .. Len(Samples(i)) PROVE Samples(i)[k] \notin PacketTask
  <2>0. "samples" \in Column /\ "samples" # "raw_packets"
    BY ColumnsFacts
  <2>1. CASE files[i] = NoRows
    <3>1. Samples(i) = << >>
      BY <2>0, <2>1 DEF NoRows, Samples
    <3>2. QED
      BY <3>1
  <2>2. ASSUME NEW old \in OldFiles, files[i] = OldFile(old) PROVE Samples(i)[k] \notin PacketTask
    <3>1. Samples(i) = [j \in 1 .. old.rows |-> Old]
      BY <2>0, <2>2 DEF OldFile, Samples
    <3>2. old.rows \in Nat /\ Old \notin PacketTask
      BY ConstantsAssumption
    <3>3. k \in 1 .. old.rows
      BY <3>1, <3>2
    <3>4. QED
      BY <3>1, <3>2, <3>3
  <2>3. QED
    BY <2>1, <2>2 DEF Init
<1>2. RowsBegun
  BY <1>1 DEF RowsBegun
<1>3. \A i \in Instruments : Before(Samples(i), accepted[i])
  BY DEF Init, Before
<1>4. QED
  BY <1>2, <1>3 DEF RowsInv

\* The rows of a file name packets that were begun, in the order of acceptance.
THEOREM RowsCorrect == Spec => []RowsInv
BY RowsInit, RowsStep, TypesCorrect, OrderCorrect, NumberCorrect, FilesCorrect, PTL DEF Spec

\* An instrument's rows are in the order of acceptance and no packet has two, with
\* any number of connections, failing writes and a shutdown in progress.
THEOREM WrittenInArrivalOrderCorrect == Spec => []WrittenInArrivalOrder
BY RowsInvOrder, RowsCorrect, PTL

-----------------------------------------------------------------------------
(* What was processed is stored. *)

\* Packet p has a complete row.
HasRow(f, p, k) ==
  /\ k \in 1 .. Len(f["samples"]) /\ f["samples"][k] = p
  /\ \A c \in Column : k <= Len(f[c]) /\ f[c][k] = p
StoredInv ==
  \A i \in Instruments : \A a \in 1 .. Len(processed[i]) :
    processed[i][a] \notin failed \cup broken => \E k \in Nat : HasRow(files[i], processed[i][a], k)

LEMMA StoredRows == StoredInv => ProcessedIsStored
<1> SUFFICES ASSUME StoredInv, NEW i \in Instruments, NEW a \in 1 .. Len(processed[i]),
                    processed[i][a] \notin failed \cup broken
             PROVE  \E k \in RowsOf(i, processed[i][a]) : \A c \in Column :
                      k <= Len(files[i][c]) /\ files[i][c][k] = processed[i][a]
  BY DEF ProcessedIsStored
<1>1. PICK k \in Nat : HasRow(files[i], processed[i][a], k)
  BY DEF StoredInv
<1>2. k \in RowsOf(i, processed[i][a])
  BY <1>1 DEF HasRow, RowsOf
<1>3. QED
  BY <1>1, <1>2 DEF HasRow

\* A complete row survives what is written, or not written, after it.
LEMMA RowSurvives ==
  ASSUME Types, OrderInv, NumberInv, FilesInv, [Next]_vars, NEW i \in Instruments,
         NEW a \in 1 .. Len(processed[i]), NEW k \in Nat, HasRow(files[i], processed[i][a], k)
  PROVE  HasRow(files'[i], processed[i][a], k)
<1> DEFINE p == processed[i][a]
<1>1. ASSUME NEW s \in Shards, Grows(s) PROVE HasRow(files'[i], p, k)
  <2> DEFINE d == hand[s].dev
             x == Columns[column[s]]
             n == RowOf(s)
             f == files[i]
             g == files'[i]
  <2>1. /\ d \in Instruments /\ Shard(d) = s /\ x \in Column /\ column[s] \in 1 .. 5
        /\ n \in Nat \ {0} /\ Len(files[d][x]) <= n /\ Len(files[d][x]) \in Nat
        /\ column[s] = 1 => n = Len(files[d]["samples"]) + 1
        /\ column[s] # 1 => EndsWith(files[d], n, column[s] - 1, hand[s])
        /\ Grown(files[d][x], files'[d][x], n, hand[s])
        /\ \A j \in Instruments, y \in Column : j # d \/ y # x => files'[j][y] = files[j][y]
        /\ \A j \in Instruments : j # d => files'[j] = files[j]
    BY <1>1, GrowsChange
  <2>2. CASE i # d
    BY <2>1, <2>2
  <2>3. CASE i = d
    <3>1. worker[s] \in Busy
      BY <1>1 DEF Grows, Busy
    <3>2. /\ Len(processed[i]) < Len(accepted[i])
          /\ accepted[i][Len(processed[i]) + 1] = hand[s]
      BY <2>3, <3>1, HandIsNext
    <3>3. p # hand[s]
      <4>1. accepted[i][a] = p
        BY DEF OrderInv, InOrder
      <4>2. /\ a \in 1 .. Len(accepted[i]) /\ Len(processed[i]) + 1 \in 1 .. Len(accepted[i])
            /\ a # Len(processed[i]) + 1
        BY <3>2, HistoryType
      <4>3. QED
        BY <3>2, <4>1, <4>2, AcceptedOnce
    <3>4. /\ k \in 1 .. Len(f["samples"]) /\ f["samples"][k] = p
          /\ \A c \in Column : k <= Len(f[c]) /\ f[c][k] = p
      BY DEF HasRow
    <3>5. k # n
      <4>1. CASE column[s] = 1
        BY <2>1, <2>3, <3>4, <4>1, FileType
      <4>2. CASE column[s] # 1
        <5>1. EndsWith(f, n, column[s] - 1, hand[s]) /\ 1 \in 1 .. column[s] - 1
          BY <2>1, <2>3, <4>2
        <5>2. f[Columns[1]][n] = hand[s]
          BY <5>1 DEF EndsWith
        <5>3. f["samples"][n] = hand[s]
          BY <5>2, ColumnsFacts
        <5>4. QED
          BY <3>3, <3>4, <5>3
      <4>3. QED
        BY <4>1, <4>2
    <3>6. k <= Len(f[x]) /\ Len(f[x]) <= n /\ Len(f[x]) \in Nat /\ k \in Nat /\ n \in Nat /\ k > 0
      BY <2>1, <2>3, <3>4
    <3>7. k \in 1 .. n
      BY <3>6
    <3>8. Len(g[x]) = n /\ g[x][k] = f[x][k] /\ f[x][k] = p
      BY <2>1, <2>3, <3>4, <3>5, <3>6, <3>7 DEF Grown
    <3>9. \A c \in Column : k <= Len(g[c]) /\ g[c][k] = p
      <4>1. ASSUME NEW c \in Column PROVE k <= Len(g[c]) /\ g[c][k] = p
        <5>1. CASE c = x
          BY <3>6, <3>8, <5>1
        <5>2. CASE c # x
          <6>1. g[c] = f[c]
            BY <2>1, <5>2
          <6>2. QED
            BY <3>4, <6>1
        <5>3. QED
          BY <5>1, <5>2
      <4>2. QED
        BY <4>1
    <3>10. "samples" \in Column /\ Len(g["samples"]) \in Nat
      <4>1. "samples" \in Column
        BY ColumnsFacts
      <4>2. CASE x = "samples"
        BY <2>1, <3>8, <4>1, <4>2
      <4>3. CASE x # "samples"
        BY <2>1, <4>1, <4>3, FileType
      <4>4. QED
        BY <4>1, <4>2, <4>3
    <3>11. k \in 1 .. Len(g["samples"]) /\ g["samples"][k] = p
      BY <3>6, <3>9, <3>10
    <3>12. QED
      BY <3>9, <3>11 DEF HasRow
  <2>4. QED
    BY <2>2, <2>3
<1>2. QED
  BY <1>1, FilesFrame

\* A packet that was flushed has a complete row.
LEMMA FlushStores ==
  ASSUME Types, FilesInv, NEW s \in Shards, Flush(s)
  PROVE  HasRow(files'[hand[s].dev], hand[s], Row(s)) /\ Row(s) \in Nat
<1> DEFINE f == files[hand[s].dev]
<1>1. /\ worker[s] = "appending" /\ column[s] > 5 /\ files' = files /\ column[s] \in 1 .. 6
  BY ColumnsFacts DEF Flush, store, Types, WorkersOK
<1>2. column[s] > 1 /\ column[s] - 1 = 5
  BY <1>1
<1>3. EndsWith(f, Row(s), 5, hand[s])
  BY <1>1, <1>2 DEF FilesInv, RowInv
<1>4. hand[s].dev \in Instruments
  BY <1>1, HandType DEF Busy
<1>5. Row(s) \in Nat /\ "samples" \in Column
  BY <1>4, FileType DEF Row
<1>6. \A c \in Column : Len(f[c]) = Row(s) /\ f[c][Row(s)] = hand[s]
  BY <1>3, ColumnsFacts DEF EndsWith
<1>7. Row(s) > 0
  BY <1>3 DEF EndsWith
<1> DEFINE n == Row(s)
<1> HIDE DEF f, n
<1>8. n \in 1 .. Len(f["samples"])
  BY <1>5, <1>6, <1>7 DEF n
<1>9. HasRow(f, hand[s], n)
  BY <1>5, <1>6, <1>8 DEF HasRow, n
<1>10. QED
  BY <1>1, <1>5, <1>9 DEF f, n

LEMMA StoredStep ==
  Types /\ OrderInv /\ NumberInv /\ FilesInv /\ StoredInv /\ [Next]_vars => StoredInv'
<1> SUFFICES ASSUME Types, OrderInv, NumberInv, FilesInv, StoredInv, [Next]_vars,
                    NEW i \in Instruments, NEW a \in 1 .. Len(processed'[i]),
                    processed'[i][a] \notin failed' \cup broken'
             PROVE  \E k \in Nat : HasRow(files'[i], processed'[i][a], k)
  BY DEF StoredInv
<1>0. processed[i] \in Seq(PacketTask) /\ Len(processed[i]) \in Nat
  BY HistoryType
<1>1. ASSUME a \in 1 .. Len(processed[i]), processed'[i][a] = processed[i][a],
             failed \subseteq failed', broken \subseteq broken'
      PROVE  \E k \in Nat : HasRow(files'[i], processed'[i][a], k)
  <2>1. PICK k \in Nat : HasRow(files[i], processed[i][a], k)
    BY <1>1 DEF StoredInv
  <2>2. QED
    BY <1>1, <2>1, RowSurvives
<1>2. ASSUME UNCHANGED <<processed, failed, broken>>
      PROVE  \E k \in Nat : HasRow(files'[i], processed'[i][a], k)
  BY <1>1, <1>2
<1>3. ASSUME NEW s \in Shards, Finished(s)
      PROVE  \E k \in Nat : HasRow(files'[i], processed'[i][a], k)
  <2> DEFINE p == hand[s]
  <2>1. /\ p \in PacketTask /\ p.dev \in Instruments
        /\ processed' = [processed EXCEPT ![p.dev] = Append(processed[p.dev], p)]
    BY <1>3, FinishedLine
  <2>2. failed \subseteq failed' /\ broken \subseteq broken'
    BY <1>3 DEF Finished, Flush, Raises, ColumnMissing
  <2>3. CASE p.dev # i
    <3>1. processed'[i] = processed[i]
      BY <2>1, <2>3 DEF Types, HistoryOK
    <3>2. QED
      BY <1>1, <2>2, <3>1
  <2>4. CASE p.dev = i
    <3>1. processed'[i] = Append(processed[i], p)
      BY <2>1, <2>4 DEF Types, HistoryOK
    <3>2. /\ Len(processed'[i]) = Len(processed[i]) + 1
          /\ processed'[i][Len(processed[i]) + 1] = p
          /\ \A b \in 1 .. Len(processed[i]) : processed'[i][b] = processed[i][b]
      BY <1>0, <2>1, <3>1
    <3>3. CASE a \in 1 .. Len(processed[i])
      BY <1>1, <2>2, <3>2, <3>3
    <3>4. CASE a = Len(processed[i]) + 1
      <4>1. ~ Raises(s) /\ ~ ColumnMissing(s)
        BY <3>2, <3>4 DEF Raises, ColumnMissing
      <4>2. Flush(s)
        BY <1>3, <4>1 DEF Finished
      <4>3. HasRow(files'[i], p, Row(s)) /\ Row(s) \in Nat
        BY <2>4, <4>2, FlushStores
      <4>4. QED
        BY <3>2, <3>4, <4>3
    <3>5. QED
      BY <1>0, <3>2, <3>3, <3>4
  <2>5. QED
    BY <2>3, <2>4
<1>4. QED
  <2>1. CASE \E h \in Handlers : Handling(h)
    BY <1>2, <2>1, HandlingFrame
  <2>2. CASE \E s \in Shards : Working(s)
    BY <1>2, <1>3, <2>2, WorkingFrame
  <2>3. CASE Closing
    BY <1>2, <2>3, ClosingFrame
  <2>4. CASE UNCHANGED vars
    BY <1>2, <2>4 DEF vars, history
  <2>5. QED
    BY <2>1, <2>2, <2>3, <2>4, NextSteps

\* A packet that was processed without an error has a complete row, and keeps it
\* whatever fails after it.
THEOREM ProcessedIsStoredCorrect == Spec => []ProcessedIsStored
<1>1. Init => StoredInv
  BY DEF Init, StoredInv
<1>2. QED
  BY <1>1, StoredStep, StoredRows, TypesCorrect, OrderCorrect, NumberCorrect, FilesCorrect, PTL
  DEF Spec
=============================================================================
