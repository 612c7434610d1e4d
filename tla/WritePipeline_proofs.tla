----------------------- MODULE WritePipeline_proofs -----------------------
(***************************************************************************)
(* Proofs about WritePipeline, for every number of connections, devices,   *)
(* shards and packets and every queue size.                                *)
(***************************************************************************)
EXTENDS WritePipeline, TLAPS, SequenceTheorems

\* There is at least one worker, and each shard index is a natural number.
LEMMA WorkerCountPositive == WorkerCount \in Nat \ {0}
BY ConstantsAssumption DEF WorkerCount, AtLeastOne

\* submit() always finds a queue: crc32 modulo the worker count is a shard.
LEMMA ShardOfType == \A t \in Task : ShardOf(t) \in Shards
<1> SUFFICES ASSUME NEW t \in Task PROVE ShardOf(t) \in Shards
  OBVIOUS
<1>1. Crc32[t.dev] \in Nat
  BY ConstantsAssumption DEF Task
<1>2. QED
  BY <1>1, WorkerCountPositive DEF ShardOf, Shards

\* A queue has room for at least one packet.
LEMMA PerShardType == PerShard \in Nat \ {0}
<1>1. AtLeastOne(WriteQueueMaxPackets) + WorkerCount - 1 \in Int
  BY ConstantsAssumption, WorkerCountPositive DEF AtLeastOne
<1>2. (AtLeastOne(WriteQueueMaxPackets) + WorkerCount - 1) \div WorkerCount \in Int
  BY <1>1, WorkerCountPositive
<1>3. QED
  BY <1>2 DEF PerShard, AtLeastOne

\* Initially the state is well typed.
LEMMA InitTypeOK == Init => TypeOK
<1> SUFFICES ASSUME Init PROVE TypeOK
  OBVIOUS
<1>1. HandlersOK
  BY ConstantsAssumption DEF Init, HandlersOK, Item
<1>2. QueuesOK
  BY PerShardType DEF Init, QueuesOK
<1>3. WorkersOK
  BY DEF Init, WorkersOK, HasPacket, Item
<1>4. CloserOK
  BY WorkerCountPositive DEF Init, CloserOK
<1>5. FlagsOK
  BY DEF Init, FlagsOK
<1>6. HistoryOK
  BY DEF Init, HistoryOK
<1>7. QED
  BY <1>1, <1>2, <1>3, <1>4, <1>5, <1>6 DEF TypeOK

\* No step of a connection, a worker or the main thread breaks the types of the
\* connection threads' state.
LEMMA HandlersOKStep == TypeOK /\ [Next]_vars => HandlersOK'
<1> SUFFICES ASSUME TypeOK, [Next]_vars PROVE HandlersOK'
  OBVIOUS
<1> USE DEF TypeOK, HandlersOK, handlerVars
<1>1. ASSUME NEW h \in Handlers, Receive(h) PROVE HandlersOK'
  BY <1>1, ConstantsAssumption DEF Receive, Item, Task
<1>2. ASSUME NEW h \in Handlers, PassStoppingCheck(h) PROVE HandlersOK'
  BY <1>2 DEF PassStoppingCheck
<1>3. ASSUME NEW h \in Handlers, Refuse(h) PROVE HandlersOK'
  BY <1>3 DEF Refuse, Item
<1>4. ASSUME NEW h \in Handlers, Put(h) PROVE HandlersOK'
  BY <1>4 DEF Put, Item
<1>5. ASSUME NEW h \in Handlers, PutTimesOut(h) PROVE HandlersOK'
  BY <1>5 DEF PutTimesOut
<1>6. CASE UNCHANGED handlerVars
  BY <1>6
<1>7. ASSUME NEW s \in Shards, Work(s) PROVE UNCHANGED handlerVars
  BY <1>7 DEF Work, Get, InsertPacket, InsertRaises, QuarantinePacket, QuarantineRaises, TaskDone,
             WorkerDies, Settle
<1>8. CloseBegin \/ DeadlinePasses \/ Closing \/ Killed => UNCHANGED handlerVars
  BY DEF CloseBegin, DeadlinePasses, Closing, DrainShard, DrainEnds, TryMarker, PutMarker,
         MarkerTimesOut, JoinWorkers, ProcessExits, Killed
<1>9. QED
  BY <1>1, <1>2, <1>3, <1>4, <1>5, <1>6, <1>7, <1>8 DEF Next, Submitting, vars

\* Steps of the main thread, as one definition to expand.
LEMMA ClosingFrame ==
  CloseBegin \/ DeadlinePasses \/ Closing \/ Killed =>
    /\ UNCHANGED <<handlerVars, workerVars, accepted, settled, late, refused>>
    /\ ~PutMarker => UNCHANGED <<queue, unfinished>>
BY DEF CloseBegin, DeadlinePasses, Closing, DrainShard, DrainEnds, TryMarker, PutMarker,
       MarkerTimesOut, JoinWorkers, ProcessExits, Killed

\* Queues stay within their bound: put() and the marker respect maxsize.
LEMMA QueuesOKStep == TypeOK /\ [Next]_vars => QueuesOK'
<1> SUFFICES ASSUME TypeOK, [Next]_vars PROVE QueuesOK'
  OBVIOUS
<1> USE DEF TypeOK, QueuesOK
<1>0. Task \subseteq Item /\ None \in Item
  BY DEF Item
<1>1. ASSUME NEW h \in Handlers, Put(h) PROVE QueuesOK'
  <2> DEFINE s == ShardOf(pending[h])
  <2>1. pending[h] \in Task /\ s \in Shards
    BY <1>1, ShardOfType DEF Put, HandlersOK
  <2>2. queue[s] \in Seq(Item) /\ Len(queue[s]) < PerShard
    BY <1>1, <2>1, PerShardType DEF Put, Full
  <2>3. /\ Append(queue[s], pending[h]) \in Seq(Item)
        /\ Len(Append(queue[s], pending[h])) <= PerShard
    BY <1>0, <2>1, <2>2, PerShardType
  <2>4. /\ queue' = [queue EXCEPT ![s] = Append(queue[s], pending[h])]
        /\ unfinished' = [unfinished EXCEPT ![s] = unfinished[s] + 1]
    BY <1>1 DEF Put
  <2>5. QED
    BY <2>1, <2>3, <2>4
<1>2. ASSUME NEW s \in Shards, Get(s) PROVE QueuesOK'
  <2>1. /\ queue[s] \in Seq(Item) /\ queue[s] # << >>
        /\ queue' = [queue EXCEPT ![s] = Tail(queue[s])]
        /\ unfinished' = unfinished
    BY <1>2 DEF Get
  <2>2. Tail(queue[s]) \in Seq(Item) /\ Len(Tail(queue[s])) = Len(queue[s]) - 1
    BY <2>1, HeadTailProperties
  <2>3. Len(queue[s]) \in Nat /\ Len(queue[s]) <= PerShard
    BY <2>1
  <2>4. QED
    BY <2>1, <2>2, <2>3, PerShardType
<1>3. ASSUME NEW s \in Shards, TaskDone(s) \/ WorkerDies(s) PROVE QueuesOK'
  BY <1>3 DEF TaskDone, WorkerDies
<1>4. CASE PutMarker
  <2>1. at \in Shards
    BY <1>4, WorkerCountPositive DEF PutMarker, CloserOK, Shards
  <2>2. queue[at] \in Seq(Item) /\ Len(queue[at]) < PerShard
    BY <1>4, <2>1, PerShardType DEF PutMarker, Full
  <2>3. /\ Append(queue[at], None) \in Seq(Item)
        /\ Len(Append(queue[at], None)) <= PerShard
    BY <1>0, <2>2, PerShardType
  <2>4. /\ queue' = [queue EXCEPT ![at] = Append(queue[at], None)]
        /\ unfinished' = [unfinished EXCEPT ![at] = unfinished[at] + 1]
    BY <1>4 DEF PutMarker
  <2>5. QED
    BY <2>1, <2>3, <2>4
<1>5. CASE UNCHANGED <<queue, unfinished>>
  BY <1>5
<1>6. ASSUME NEW h \in Handlers, Receive(h) \/ PassStoppingCheck(h) \/ Refuse(h) \/ PutTimesOut(h)
      PROVE UNCHANGED <<queue, unfinished>>
  BY <1>6 DEF Receive, PassStoppingCheck, Refuse, PutTimesOut
<1>7. ASSUME NEW s \in Shards,
             InsertPacket(s) \/ InsertRaises(s) \/ QuarantinePacket(s) \/ QuarantineRaises(s)
      PROVE UNCHANGED <<queue, unfinished>>
  BY <1>7 DEF InsertPacket, InsertRaises, QuarantinePacket, QuarantineRaises, Settle
<1>8. QED
  BY <1>1, <1>2, <1>3, <1>4, <1>5, <1>6, <1>7, ClosingFrame DEF Next, Submitting, Work, vars

\* A worker that is writing or quarantining, or died of it, always has a packet, not
\* the marker, in its hand.
LEMMA WorkersOKStep == TypeOK /\ [Next]_vars => WorkersOK'
<1> SUFFICES ASSUME TypeOK, [Next]_vars PROVE WorkersOK'
  OBVIOUS
<1> USE DEF TypeOK, WorkersOK, HasPacket, workerVars, Item
<1>1. ASSUME NEW s \in Shards, Get(s) PROVE WorkersOK'
  <2>1. queue[s] \in Seq(Item) /\ queue[s] # << >>
    BY <1>1 DEF Get, QueuesOK
  <2>2. Head(queue[s]) \in Item
    BY <2>1
  <2>3. QED
    BY <1>1, <2>2 DEF Get
<1>2. ASSUME NEW s \in Shards, InsertPacket(s) PROVE WorkersOK'
  BY <1>2 DEF InsertPacket, Settle
<1>3. ASSUME NEW s \in Shards, InsertRaises(s) PROVE WorkersOK'
  BY <1>3 DEF InsertRaises
<1>4. ASSUME NEW s \in Shards, QuarantinePacket(s) PROVE WorkersOK'
  BY <1>4 DEF QuarantinePacket, Settle
<1>5. ASSUME NEW s \in Shards, TaskDone(s) PROVE WorkersOK'
  BY <1>5 DEF TaskDone
<1>51. ASSUME NEW s \in Shards, QuarantineRaises(s) PROVE WorkersOK'
  BY <1>51 DEF QuarantineRaises
<1>52. ASSUME NEW s \in Shards, WorkerDies(s) PROVE WorkersOK'
  BY <1>52 DEF WorkerDies
<1>6. CASE UNCHANGED workerVars
  BY <1>6
<1>7. ASSUME NEW h \in Handlers, Receive(h) \/ Submitting(h) PROVE UNCHANGED workerVars
  BY <1>7 DEF Receive, Submitting, PassStoppingCheck, Refuse, Put, PutTimesOut
<1>8. QED
  BY <1>1, <1>2, <1>3, <1>4, <1>5, <1>51, <1>52, <1>6, <1>7, ClosingFrame DEF Next, Work, vars

\* Only the main thread moves through close(), one shard index after the other.
LEMMA CloserOKStep == TypeOK /\ [Next]_vars => CloserOK'
<1> SUFFICES ASSUME TypeOK, [Next]_vars PROVE CloserOK'
  OBVIOUS
<1> USE WorkerCountPositive DEF TypeOK, CloserOK
<1>1. CASE CloseBegin
  BY <1>1 DEF CloseBegin
<1>2. CASE DrainShard
  BY <1>2 DEF DrainShard
<1>3. CASE DrainEnds
  BY <1>3 DEF DrainEnds
<1>4. CASE TryMarker
  <2>1. CASE expired
    BY <1>4, <2>1 DEF TryMarker
  <2>2. CASE ~expired
    BY <1>4, <2>2 DEF TryMarker
  <2>3. QED
    BY <2>1, <2>2
<1>5. CASE PutMarker
  <2>1. closer = "markerput" /\ closer' = "marking" /\ at' = at + 1
    BY <1>5 DEF PutMarker
  <2>2. at \in 0 .. WorkerCount /\ at < WorkerCount
    BY <2>1
  <2>3. at' \in 0 .. WorkerCount
    BY <2>1, <2>2
  <2>4. QED
    BY <2>1, <2>3
<1>6. CASE MarkerTimesOut
  BY <1>6 DEF MarkerTimesOut
<1>7. CASE JoinWorkers
  BY <1>7 DEF JoinWorkers
<1>8. CASE ProcessExits \/ Killed
  BY <1>8 DEF ProcessExits, Killed
<1>9. CASE UNCHANGED <<closer, at>>
  BY <1>9
<1>10. DeadlinePasses => UNCHANGED <<closer, at>>
  BY DEF DeadlinePasses
<1>11. ASSUME NEW h \in Handlers, Receive(h) \/ Submitting(h) PROVE UNCHANGED <<closer, at>>
  BY <1>11 DEF Receive, Submitting, PassStoppingCheck, Refuse, Put, PutTimesOut, closeVars
<1>12. ASSUME NEW s \in Shards, Work(s) PROVE UNCHANGED <<closer, at>>
  BY <1>12 DEF Work, Get, InsertPacket, InsertRaises, QuarantinePacket, QuarantineRaises, TaskDone,
             WorkerDies, Settle, closeVars
<1>13. QED
  BY <1>1, <1>2, <1>3, <1>4, <1>5, <1>6, <1>7, <1>8, <1>9, <1>10, <1>11, <1>12
     DEF Next, Closing, vars, closeVars

\* `stopping` is set once, by the first step of close().
LEMMA FlagsOKStep == TypeOK /\ [Next]_vars => FlagsOK'
<1> SUFFICES ASSUME TypeOK, [Next]_vars PROVE FlagsOK'
  OBVIOUS
<1> USE DEF TypeOK, FlagsOK, CloserOK
<1>1. CASE CloseBegin
  BY <1>1 DEF CloseBegin
<1>2. CASE DeadlinePasses
  BY <1>2 DEF DeadlinePasses
<1>3. CASE Closing
  <2>1. UNCHANGED <<stopping, expired>> /\ closer \notin {"serving", "killed"} /\ closer' # "serving"
    BY <1>3 DEF Closing, DrainShard, DrainEnds, TryMarker, PutMarker, MarkerTimesOut,
                JoinWorkers, ProcessExits
  <2>2. QED
    BY <2>1
<1>4. CASE Killed
  BY <1>4 DEF Killed
<1>5. CASE UNCHANGED closeVars
  BY <1>5 DEF closeVars
<1>6. ASSUME NEW h \in Handlers, Receive(h) \/ Submitting(h) PROVE UNCHANGED closeVars
  BY <1>6 DEF Receive, Submitting, PassStoppingCheck, Refuse, Put, PutTimesOut
<1>7. ASSUME NEW s \in Shards, Work(s) PROVE UNCHANGED closeVars
  BY <1>7 DEF Work, Get, InsertPacket, InsertRaises, QuarantinePacket, QuarantineRaises, TaskDone,
             WorkerDies, Settle
<1>8. QED
  BY <1>1, <1>2, <1>3, <1>4, <1>5, <1>6, <1>7 DEF Next, vars

\* Only packets enter the histories, never the marker.
LEMMA HistoryOKStep == TypeOK /\ [Next]_vars => HistoryOK'
<1> SUFFICES ASSUME TypeOK, [Next]_vars PROVE HistoryOK'
  OBVIOUS
<1> USE DEF TypeOK, HistoryOK
<1>1. ASSUME NEW h \in Handlers, Put(h) PROVE HistoryOK'
  <2>1. pending[h] \in Task /\ pending[h].dev \in Devices
    BY <1>1 DEF Put, HandlersOK, Task
  <2>2. QED
    BY <1>1, <2>1 DEF Put
<1>2. ASSUME NEW h \in Handlers, Refuse(h) PROVE HistoryOK'
  BY <1>2 DEF Refuse, HandlersOK
<1>3. ASSUME NEW s \in Shards, InsertPacket(s) \/ QuarantinePacket(s) PROVE HistoryOK'
  <2>1. hand[s] \in Task /\ hand[s].dev \in Devices
    BY <1>3 DEF InsertPacket, QuarantinePacket, WorkersOK, HasPacket, Task
  <2>2. /\ settled' = [settled EXCEPT ![hand[s].dev] = Append(settled[hand[s].dev], hand[s])]
        /\ UNCHANGED <<accepted, late, refused>>
    BY <1>3 DEF InsertPacket, QuarantinePacket, Settle
  <2>3. QED
    BY <2>1, <2>2
<1>4. CASE UNCHANGED <<accepted, settled, late, refused>>
  BY <1>4
<1>5. ASSUME NEW h \in Handlers, Receive(h) \/ PassStoppingCheck(h) \/ PutTimesOut(h)
      PROVE UNCHANGED <<accepted, settled, late, refused>>
  BY <1>5 DEF Receive, PassStoppingCheck, PutTimesOut
<1>6. ASSUME NEW s \in Shards,
             Get(s) \/ InsertRaises(s) \/ QuarantineRaises(s) \/ TaskDone(s) \/ WorkerDies(s)
      PROVE UNCHANGED <<accepted, settled, late, refused>>
  BY <1>6 DEF Get, InsertRaises, QuarantineRaises, TaskDone, WorkerDies
<1>7. QED
  BY <1>1, <1>2, <1>3, <1>4, <1>5, <1>6, ClosingFrame DEF Next, Submitting, Work, vars

\* Every reachable state is well typed, for any number of connections, devices,
\* writer threads and queue slots.
THEOREM TypeCorrect == Spec => []TypeOK
<1>1. TypeOK /\ [Next]_vars => TypeOK'
  BY HandlersOKStep, QueuesOKStep, WorkersOKStep, CloserOKStep, FlagsOKStep, HistoryOKStep
     DEF TypeOK
<1>2. QED
  BY <1>1, InitTypeOK, PTL DEF Spec

-----------------------------------------------------------------------------
(* unfinished_tasks. *)

\* What close() polls counts exactly the items queued or in a worker's hand, so
\* a shard it finds drained is drained.
THEOREM UnfinishedCorrect == Spec => []UnfinishedCounts
<1>1. Init => UnfinishedCounts
  BY DEF Init, UnfinishedCounts, InWork
<1>2. TypeOK /\ UnfinishedCounts /\ [Next]_vars => UnfinishedCounts'
  <2> SUFFICES ASSUME TypeOK, UnfinishedCounts, [Next]_vars PROVE UnfinishedCounts'
    OBVIOUS
  <2>0. /\ queue \in [Shards -> Seq(Item)]
        /\ unfinished \in [Shards -> Int]
        /\ worker \in [Shards -> {"getting", "inserting", "quarantining", "raising", "finishing",
                                  "exited", "died"}]
    BY DEF TypeOK, QueuesOK, WorkersOK
  <2>1. ASSUME NEW h \in Handlers, Put(h) PROVE UnfinishedCounts'
    <3> DEFINE s == ShardOf(pending[h])
    <3>1. pending[h] \in Item /\ s \in Shards
      BY <2>1, ShardOfType DEF Put, TypeOK, HandlersOK, Item
    <3>2. Len(Append(queue[s], pending[h])) = Len(queue[s]) + 1
      BY <2>0, <3>1
    <3>3. /\ queue' = [queue EXCEPT ![s] = Append(queue[s], pending[h])]
          /\ unfinished' = [unfinished EXCEPT ![s] = unfinished[s] + 1]
          /\ worker' = worker
      BY <2>1 DEF Put, workerVars
    <3>4. \A r \in Shards : Len(queue'[r]) = IF r = s THEN Len(queue[r]) + 1 ELSE Len(queue[r])
      BY <2>0, <3>1, <3>2, <3>3
    <3>5. \A r \in Shards : Len(queue[r]) \in Nat
      BY <2>0
    <3>6. \A r \in Shards : InWork(r)' = InWork(r) /\ InWork(r) \in {0, 1}
      BY <3>3 DEF InWork
    <3>7. \A r \in Shards : /\ unfinished[r] \in Int
                            /\ unfinished'[r] = IF r = s THEN unfinished[r] + 1 ELSE unfinished[r]
      BY <2>0, <3>1, <3>3
    <3>8. QED
      BY <3>4, <3>5, <3>6, <3>7 DEF UnfinishedCounts
  <2>2. ASSUME NEW s \in Shards, Get(s) PROVE UnfinishedCounts'
    <3>1. queue[s] \in Seq(Item) /\ queue[s] # << >>
      BY <2>0, <2>2 DEF Get
    <3>2. Len(Tail(queue[s])) = Len(queue[s]) - 1 /\ Len(queue[s]) \in Nat
      BY <3>1, HeadTailProperties
    <3>3. /\ queue' = [queue EXCEPT ![s] = Tail(queue[s])]
          /\ unfinished' = unfinished
          /\ worker[s] = "getting"
          /\ worker' = [worker EXCEPT ![s] = worker'[s]]
          /\ worker'[s] \in {"finishing", "inserting"}
      BY <2>0, <2>2 DEF Get
    <3>4. \A r \in Shards : Len(queue'[r]) = IF r = s THEN Len(queue[r]) - 1 ELSE Len(queue[r])
      BY <2>0, <3>2, <3>3
    <3>5. \A r \in Shards : Len(queue[r]) \in Nat
      BY <2>0
    <3>6. \A r \in Shards : InWork(r) \in {0, 1}
                           /\ InWork(r)' = IF r = s THEN InWork(r) + 1 ELSE InWork(r)
      <4>1. InWork(s) = 0 /\ InWork(s)' = 1
        BY <2>0, <3>3 DEF InWork
      <4>2. \A r \in Shards \ {s} : InWork(r)' = InWork(r)
        BY <2>0, <3>3 DEF InWork
      <4>3. \A r \in Shards : InWork(r) \in {0, 1}
        BY DEF InWork
      <4>4. QED
        BY <4>1, <4>2, <4>3
    <3>7. \A r \in Shards : unfinished[r] \in Int /\ unfinished'[r] = unfinished[r]
      BY <2>0, <3>3
    <3>8. QED
      BY <3>4, <3>5, <3>6, <3>7 DEF UnfinishedCounts
  <2>3. ASSUME NEW s \in Shards, TaskDone(s) \/ WorkerDies(s) PROVE UnfinishedCounts'
    <3>1. /\ queue' = queue
          /\ unfinished' = [unfinished EXCEPT ![s] = unfinished[s] - 1]
          /\ worker[s] \in {"finishing", "raising"}
          /\ worker' = [worker EXCEPT ![s] = worker'[s]]
          /\ worker'[s] \in {"exited", "getting", "died"}
      BY <2>0, <2>3 DEF TaskDone, WorkerDies
    <3>2. \A r \in Shards : InWork(r) \in {0, 1}
                           /\ InWork(r)' = IF r = s THEN InWork(r) - 1 ELSE InWork(r)
      <4>1. InWork(s) = 1 /\ InWork(s)' = 0
        BY <2>0, <3>1 DEF InWork
      <4>2. \A r \in Shards \ {s} : InWork(r)' = InWork(r)
        BY <2>0, <3>1 DEF InWork
      <4>3. \A r \in Shards : InWork(r) \in {0, 1}
        BY DEF InWork
      <4>4. QED
        BY <4>1, <4>2, <4>3
    <3>3. \A r \in Shards : Len(queue[r]) \in Nat
      BY <2>0
    <3>4. \A r \in Shards : /\ unfinished[r] \in Int
                            /\ unfinished'[r] = IF r = s THEN unfinished[r] - 1 ELSE unfinished[r]
      BY <2>0, <3>1
    <3>5. QED
      BY <3>1, <3>2, <3>3, <3>4 DEF UnfinishedCounts
  <2>4. ASSUME NEW s \in Shards,
               InsertPacket(s) \/ InsertRaises(s) \/ QuarantinePacket(s) \/ QuarantineRaises(s)
        PROVE UnfinishedCounts'
    <3>1. /\ queue' = queue /\ unfinished' = unfinished
          /\ worker[s] \in {"inserting", "quarantining"}
          /\ worker' = [worker EXCEPT ![s] = worker'[s]]
          /\ worker'[s] \in {"finishing", "quarantining", "raising"}
      BY <2>0, <2>4 DEF InsertPacket, InsertRaises, QuarantinePacket, QuarantineRaises, Settle
    <3>2. \A r \in Shards : InWork(r)' = InWork(r)
      BY <2>0, <3>1 DEF InWork
    <3>3. QED
      BY <3>1, <3>2 DEF UnfinishedCounts
  <2>5. CASE PutMarker
    <3>1. at \in Shards
      BY <2>5, WorkerCountPositive DEF PutMarker, TypeOK, CloserOK, Shards
    <3>2. Len(Append(queue[at], None)) = Len(queue[at]) + 1
      BY <2>0, <3>1 DEF Item
    <3>3. /\ queue' = [queue EXCEPT ![at] = Append(queue[at], None)]
          /\ unfinished' = [unfinished EXCEPT ![at] = unfinished[at] + 1]
          /\ worker' = worker
      BY <2>5 DEF PutMarker, workerVars
    <3>4. \A r \in Shards : Len(queue'[r]) = IF r = at THEN Len(queue[r]) + 1 ELSE Len(queue[r])
      BY <2>0, <3>1, <3>2, <3>3
    <3>5. \A r \in Shards : Len(queue[r]) \in Nat
      BY <2>0
    <3>6. \A r \in Shards : InWork(r)' = InWork(r) /\ InWork(r) \in {0, 1}
      BY <3>3 DEF InWork
    <3>7. \A r \in Shards : /\ unfinished[r] \in Int
                            /\ unfinished'[r] = IF r = at THEN unfinished[r] + 1 ELSE unfinished[r]
      BY <2>0, <3>1, <3>3
    <3>8. QED
      BY <3>4, <3>5, <3>6, <3>7 DEF UnfinishedCounts
  <2>6. CASE UNCHANGED <<queue, unfinished, worker>>
    BY <2>6 DEF UnfinishedCounts, InWork
  <2>7. ASSUME NEW h \in Handlers, Receive(h) \/ PassStoppingCheck(h) \/ Refuse(h) \/ PutTimesOut(h)
        PROVE UNCHANGED <<queue, unfinished, worker>>
    BY <2>7 DEF Receive, PassStoppingCheck, Refuse, PutTimesOut, workerVars
  <2>8. QED
    BY <2>1, <2>2, <2>3, <2>4, <2>5, <2>6, <2>7, ClosingFrame
       DEF Next, Submitting, Work, vars, workerVars
<1>3. QED
  BY <1>1, <1>2, TypeCorrect, PTL DEF Spec

-----------------------------------------------------------------------------
(* How the steps change a shard's line. *)

\* A line is a sequence of items.
LEMMA LineType == TypeOK => \A s \in Shards : Line(s) \in Seq(Item) /\ Len(Line(s)) \in Nat
<1> SUFFICES ASSUME TypeOK, NEW s \in Shards PROVE Line(s) \in Seq(Item)
  OBVIOUS
<1>1. queue[s] \in Seq(Item)
  BY DEF TypeOK, QueuesOK
<1>2. hand[s] \in Item
  BY DEF TypeOK, WorkersOK
<1>3. <<hand[s]>> \in Seq(Item)
  BY <1>2
<1>4. <<hand[s]>> \o queue[s] \in Seq(Item)
  BY <1>1, <1>3
<1>5. QED
  BY <1>1, <1>4 DEF Line, HasPacket

\* The same as a state predicate, to be used about the state after a step.
LinesOK == \A s \in Shards : Line(s) \in Seq(Item) /\ Len(Line(s)) \in Nat

\* Lines are sequences of items in every well-typed state.
LEMMA LinesOKHolds == TypeOK => LinesOK
BY LineType DEF LinesOK

\* ... and in the state after a step.
LEMMA LinesOKNext == TypeOK' => LinesOK'
BY LinesOKHolds, PTL

\* Appending commutes with putting an item in front.
LEMMA AppendToLine ==
  ASSUME NEW x \in Item, NEW q \in Seq(Item), NEW t \in Item
  PROVE  Append(<<x>> \o q, t) = <<x>> \o Append(q, t)
<1>1. <<x>> \in Seq(Item) /\ <<t>> \in Seq(Item) /\ <<x>> \o q \in Seq(Item)
  OBVIOUS
<1>2. Append(q, t) = q \o <<t>>
  BY AppendIsConcat
<1>3. Append(<<x>> \o q, t) = (<<x>> \o q) \o <<t>>
  BY <1>1, AppendIsConcat
<1>4. (<<x>> \o q) \o <<t>> = <<x>> \o (q \o <<t>>)
  BY <1>1, ConcatAssociative
<1>5. QED
  BY <1>2, <1>3, <1>4, Zenon

\* put() appends the packet to the line of its shard.
LEMMA LinePut ==
  ASSUME TypeOK, NEW h \in Handlers, Put(h), NEW s \in Shards
  PROVE  /\ pending[h] \in Task
         /\ Line(s)' = IF s = ShardOf(pending[h]) THEN Append(Line(s), pending[h]) ELSE Line(s)
<1> DEFINE t == pending[h]
<1>1. t \in Task /\ t \in Item
  BY DEF Put, TypeOK, HandlersOK, Item
<1>2. queue[s] \in Seq(Item) /\ hand[s] \in Item
  BY DEF TypeOK, QueuesOK, WorkersOK
<1>3. /\ queue' = [queue EXCEPT ![ShardOf(t)] = Append(queue[ShardOf(t)], t)]
      /\ worker' = worker /\ hand' = hand
      /\ queue \in [Shards -> Seq(Item)]
  BY DEF Put, workerVars, TypeOK, QueuesOK
<1>4. Append(<<hand[s]>> \o queue[s], t) = <<hand[s]>> \o Append(queue[s], t)
  BY <1>1, <1>2, AppendToLine
<1>5. queue'[s] = IF s = ShardOf(t) THEN Append(queue[s], t) ELSE queue[s]
  BY <1>3
<1>6. CASE s = ShardOf(t)
  <2>1. queue'[s] = Append(queue[s], t) /\ worker'[s] = worker[s] /\ hand'[s] = hand[s]
    BY <1>3, <1>5, <1>6
  <2>2. QED
    BY <1>1, <1>4, <1>6, <2>1 DEF Line, HasPacket
<1>7. CASE s # ShardOf(t)
  BY <1>1, <1>3, <1>5, <1>7 DEF Line, HasPacket
<1>8. QED
  BY <1>6, <1>7

\* The marker is appended like a packet.
LEMMA LineMarker ==
  ASSUME TypeOK, PutMarker, NEW s \in Shards
  PROVE  /\ at \in Shards
         /\ Line(s)' = IF s = at THEN Append(Line(s), None) ELSE Line(s)
<1>1. at \in Shards /\ None \in Item
  BY WorkerCountPositive DEF PutMarker, TypeOK, CloserOK, Shards, Item
<1>2. queue[s] \in Seq(Item) /\ hand[s] \in Item
  BY DEF TypeOK, QueuesOK, WorkersOK
<1>3. /\ queue' = [queue EXCEPT ![at] = Append(queue[at], None)]
      /\ worker' = worker /\ hand' = hand
      /\ queue \in [Shards -> Seq(Item)]
  BY DEF PutMarker, workerVars, TypeOK, QueuesOK
<1>4. Append(<<hand[s]>> \o queue[s], None) = <<hand[s]>> \o Append(queue[s], None)
  BY <1>1, <1>2, AppendToLine
<1>5. queue'[s] = IF s = at THEN Append(queue[s], None) ELSE queue[s]
  BY <1>3
<1>6. CASE s = at
  <2>1. queue'[s] = Append(queue[s], None) /\ worker'[s] = worker[s] /\ hand'[s] = hand[s]
    BY <1>3, <1>5, <1>6
  <2>2. QED
    BY <1>1, <1>4, <1>6, <2>1 DEF Line, HasPacket
<1>7. CASE s # at
  BY <1>1, <1>3, <1>5, <1>7 DEF Line, HasPacket
<1>8. QED
  BY <1>6, <1>7

\* Taking a packet leaves the line as it is; taking the marker removes it.
LEMMA LineGet ==
  ASSUME TypeOK, NEW s \in Shards, Get(s)
  PROVE  /\ Line(s) = queue[s] /\ Line(s) # << >>
         /\ Line(s)' = IF Head(queue[s]) = None THEN Tail(Line(s)) ELSE Line(s)
         /\ \A r \in Shards \ {s} : Line(r)' = Line(r)
<1>1. queue[s] \in Seq(Item) /\ queue[s] # << >> /\ worker[s] = "getting"
  BY DEF Get, TypeOK, QueuesOK
<1>2. /\ queue'[s] = Tail(queue[s]) /\ hand'[s] = Head(queue[s])
      /\ worker'[s] = IF Head(queue[s]) = None THEN "finishing" ELSE "inserting"
      /\ \A r \in Shards \ {s} : queue'[r] = queue[r] /\ hand'[r] = hand[r] /\ worker'[r] = worker[r]
  BY DEF Get, TypeOK, QueuesOK, WorkersOK
<1>3. Line(s) = queue[s]
  BY <1>1 DEF Line, HasPacket
<1>4. <<Head(queue[s])>> \o Tail(queue[s]) = queue[s]
  <2> DEFINE q == queue[s]
             p == <<Head(q)>>
             u == p \o Tail(q)
  <2>1. /\ Head(q) \in Item /\ Head(q) = q[1]
        /\ Tail(q) \in Seq(Item) /\ Len(Tail(q)) = Len(q) - 1 /\ Len(q) \in Nat \ {0}
        /\ \A i \in 1 .. Len(Tail(q)) : Tail(q)[i] = q[i + 1]
    BY <1>1, HeadTailProperties, EmptySeq
  <2>2. p \in Seq(Item) /\ Len(p) = 1 /\ p[1] = q[1]
    BY <2>1
  <2>3. /\ u \in Seq(Item) /\ Len(u) = Len(q)
        /\ \A i \in 1 .. Len(q) : u[i] = IF i <= 1 THEN p[i] ELSE Tail(q)[i - 1]
    BY <2>1, <2>2, ConcatProperties
  <2>4. \A i \in 1 .. Len(q) : u[i] = q[i]
    BY <2>1, <2>2, <2>3
  <2>5. QED
    BY <1>1, <2>3, <2>4, SeqEqual
<1>5. CASE Head(queue[s]) = None
  BY <1>1, <1>2, <1>3, <1>5 DEF Line, HasPacket
<1>6. CASE Head(queue[s]) # None
  BY <1>1, <1>2, <1>3, <1>4, <1>6 DEF Line, HasPacket
<1>7. QED
  BY <1>1, <1>3, <1>5, <1>6

\* The packet a worker has in its hand is the head of its shard's line.
LEMMA LineHead ==
  ASSUME TypeOK, NEW s \in Shards, HasPacket(s)
  PROVE  /\ hand[s] \in Task
         /\ Line(s) # << >> /\ Line(s)[1] = hand[s]
<1>1. hand[s] \in Task /\ hand[s] \in Item /\ queue[s] \in Seq(Item)
  BY DEF TypeOK, WorkersOK, QueuesOK, Item
<1>2. <<hand[s]>> \in Seq(Item) /\ Len(<<hand[s]>>) = 1
  BY <1>1
<1>3. Line(s) = <<hand[s]>> \o queue[s]
  BY DEF Line
<1>4. /\ Line(s) \in Seq(Item) /\ Len(Line(s)) = 1 + Len(queue[s]) /\ Len(queue[s]) \in Nat
      /\ \A i \in 1 .. 1 + Len(queue[s]) :
           Line(s)[i] = IF i <= 1 THEN <<hand[s]>>[i] ELSE queue[s][i - 1]
  BY <1>1, <1>2, <1>3, ConcatProperties
<1>5. QED
  BY <1>1, <1>4

\* A packet that is settled is the head of its shard's line and leaves it.
LEMMA LineSettle ==
  ASSUME TypeOK, NEW s \in Shards, InsertPacket(s) \/ QuarantinePacket(s)
  PROVE  /\ hand[s] \in Task
         /\ Line(s) # << >> /\ Line(s)[1] = hand[s]
         /\ Line(s)' = Tail(Line(s))
         /\ \A r \in Shards \ {s} : Line(r)' = Line(r)
<1>1. worker[s] \in {"inserting", "quarantining"} /\ worker'[s] = "finishing"
  BY DEF InsertPacket, QuarantinePacket, Settle, TypeOK, WorkersOK
<1>2. /\ hand[s] \in Task /\ hand[s] \in Item /\ queue[s] \in Seq(Item)
      /\ queue' = queue /\ hand' = hand
      /\ \A r \in Shards \ {s} : worker'[r] = worker[r]
  BY <1>1 DEF InsertPacket, QuarantinePacket, Settle, TypeOK, WorkersOK, HasPacket, QueuesOK, Item
<1>3. Line(s) = <<hand[s]>> \o queue[s] /\ Line(s)' = queue[s]
  BY <1>1, <1>2 DEF Line, HasPacket
<1>4. /\ Line(s) \in Seq(Item) /\ Len(Line(s)) = 1 + Len(queue[s]) /\ Len(queue[s]) \in Nat
      /\ \A i \in 1 .. 1 + Len(queue[s]) :
           Line(s)[i] = IF i <= 1 THEN <<hand[s]>>[i] ELSE queue[s][i - 1]
  <2>1. <<hand[s]>> \in Seq(Item) /\ Len(<<hand[s]>>) = 1
    BY <1>2
  <2>2. QED
    BY <1>2, <1>3, <2>1, ConcatProperties
<1>5. Line(s) # << >> /\ Line(s)[1] = hand[s]
  BY <1>4
<1>6. Tail(Line(s)) = queue[s]
  <2>1. /\ Tail(Line(s)) \in Seq(Item) /\ Len(Tail(Line(s))) = Len(queue[s])
        /\ \A i \in 1 .. Len(queue[s]) : Tail(Line(s))[i] = Line(s)[i + 1]
    BY <1>4, <1>5, HeadTailProperties
  <2>2. \A i \in 1 .. Len(queue[s]) : Tail(Line(s))[i] = queue[s][i]
    BY <1>4, <2>1
  <2>3. QED
    BY <1>2, <2>1, <2>2, SeqEqual
<1>7. QED
  BY <1>1, <1>2, <1>3, <1>5, <1>6 DEF Line, HasPacket

\* Every other step leaves the lines alone.
LEMMA LineFrame ==
  ASSUME TypeOK, [Next]_vars,
         ~ \E h \in Handlers : Put(h),
         ~ \E s \in Shards : Get(s) \/ InsertPacket(s) \/ QuarantinePacket(s),
         ~ PutMarker
  PROVE  \A s \in Shards : Line(s)' = Line(s)
<1>1. ASSUME NEW h \in Handlers, Receive(h) \/ PassStoppingCheck(h) \/ Refuse(h) \/ PutTimesOut(h)
      PROVE UNCHANGED <<queue, worker, hand>>
  BY <1>1 DEF Receive, PassStoppingCheck, Refuse, PutTimesOut, workerVars
<1>2. ASSUME NEW r \in Shards, TaskDone(r)
      PROVE \A s \in Shards : Line(s)' = Line(s)
  <2>1. /\ queue' = queue
        /\ worker[r] = "finishing" /\ worker'[r] \in {"exited", "getting"}
        /\ \A s \in Shards \ {r} : worker'[s] = worker[s] /\ hand'[s] = hand[s]
    BY <1>2 DEF TaskDone, TypeOK, WorkersOK
  <2>2. QED
    BY <2>1 DEF Line, HasPacket
<1>3. ASSUME NEW r \in Shards, InsertRaises(r) \/ QuarantineRaises(r) \/ WorkerDies(r)
      PROVE \A s \in Shards : Line(s)' = Line(s)
  <2>1. /\ queue' = queue /\ hand' = hand
        /\ worker[r] \in {"inserting", "quarantining", "raising"}
        /\ worker'[r] \in {"quarantining", "raising", "died"}
        /\ \A s \in Shards \ {r} : worker'[s] = worker[s]
    BY <1>3 DEF InsertRaises, QuarantineRaises, WorkerDies, TypeOK, WorkersOK
  <2>2. QED
    BY <2>1 DEF Line, HasPacket
<1>4. CASE UNCHANGED <<queue, worker, hand>>
  BY <1>4 DEF Line, HasPacket
<1>5. QED
  BY <1>1, <1>2, <1>3, <1>4, ClosingFrame DEF Next, Submitting, Work, vars, workerVars

-----------------------------------------------------------------------------
(* How the steps change the histories and the lines, index by index. *)

\* A put is the only step that accepts a packet, and appends it to the device's
\* history.
LEMMA AcceptedPut ==
  ASSUME TypeOK, NEW h \in Handlers, Put(h)
  PROVE  /\ pending[h] \in Task /\ pending[h].dev \in Devices
         /\ pending[h].conn = h /\ pending[h].no = received[h]
         /\ settled' = settled /\ received' = received
         /\ pc[h] # "receiving" /\ pc'[h] = "receiving"
         /\ \A g \in Handlers \ {h} : pc'[g] = pc[g]
         /\ \A d \in Devices :
              /\ Len(accepted[d]) \in Nat
              /\ Len(accepted'[d]) = IF d = pending[h].dev THEN Len(accepted[d]) + 1
                                                           ELSE Len(accepted[d])
              /\ \A i \in 1 .. Len(accepted[d]) : accepted'[d][i] = accepted[d][i]
              /\ d = pending[h].dev => accepted'[d][Len(accepted[d]) + 1] = pending[h]
<1> DEFINE t == pending[h]
<1>1. t \in Task /\ t.dev \in Devices /\ t.conn = h /\ t.no = received[h]
  BY DEF Put, TypeOK, HandlersOK, Task
<1>2. /\ settled' = settled /\ received' = received
      /\ pc[h] # "receiving" /\ pc'[h] = "receiving"
      /\ \A g \in Handlers \ {h} : pc'[g] = pc[g]
  BY DEF Put, TypeOK, HandlersOK
<1>3. /\ accepted \in [Devices -> Seq(Task)]
      /\ accepted' = [accepted EXCEPT ![t.dev] = Append(accepted[t.dev], t)]
  BY DEF Put, TypeOK, HistoryOK
<1>4. ASSUME NEW d \in Devices
      PROVE  /\ Len(accepted[d]) \in Nat
             /\ Len(accepted'[d]) = IF d = t.dev THEN Len(accepted[d]) + 1 ELSE Len(accepted[d])
             /\ \A i \in 1 .. Len(accepted[d]) : accepted'[d][i] = accepted[d][i]
             /\ d = t.dev => accepted'[d][Len(accepted[d]) + 1] = t
  <2>1. accepted[d] \in Seq(Task)
    BY <1>3
  <2>2. accepted'[d] = IF d = t.dev THEN Append(accepted[d], t) ELSE accepted[d]
    BY <1>3
  <2>3. QED
    BY <1>1, <2>1, <2>2, AppendProperties
<1>5. QED
  BY <1>1, <1>2, <1>4

\* Other steps accept nothing.
LEMMA AcceptedFrame ==
  [Next]_vars /\ ~(\E h \in Handlers : Put(h)) => accepted' = accepted
<1>1. ASSUME NEW h \in Handlers, Receive(h) \/ PassStoppingCheck(h) \/ Refuse(h) \/ PutTimesOut(h)
      PROVE accepted' = accepted
  BY <1>1 DEF Receive, PassStoppingCheck, Refuse, PutTimesOut
<1>2. ASSUME NEW s \in Shards, Work(s) PROVE accepted' = accepted
  BY <1>2 DEF Work, Get, InsertPacket, InsertRaises, QuarantinePacket, QuarantineRaises, TaskDone,
             WorkerDies, Settle
<1>3. QED
  BY <1>1, <1>2, ClosingFrame DEF Next, Submitting, vars

\* Settling appends the packet in hand to its device's history.
LEMMA SettledSettle ==
  ASSUME TypeOK, NEW s \in Shards, InsertPacket(s) \/ QuarantinePacket(s)
  PROVE  /\ hand[s] \in Task /\ hand[s].dev \in Devices
         /\ accepted' = accepted
         /\ \A d \in Devices :
              /\ Len(settled[d]) \in Nat
              /\ Len(settled'[d]) = IF d = hand[s].dev THEN Len(settled[d]) + 1 ELSE Len(settled[d])
              /\ \A i \in 1 .. Len(settled[d]) : settled'[d][i] = settled[d][i]
              /\ d = hand[s].dev => settled'[d][Len(settled[d]) + 1] = hand[s]
<1> DEFINE t == hand[s]
<1>1. t \in Task /\ t.dev \in Devices
  BY DEF InsertPacket, QuarantinePacket, TypeOK, WorkersOK, HasPacket, Task
<1>2. /\ settled \in [Devices -> Seq(Task)]
      /\ settled' = [settled EXCEPT ![t.dev] = Append(settled[t.dev], t)]
      /\ accepted' = accepted
  BY DEF InsertPacket, QuarantinePacket, Settle, TypeOK, HistoryOK
<1>3. ASSUME NEW d \in Devices
      PROVE  /\ Len(settled[d]) \in Nat
             /\ Len(settled'[d]) = IF d = t.dev THEN Len(settled[d]) + 1 ELSE Len(settled[d])
             /\ \A i \in 1 .. Len(settled[d]) : settled'[d][i] = settled[d][i]
             /\ d = t.dev => settled'[d][Len(settled[d]) + 1] = t
  <2>1. settled[d] \in Seq(Task)
    BY <1>2
  <2>2. settled'[d] = IF d = t.dev THEN Append(settled[d], t) ELSE settled[d]
    BY <1>2
  <2>3. QED
    BY <1>1, <2>1, <2>2, AppendProperties
<1>4. QED
  BY <1>1, <1>2, <1>3

\* Other steps settle nothing.
LEMMA SettledFrame ==
  [Next]_vars /\ ~(\E s \in Shards : InsertPacket(s) \/ QuarantinePacket(s)) => settled' = settled
<1>1. ASSUME NEW h \in Handlers, Receive(h) \/ Submitting(h)
      PROVE settled' = settled
  BY <1>1 DEF Receive, Submitting, PassStoppingCheck, Refuse, Put, PutTimesOut
<1>2. ASSUME NEW s \in Shards,
             Get(s) \/ InsertRaises(s) \/ QuarantineRaises(s) \/ TaskDone(s) \/ WorkerDies(s)
      PROVE settled' = settled
  BY <1>2 DEF Get, InsertRaises, QuarantineRaises, TaskDone, WorkerDies
<1>3. QED
  BY <1>1, <1>2, ClosingFrame DEF Next, Work, vars

\* An appended item is the last of the line.
LEMMA LineAppended ==
  ASSUME TypeOK, NEW s \in Shards, NEW x \in Item, Line(s)' = Append(Line(s), x)
  PROVE  /\ Len(Line(s)) \in Nat /\ Len(Line(s)') = Len(Line(s)) + 1
         /\ \A i \in 1 .. Len(Line(s)) : Line(s)'[i] = Line(s)[i]
         /\ Line(s)'[Len(Line(s)) + 1] = x
BY LineType, AppendProperties

\* Without its head, the line moves up by one.
LEMMA LineShifted ==
  ASSUME TypeOK, NEW s \in Shards, Line(s) # << >>, Line(s)' = Tail(Line(s))
  PROVE  /\ Len(Line(s)) \in Nat \ {0} /\ Len(Line(s)') = Len(Line(s)) - 1
         /\ \A i \in 1 .. Len(Line(s)) - 1 : Line(s)'[i] = Line(s)[i + 1]
<1>1. Line(s) \in Seq(Item)
  BY LineType
<1>2. QED
  BY <1>1, HeadTailProperties, EmptySeq

-----------------------------------------------------------------------------
(* The order invariant. *)

\* The histories are sequences of packets.
LEMMA HistoryElements ==
  TypeOK => \A d \in Devices :
              /\ Len(accepted[d]) \in Nat /\ Len(settled[d]) \in Nat
              /\ \A i \in 1 .. Len(accepted[d]) : accepted[d][i] \in Task
              /\ \A i \in 1 .. Len(settled[d]) : settled[d][i] \in Task
BY DEF TypeOK, HistoryOK

\* Packet numbers only grow, so a packet about to be put is above all accepted
\* packets of its connection.
LEMMA NumberingStep == TypeOK /\ NumberingInv /\ [Next]_vars => NumberingInv'
<1> SUFFICES ASSUME TypeOK, NumberingInv, [Next]_vars,
                    NEW d \in Devices, NEW i \in 1 .. Len(accepted'[d])
             PROVE  /\ accepted'[d][i].dev = d
                    /\ accepted'[d][i].no <= received'[accepted'[d][i].conn]
                    /\ pc'[accepted'[d][i].conn] # "receiving"
                         => accepted'[d][i].no < received'[accepted'[d][i].conn]
  BY DEF NumberingInv
<1>1. /\ received \in [Handlers -> 0 .. MaxPackets]
      /\ pc \in [Handlers -> {"receiving", "submitting", "putting"}]
  BY DEF TypeOK, HandlersOK
<1>2. ASSUME NEW h \in Handlers, Put(h)
      PROVE  /\ accepted'[d][i].dev = d
             /\ accepted'[d][i].no <= received'[accepted'[d][i].conn]
             /\ pc'[accepted'[d][i].conn] # "receiving"
                  => accepted'[d][i].no < received'[accepted'[d][i].conn]
  <2>1. CASE i \in 1 .. Len(accepted[d])
    <3>1. accepted'[d][i] = accepted[d][i] /\ accepted[d][i] \in Task
      BY <1>2, <2>1, AcceptedPut, HistoryElements
    <3>2. accepted[d][i].conn \in Handlers
      BY <3>1 DEF Task
    <3>3. QED
      BY <1>2, <2>1, <3>1, <3>2, AcceptedPut DEF NumberingInv
  <2>2. CASE i \notin 1 .. Len(accepted[d])
    <3>1. d = pending[h].dev /\ i = Len(accepted[d]) + 1 /\ accepted'[d][i] = pending[h]
      BY <1>2, <2>2, AcceptedPut
    <3>2. received[h] \in Nat
      BY <1>1
    <3>3. QED
      BY <1>2, <3>1, <3>2, AcceptedPut
  <2>3. QED
    BY <2>1, <2>2
<1>3. CASE ~ \E h \in Handlers : Put(h)
  <2>1. accepted' = accepted
    BY <1>3, AcceptedFrame
  <2>2. accepted[d][i] \in Task /\ accepted[d][i].conn \in Handlers /\ accepted[d][i].no \in Nat
    BY <2>1, HistoryElements DEF Task
  <2>3. ASSUME NEW h \in Handlers, Receive(h)
        PROVE  /\ received' = [received EXCEPT ![h] = received[h] + 1]
               /\ pc[h] = "receiving"
               /\ \A g \in Handlers \ {h} : pc'[g] = pc[g]
    BY <1>1, <2>3 DEF Receive
  <2>4. ASSUME NEW h \in Handlers, PassStoppingCheck(h) \/ Refuse(h) \/ PutTimesOut(h)
        PROVE  received' = received /\ \A g \in Handlers : pc'[g] # "receiving" => pc[g] # "receiving"
    BY <1>1, <2>4 DEF PassStoppingCheck, Refuse, PutTimesOut
  <2>5. ASSUME NEW s \in Shards, Work(s) PROVE received' = received /\ pc' = pc
    BY <2>5 DEF Work, Get, InsertPacket, InsertRaises, QuarantinePacket, QuarantineRaises, TaskDone,
             WorkerDies, Settle, handlerVars
  <2>6. \/ received' = received /\ \A g \in Handlers : pc'[g] # "receiving" => pc[g] # "receiving"
        \/ \E h \in Handlers : Receive(h)
    BY <1>3, <2>4, <2>5, ClosingFrame DEF Next, Submitting, vars, handlerVars
  <2>7. CASE received' = received /\ \A g \in Handlers : pc'[g] # "receiving" => pc[g] # "receiving"
    BY <2>1, <2>2, <2>7 DEF NumberingInv
  <2>8. ASSUME NEW h \in Handlers, Receive(h)
        PROVE  /\ accepted[d][i].no <= received'[accepted[d][i].conn]
               /\ pc'[accepted[d][i].conn] # "receiving"
                    => accepted[d][i].no < received'[accepted[d][i].conn]
    <3>1. received[h] \in Nat /\ received'[h] = received[h] + 1
      BY <1>1, <2>3, <2>8
    <3>2. \A g \in Handlers \ {h} : received'[g] = received[g] /\ pc'[g] = pc[g]
      BY <1>1, <2>3, <2>8
    <3>3. accepted[d][i].no <= received[accepted[d][i].conn]
      BY <2>1 DEF NumberingInv
    <3>4. QED
      BY <2>1, <2>2, <3>1, <3>2, <3>3 DEF NumberingInv
  <2>9. QED
    BY <2>1, <2>6, <2>7, <2>8 DEF NumberingInv
<1>4. QED
  BY <1>2, <1>3

\* The new packet's number is above those of its connection already accepted.
LEMMA ConnectionOrderStep ==
  TypeOK /\ NumberingInv /\ ConnectionOrder /\ [Next]_vars => ConnectionOrder'
<1> SUFFICES ASSUME TypeOK, NumberingInv, ConnectionOrder, [Next]_vars PROVE ConnectionOrder'
  OBVIOUS
<1>1. ASSUME NEW h \in Handlers, Put(h) PROVE ConnectionOrder'
  <2> SUFFICES ASSUME NEW d \in Devices,
                      NEW i \in 1 .. Len(accepted'[d]), NEW j \in 1 .. Len(accepted'[d]),
                      i < j, accepted'[d][i].conn = accepted'[d][j].conn
               PROVE  accepted'[d][i].no < accepted'[d][j].no
    BY DEF ConnectionOrder
  <2>1. i \in 1 .. Len(accepted[d]) /\ accepted'[d][i] = accepted[d][i]
    BY <1>1, AcceptedPut
  <2>2. CASE j \in 1 .. Len(accepted[d])
    BY <1>1, <2>1, <2>2, AcceptedPut DEF ConnectionOrder
  <2>3. CASE j \notin 1 .. Len(accepted[d])
    <3>1. d = pending[h].dev /\ accepted'[d][j] = pending[h]
      BY <1>1, <2>3, AcceptedPut
    <3>2. pending[h].conn = h /\ pending[h].no = received[h] /\ pc[h] # "receiving"
      BY <1>1, AcceptedPut
    <3>3. QED
      BY <2>1, <3>1, <3>2 DEF NumberingInv
  <2>4. QED
    BY <2>2, <2>3
<1>2. CASE ~ \E h \in Handlers : Put(h)
  BY <1>2, AcceptedFrame DEF ConnectionOrder
<1>3. QED
  BY <1>1, <1>2

\* No packet is accepted twice.
LEMMA AcceptedOnce ==
  TypeOK /\ ConnectionOrder =>
    \A d \in Devices : \A k, l \in 1 .. Len(accepted[d]) :
      accepted[d][k] = accepted[d][l] => k = l
<1> SUFFICES ASSUME TypeOK, ConnectionOrder, NEW d \in Devices,
                    NEW k \in 1 .. Len(accepted[d]), NEW l \in 1 .. Len(accepted[d]),
                    accepted[d][k] = accepted[d][l], k # l
             PROVE  FALSE
  OBVIOUS
<1>1. Len(accepted[d]) \in Nat /\ accepted[d][k] \in Task
  BY HistoryElements
<1>2. accepted[d][k].no \in Int
  BY <1>1 DEF Task
<1>3. k < l \/ l < k
  BY <1>1
<1>4. accepted[d][k].no < accepted[d][l].no \/ accepted[d][l].no < accepted[d][k].no
  BY <1>3 DEF ConnectionOrder
<1>5. QED
  BY <1>2, <1>4

\* The packet a worker has is the oldest unsettled one of its device: the head of
\* the line is the next entry of the device's log.
LEMMA HeadIsNext ==
  ASSUME TypeOK, OrderInv, NEW s \in Shards, HasPacket(s)
  PROVE  /\ Len(settled[hand[s].dev]) < Len(accepted[hand[s].dev])
         /\ accepted[hand[s].dev][Len(settled[hand[s].dev]) + 1] = hand[s]
<1> DEFINE t == hand[s]
           d == hand[s].dev
           n == Len(settled[d]) + 1
<1>1. /\ t \in Task /\ d \in Devices /\ t # None
      /\ Line(s) # << >> /\ Line(s)[1] = t
  BY LineHead, ConstantsAssumption DEF Task
<1>2. Line(s) \in Seq(Item) /\ Len(Line(s)) \in Nat \ {0}
  BY <1>1, LineType, EmptySeq
<1>3. Len(settled[d]) \in Nat /\ Len(accepted[d]) \in Nat
  BY <1>1, HistoryElements
<1>4. ShardOf(t) = s /\ Unsettled(t)
  BY <1>1, <1>2 DEF OrderInv, WaitingInv
<1>5. PICK k \in n .. Len(accepted[d]) : accepted[d][k] = t
  BY <1>4 DEF Unsettled
<1>6. n <= Len(accepted[d]) /\ n \in Len(settled[d]) + 1 .. Len(accepted[d])
  BY <1>3, <1>5
<1>7. accepted[d][n].dev = d
  BY <1>1, <1>3, <1>6 DEF OrderInv, NumberingInv
<1>8. PICK r \in Shards : accepted[d][n] \in Range(Line(r))
  BY <1>1, <1>6 DEF OrderInv, AcceptedIsHeld
<1>9. PICK j \in 1 .. Len(Line(s)) : Line(s)[j] = accepted[d][n]
  <2>1. PICK j \in 1 .. Len(Line(r)) : Line(r)[j] = accepted[d][n]
    <3>1. DOMAIN Line(r) = 1 .. Len(Line(r))
      BY LineType
    <3>2. QED
      BY <1>8, <3>1 DEF Range
  <2>2. accepted[d][n] # None
    BY <1>1, <1>3, <1>6, HistoryElements, ConstantsAssumption
  <2>3. ShardOf(accepted[d][n]) = r
    BY <2>1, <2>2 DEF OrderInv, WaitingInv
  <2>4. ShardOf(accepted[d][n]) = ShardOf(t)
    BY <1>7 DEF ShardOf
  <2>5. QED
    BY <1>4, <2>1, <2>3, <2>4
<1>10. CASE j = 1
  BY <1>1, <1>3, <1>6, <1>9, <1>10
<1>11. CASE j # 1
  <2>1. accepted[d][n] \in Task /\ accepted[d][n] # None
    BY <1>1, <1>3, <1>6, HistoryElements, ConstantsAssumption
  <2>2. 1 \in 1 .. Len(Line(s)) /\ 1 < j
    BY <1>2, <1>11
  <2>3. k \in 1 .. Len(accepted[d]) /\ n \in 1 .. Len(accepted[d])
    BY <1>3, <1>5, <1>6
  <2>4. k < n
    BY <1>1, <1>5, <1>9, <2>1, <2>2, <2>3 DEF OrderInv, LineOrderInv
  <2>5. QED
    BY <1>3, <1>5, <2>4
<1>12. QED
  BY <1>10, <1>11

\* The packet settled by a step is the next entry of its device's log.
LEMMA SettledIsNext ==
  ASSUME TypeOK, OrderInv, NEW s \in Shards, InsertPacket(s) \/ QuarantinePacket(s)
  PROVE  /\ Len(settled[hand[s].dev]) < Len(accepted[hand[s].dev])
         /\ accepted[hand[s].dev][Len(settled[hand[s].dev]) + 1] = hand[s]
<1>1. HasPacket(s)
  BY DEF InsertPacket, QuarantinePacket, HasPacket
<1>2. QED
  BY <1>1, HeadIsNext

\* The settled packets stay a prefix of the accepted ones.
LEMMA DeviceOrderStep == TypeOK /\ OrderInv /\ [Next]_vars => DeviceOrder'
<1> SUFFICES ASSUME TypeOK, OrderInv, [Next]_vars, NEW d \in Devices
             PROVE  /\ Len(settled'[d]) <= Len(accepted'[d])
                    /\ \A i \in 1 .. Len(settled'[d]) : settled'[d][i] = accepted'[d][i]
  BY DEF DeviceOrder
<1>0. /\ Len(settled[d]) \in Nat /\ Len(accepted[d]) \in Nat
      /\ Len(settled[d]) <= Len(accepted[d])
      /\ \A i \in 1 .. Len(settled[d]) : settled[d][i] = accepted[d][i]
  BY HistoryElements DEF OrderInv, DeviceOrder
<1>1. ASSUME NEW h \in Handlers, Put(h)
      PROVE  /\ Len(settled'[d]) <= Len(accepted'[d])
             /\ \A i \in 1 .. Len(settled'[d]) : settled'[d][i] = accepted'[d][i]
  <2>1. /\ settled' = settled
        /\ Len(accepted'[d]) >= Len(accepted[d])
        /\ \A i \in 1 .. Len(accepted[d]) : accepted'[d][i] = accepted[d][i]
    BY <1>0, <1>1, AcceptedPut
  <2>2. Len(accepted'[d]) \in Nat
    BY <1>0, <1>1, AcceptedPut
  <2>3. QED
    BY <1>0, <2>1, <2>2
<1>2. ASSUME NEW s \in Shards, InsertPacket(s) \/ QuarantinePacket(s)
      PROVE  /\ Len(settled'[d]) <= Len(accepted'[d])
             /\ \A i \in 1 .. Len(settled'[d]) : settled'[d][i] = accepted'[d][i]
  <2>1. CASE d = hand[s].dev
    <3>1. /\ Len(settled[d]) < Len(accepted[d])
          /\ accepted[d][Len(settled[d]) + 1] = hand[s]
      BY <1>2, <2>1, SettledIsNext
    <3>2. /\ accepted' = accepted
          /\ Len(settled'[d]) = Len(settled[d]) + 1
          /\ \A i \in 1 .. Len(settled[d]) : settled'[d][i] = settled[d][i]
          /\ settled'[d][Len(settled[d]) + 1] = hand[s]
      BY <1>2, <2>1, SettledSettle
    <3>3. QED
      BY <1>0, <3>1, <3>2
  <2>2. CASE d # hand[s].dev
    BY <1>0, <1>2, <2>2, SettledSettle
  <2>3. QED
    BY <2>1, <2>2
<1>3. CASE /\ ~ \E h \in Handlers : Put(h)
           /\ ~ \E s \in Shards : InsertPacket(s) \/ QuarantinePacket(s)
  BY <1>0, <1>3, AcceptedFrame, SettledFrame
<1>4. QED
  BY <1>1, <1>2, <1>3

\* The items of a line.
LEMMA LineElements ==
  ASSUME TypeOK, NEW s \in Shards, NEW i \in 1 .. Len(Line(s))
  PROVE  /\ Line(s)[i] \in Item
         /\ Line(s)[i] # None => Line(s)[i] \in Task /\ Line(s)[i].dev \in Devices
<1>1. Line(s)[i] \in Item
  BY LineType
<1>2. QED
  BY <1>1 DEF Item, Task

\* Every step is a put, a marker, a get, a settling, or leaves the lines and the
\* histories alone.
LEMMA LineCases ==
  ASSUME TypeOK, [Next]_vars
  PROVE  \/ \E h \in Handlers : Put(h)
         \/ PutMarker /\ accepted' = accepted /\ settled' = settled
         \/ (\E s \in Shards : Get(s)) /\ accepted' = accepted /\ settled' = settled
         \/ \E s \in Shards : InsertPacket(s) \/ QuarantinePacket(s)
         \/ (\A s \in Shards : Line(s)' = Line(s)) /\ accepted' = accepted /\ settled' = settled
<1>1. \/ \E h \in Handlers : Put(h)
      \/ \E s \in Shards : InsertPacket(s) \/ QuarantinePacket(s)
      \/ accepted' = accepted /\ settled' = settled
  BY AcceptedFrame, SettledFrame
<1>2. \/ \E h \in Handlers : Put(h)
      \/ PutMarker
      \/ \E s \in Shards : Get(s)
      \/ \E s \in Shards : InsertPacket(s) \/ QuarantinePacket(s)
      \/ \A s \in Shards : Line(s)' = Line(s)
  BY LineFrame
<1>3. QED
  BY <1>1, <1>2

\* A put keeps the unsettled packets unsettled and adds the new one.
LEMMA UnsettledPut ==
  ASSUME TypeOK, DeviceOrder, NEW h \in Handlers, Put(h), NEW t \in Task,
         Unsettled(t) \/ t = pending[h]
  PROVE  Unsettled(t)'
<1> DEFINE d == t.dev
<1>1. d \in Devices
  BY DEF Task
<1>2. /\ Len(settled[d]) \in Nat /\ Len(accepted[d]) \in Nat
      /\ Len(settled[d]) <= Len(accepted[d])
  BY <1>1, HistoryElements DEF DeviceOrder
<1>3. /\ settled' = settled
      /\ Len(accepted'[d]) = IF d = pending[h].dev THEN Len(accepted[d]) + 1 ELSE Len(accepted[d])
      /\ \A i \in 1 .. Len(accepted[d]) : accepted'[d][i] = accepted[d][i]
      /\ d = pending[h].dev => accepted'[d][Len(accepted[d]) + 1] = pending[h]
  BY <1>1, AcceptedPut
<1>4. CASE Unsettled(t)
  <2>1. PICK k \in Len(settled[d]) + 1 .. Len(accepted[d]) : accepted[d][k] = t
    BY <1>4 DEF Unsettled
  <2>2. k \in 1 .. Len(accepted[d]) /\ k \in Len(settled'[d]) + 1 .. Len(accepted'[d])
    BY <1>2, <1>3, <2>1
  <2>3. accepted'[d][k] = t
    BY <1>3, <2>1, <2>2
  <2>4. QED
    BY <2>2, <2>3 DEF Unsettled
<1>5. CASE t = pending[h]
  <2> DEFINE k == Len(accepted[d]) + 1
  <2>1. k \in Len(settled'[d]) + 1 .. Len(accepted'[d]) /\ accepted'[d][k] = t
    BY <1>2, <1>3, <1>5
  <2>2. QED
    BY <2>1 DEF Unsettled
<1>6. QED
  BY <1>4, <1>5

\* Settling removes only the packet in hand from the unsettled ones.
LEMMA UnsettledSettle ==
  ASSUME TypeOK, OrderInv, NEW s \in Shards, InsertPacket(s) \/ QuarantinePacket(s),
         NEW t \in Task, Unsettled(t), t # hand[s]
  PROVE  Unsettled(t)'
<1> DEFINE d == t.dev
<1>1. d \in Devices /\ Len(settled[d]) \in Nat /\ Len(accepted[d]) \in Nat
  BY HistoryElements DEF Task
<1>2. PICK k \in Len(settled[d]) + 1 .. Len(accepted[d]) : accepted[d][k] = t
  BY DEF Unsettled
<1>3. /\ accepted' = accepted
      /\ Len(settled'[d]) = IF d = hand[s].dev THEN Len(settled[d]) + 1 ELSE Len(settled[d])
  BY <1>1, SettledSettle
<1>4. CASE d = hand[s].dev
  <2>1. accepted[d][Len(settled[d]) + 1] = hand[s]
    BY <1>4, SettledIsNext
  <2>2. k # Len(settled[d]) + 1
    BY <1>2, <2>1
  <2>3. k \in Len(settled'[d]) + 1 .. Len(accepted'[d]) /\ accepted'[d][k] = t
    BY <1>1, <1>2, <1>3, <1>4, <2>2
  <2>4. QED
    BY <2>3 DEF Unsettled
<1>5. CASE d # hand[s].dev
  <2>1. k \in Len(settled'[d]) + 1 .. Len(accepted'[d]) /\ accepted'[d][k] = t
    BY <1>2, <1>3, <1>5
  <2>2. QED
    BY <2>1 DEF Unsettled
<1>6. QED
  BY <1>4, <1>5

\* The head of a line is not in the line a second time.
LEMMA HeadOnce ==
  ASSUME TypeOK, OrderInv, NEW s \in Shards, InsertPacket(s) \/ QuarantinePacket(s),
         NEW r \in Shards, NEW i \in 1 .. Len(Line(r)), r = s => i > 1
  PROVE  Line(r)[i] # hand[s]
<1> SUFFICES ASSUME Line(r)[i] = hand[s] PROVE FALSE
  OBVIOUS
<1>1. hand[s] \in Task /\ hand[s].dev \in Devices /\ hand[s] # None
  BY LineSettle, ConstantsAssumption DEF Task
<1>2. /\ Len(Line(s)) \in Nat \ {0} /\ Line(s)[1] = hand[s]
  BY LineSettle, LineType, EmptySeq
<1>3. ShardOf(hand[s]) = r /\ ShardOf(hand[s]) = s
  BY <1>1, <1>2 DEF OrderInv, WaitingInv
<1>4. i > 1 /\ i \in 1 .. Len(Line(s)) /\ 1 \in 1 .. Len(Line(s))
  BY <1>2, <1>3
<1>5. PICK k \in 1 .. Len(accepted[hand[s].dev]) : accepted[hand[s].dev][k] = hand[s]
  <2>1. Unsettled(hand[s])
    BY <1>1, <1>2 DEF OrderInv, WaitingInv
  <2>2. Len(settled[hand[s].dev]) \in Nat /\ Len(accepted[hand[s].dev]) \in Nat
    BY <1>1, HistoryElements
  <2>3. QED
    BY <2>1, <2>2 DEF Unsettled
<1>6. k < k
  BY <1>1, <1>2, <1>3, <1>4, <1>5 DEF OrderInv, LineOrderInv
<1>7. QED
  BY <1>5, <1>6

\* A line holds unsettled packets of its own shard's devices.
LEMMA WaitingStep == TypeOK /\ OrderInv /\ [Next]_vars => WaitingInv'
<1> SUFFICES ASSUME TypeOK, OrderInv, [Next]_vars,
                    NEW r \in Shards, NEW i \in 1 .. Len(Line(r)'), (Line(r)[i])' # None
             PROVE  ShardOf((Line(r)[i])') = r /\ Unsettled(Line(r)[i])'
  BY DEF WaitingInv
<1> DEFINE t == Line(r)'[i]
<1>0. Len(Line(r)) \in Nat /\ t # None /\ None \in Item
  BY LineType DEF Item
<1>1. ASSUME NEW h \in Handlers, Put(h)
      PROVE  ShardOf(t) = r /\ Unsettled(Line(r)[i])'
  <2>1. CASE i \in 1 .. Len(Line(r))
    <3>1. t = Line(r)[i] /\ t \in Task /\ ShardOf(t) = r /\ Unsettled(t)
      <4>1. t = Line(r)[i]
        BY <1>1, <2>1, LinePut, LineAppended DEF Item
      <4>2. QED
        BY <1>0, <2>1, <4>1, LineElements DEF OrderInv, WaitingInv
    <3>2. ASSUME NEW u \in Task, Unsettled(u) PROVE Unsettled(u)'
      BY <1>1, <3>2, UnsettledPut DEF OrderInv
    <3>3. QED
      BY <3>1, <3>2 DEF Unsettled
  <2>2. CASE i \notin 1 .. Len(Line(r))
    <3>1. r = ShardOf(pending[h]) /\ t = pending[h] /\ pending[h] \in Task
      BY <1>0, <1>1, <2>2, LinePut, LineAppended DEF Item
    <3>2. ASSUME NEW u \in Task, u = pending[h] PROVE Unsettled(u)'
      BY <1>1, <3>2, UnsettledPut DEF OrderInv
    <3>3. QED
      BY <3>1, <3>2 DEF Unsettled
  <2>3. QED
    BY <2>1, <2>2<1>2. CASE PutMarker /\ accepted' = accepted /\ settled' = settled
  <2>1. i \in 1 .. Len(Line(r)) /\ t = Line(r)[i]
    BY <1>0, <1>2, LineMarker, LineAppended
  <2>2. ShardOf(t) = r /\ Unsettled(t)
    BY <1>0, <2>1 DEF OrderInv, WaitingInv
  <2>3. QED
    BY <1>2, <2>2 DEF Unsettled
<1>3. ASSUME NEW s \in Shards, Get(s), accepted' = accepted, settled' = settled
      PROVE  ShardOf(t) = r /\ Unsettled(Line(r)[i])'
  <2>1. PICK j \in 1 .. Len(Line(r)) : t = Line(r)[j]
    <3>1. CASE Line(r)' = Line(r)
      BY <3>1
    <3>2. CASE Line(r)' # Line(r)
      <4>1. Line(r)' = Tail(Line(r)) /\ Line(r) # << >>
        BY <1>3, <3>2, LineGet
      <4>2. i + 1 \in 1 .. Len(Line(r)) /\ t = Line(r)[i + 1]
        BY <4>1, LineShifted
      <4>3. QED
        BY <4>2
    <3>3. QED
      BY <3>1, <3>2
  <2>2. ShardOf(t) = r /\ Unsettled(t)
    BY <1>0, <2>1 DEF OrderInv, WaitingInv
  <2>3. QED
    BY <1>3, <2>2 DEF Unsettled
<1>4. ASSUME NEW s \in Shards, InsertPacket(s) \/ QuarantinePacket(s)
      PROVE  ShardOf(t) = r /\ Unsettled(Line(r)[i])'
  <2>1. PICK j \in 1 .. Len(Line(r)) : t = Line(r)[j] /\ (r = s => j > 1)
    <3>1. CASE r = s
      <4>1. Line(r)' = Tail(Line(r)) /\ Line(r) # << >>
        BY <1>4, <3>1, LineSettle
      <4>2. i + 1 \in 1 .. Len(Line(r)) /\ t = Line(r)[i + 1] /\ i + 1 > 1
        BY <4>1, LineShifted
      <4>3. QED
        BY <4>2
    <3>2. CASE r # s
      BY <1>4, <3>2, LineSettle
    <3>3. QED
      BY <3>1, <3>2
  <2>2. ShardOf(t) = r /\ Unsettled(t) /\ t \in Task
    BY <1>0, <2>1, LineElements DEF OrderInv, WaitingInv
  <2>3. t # hand[s]
    BY <1>4, <2>1, HeadOnce
  <2>4. ASSUME NEW u \in Task, Unsettled(u), u # hand[s] PROVE Unsettled(u)'
    BY <1>4, <2>4, UnsettledSettle
  <2>5. QED
    BY <2>2, <2>3, <2>4 DEF Unsettled
<1>5. CASE (\A s \in Shards : Line(s)' = Line(s)) /\ accepted' = accepted /\ settled' = settled
  <2>1. i \in 1 .. Len(Line(r)) /\ t = Line(r)[i]
    BY <1>5
  <2>2. ShardOf(t) = r /\ Unsettled(t)
    BY <1>0, <2>1 DEF OrderInv, WaitingInv
  <2>3. QED
    BY <1>5, <2>2 DEF Unsettled
<1>6. QED
  BY <1>1, <1>2, <1>3, <1>4, <1>5, LineCases

\* The packet of a put is not in the log yet.
LEMMA PendingFresh ==
  ASSUME TypeOK, NumberingInv, NEW h \in Handlers, Put(h),
         NEW d \in Devices, NEW k \in 1 .. Len(accepted[d])
  PROVE  accepted[d][k] # pending[h]
<1>1. pending[h].conn = h /\ pending[h].no = received[h] /\ pc[h] # "receiving"
  BY AcceptedPut
<1>2. received[h] \in Nat
  BY DEF TypeOK, HandlersOK
<1>3. QED
  BY <1>1, <1>2 DEF NumberingInv

\* A waiting packet stands somewhere in its device's log.
LEMMA WaitingInLog ==
  ASSUME TypeOK, WaitingInv, NEW s \in Shards, NEW i \in 1 .. Len(Line(s)), Line(s)[i] # None
  PROVE  \E d \in Devices : \E k \in 1 .. Len(accepted[d]) : accepted[d][k] = Line(s)[i]
<1> DEFINE t == Line(s)[i]
<1>1. t.dev \in Devices /\ Unsettled(t)
  BY LineElements DEF WaitingInv
<1>2. Len(settled[t.dev]) \in Nat /\ Len(accepted[t.dev]) \in Nat
  BY <1>1, HistoryElements
<1>3. QED
  BY <1>1, <1>2 DEF Unsettled

\* Without a put, two packets of a line stood in the same order in the line before.
LEMMA LineEarlier ==
  ASSUME TypeOK, [Next]_vars, ~ \E h \in Handlers : Put(h),
         NEW r \in Shards, NEW i \in 1 .. Len(Line(r)'), NEW j \in 1 .. Len(Line(r)'),
         Line(r)'[i] # None, Line(r)'[j] # None
  PROVE  \E m, n \in 1 .. Len(Line(r)) :
           Line(r)[m] = Line(r)'[i] /\ Line(r)[n] = Line(r)'[j] /\ (i < j => m < n)
<1>0. Len(Line(r)) \in Nat /\ None \in Item
  BY LineType DEF Item
<1>1. CASE PutMarker
  BY <1>0, <1>1, LineMarker, LineAppended
<1>2. CASE Line(r)' = Line(r)
  BY <1>2
<1>3. CASE Line(r)' = Tail(Line(r)) /\ Line(r) # << >>
  <2>1. /\ i + 1 \in 1 .. Len(Line(r)) /\ j + 1 \in 1 .. Len(Line(r))
        /\ Line(r)'[i] = Line(r)[i + 1] /\ Line(r)'[j] = Line(r)[j + 1]
    BY <1>0, <1>3, LineShifted
  <2>2. QED
    BY <2>1
<1>4. PutMarker \/ Line(r)' = Line(r) \/ (Line(r)' = Tail(Line(r)) /\ Line(r) # << >>)
  <2>1. ASSUME NEW s \in Shards, Get(s)
        PROVE  Line(r)' = Line(r) \/ (Line(r)' = Tail(Line(r)) /\ Line(r) # << >>)
    BY <2>1, LineGet
  <2>2. ASSUME NEW s \in Shards, InsertPacket(s) \/ QuarantinePacket(s)
        PROVE  Line(r)' = Line(r) \/ (Line(r)' = Tail(Line(r)) /\ Line(r) # << >>)
    BY <2>2, LineSettle
  <2>3. QED
    BY <2>1, <2>2, LineCases
<1>5. QED
  BY <1>1, <1>2, <1>3, <1>4

\* Lines keep the order of acceptance.
LEMMA LineOrderStep == TypeOK /\ OrderInv /\ [Next]_vars => LineOrderInv'
<1> SUFFICES ASSUME TypeOK, OrderInv, [Next]_vars,
                    NEW r \in Shards,
                    NEW i \in 1 .. Len(Line(r)'), NEW j \in 1 .. Len(Line(r)'),
                    i < j, Line(r)'[i] # None, Line(r)'[j] # None,
                    NEW d \in Devices,
                    NEW k \in 1 .. Len(accepted'[d]), NEW l \in 1 .. Len(accepted'[d]),
                    accepted'[d][k] = Line(r)'[i], accepted'[d][l] = Line(r)'[j]
             PROVE  k < l
  BY DEF LineOrderInv
<1>1. CASE ~ \E h \in Handlers : Put(h)
  <2>1. accepted' = accepted
    BY <1>1, AcceptedFrame
  <2>2. PICK m \in 1 .. Len(Line(r)), n \in 1 .. Len(Line(r)) :
          Line(r)[m] = Line(r)'[i] /\ Line(r)[n] = Line(r)'[j] /\ m < n
    BY <1>1, LineEarlier
  <2>3. QED
    BY <2>1, <2>2 DEF OrderInv, LineOrderInv
<1>2. ASSUME NEW h \in Handlers, Put(h) PROVE k < l
  <2>0. Len(accepted[d]) \in Nat /\ Len(Line(r)) \in Nat /\ pending[h] \in Item
    BY <1>2, HistoryElements, LineType, AcceptedPut DEF Item
  <2>1. i \in 1 .. Len(Line(r)) /\ Line(r)'[i] = Line(r)[i]
    BY <1>2, <2>0, LinePut, LineAppended
  <2>2. Line(r)[i] # pending[h]
    BY <1>2, <2>1, WaitingInLog, PendingFresh DEF OrderInv
  <2>3. k \in 1 .. Len(accepted[d]) /\ accepted[d][k] = Line(r)[i]
    BY <1>2, <2>0, <2>1, <2>2, AcceptedPut
  <2>4. CASE j \in 1 .. Len(Line(r))
    <3>1. Line(r)'[j] = Line(r)[j]
      BY <1>2, <2>0, <2>4, LinePut, LineAppended
    <3>2. Line(r)[j] # pending[h]
      BY <1>2, <2>4, <3>1, WaitingInLog, PendingFresh DEF OrderInv
    <3>3. l \in 1 .. Len(accepted[d]) /\ accepted[d][l] = Line(r)[j]
      BY <1>2, <2>0, <3>1, <3>2, AcceptedPut
    <3>4. QED
      BY <2>1, <2>3, <2>4, <3>1, <3>3 DEF OrderInv, LineOrderInv
  <2>5. CASE j \notin 1 .. Len(Line(r))
    <3>1. Line(r)'[j] = pending[h]
      BY <1>2, <2>0, <2>5, LinePut, LineAppended
    <3>2. l \notin 1 .. Len(accepted[d])
      BY <1>2, <3>1, AcceptedPut, PendingFresh DEF OrderInv
    <3>3. QED
      BY <2>0, <2>3, <3>2
  <2>6. QED
    BY <2>4, <2>5
<1>3. QED
  BY <1>1, <1>2

\* An accepted packet stays in a line until it is settled.
LEMMA HeldStep == TypeOK /\ OrderInv /\ [Next]_vars => AcceptedIsHeld'
<1> SUFFICES ASSUME TypeOK, OrderInv, [Next]_vars PROVE AcceptedIsHeld'
  OBVIOUS
<1> SUFFICES ASSUME NEW d \in Devices,
                    NEW i \in Len(settled'[d]) + 1 .. Len(accepted'[d])
             PROVE  \E s \in Shards : \E j \in 1 .. Len(Line(s)') : Line(s)'[j] = accepted'[d][i]
  <2>1. TypeOK'
    BY HandlersOKStep, QueuesOKStep, WorkersOKStep, CloserOKStep, FlagsOKStep, HistoryOKStep
       DEF TypeOK
  <2>2. LinesOK'
    BY <2>1, LinesOKNext
  <2>3. \A s \in Shards : DOMAIN Line(s)' = 1 .. Len(Line(s)')
    BY <2>2 DEF LinesOK
  <2>4. QED
    BY <2>3 DEF AcceptedIsHeld, Range
<1>0. /\ Len(settled[d]) \in Nat /\ Len(accepted[d]) \in Nat
      /\ Len(settled[d]) <= Len(accepted[d])
  BY HistoryElements DEF OrderInv, DeviceOrder
<1>1. ASSUME i \in Len(settled[d]) + 1 .. Len(accepted[d])
      PROVE  \E s \in Shards : \E j \in 1 .. Len(Line(s)) : Line(s)[j] = accepted[d][i]
  <2>1. \A s \in Shards : DOMAIN Line(s) = 1 .. Len(Line(s))
    BY LineType
  <2>2. QED
    BY <1>1, <2>1 DEF OrderInv, AcceptedIsHeld, Range
<1>2. ASSUME i \in Len(settled[d]) + 1 .. Len(accepted[d])
      PROVE  accepted[d][i] \in Task /\ accepted[d][i] # None
  BY <1>0, <1>2, HistoryElements, ConstantsAssumption
<1>3. ASSUME NEW h \in Handlers, Put(h)
      PROVE  \E s \in Shards : \E j \in 1 .. Len(Line(s)') : Line(s)'[j] = accepted'[d][i]
  <2>0. pending[h] \in Task /\ pending[h] \in Item /\ settled' = settled
    BY <1>3, AcceptedPut DEF Item
  <2>1. CASE i \in 1 .. Len(accepted[d])
    <3>1. i \in Len(settled[d]) + 1 .. Len(accepted[d]) /\ accepted'[d][i] = accepted[d][i]
      BY <1>0, <1>3, <2>0, <2>1, AcceptedPut
    <3>2. PICK s \in Shards : \E j \in 1 .. Len(Line(s)) : Line(s)[j] = accepted[d][i]
      BY <1>1, <3>1
    <3>3. PICK j \in 1 .. Len(Line(s)) : Line(s)[j] = accepted[d][i]
      BY <3>2
    <3>4. j \in 1 .. Len(Line(s)') /\ Line(s)'[j] = Line(s)[j]
      BY <1>3, <2>0, <3>3, LinePut, LineAppended
    <3>5. QED
      BY <3>1, <3>3, <3>4
  <2>2. CASE i \notin 1 .. Len(accepted[d])
    <3>1. accepted'[d][i] = pending[h]
      BY <1>0, <1>3, <2>0, <2>2, AcceptedPut
    <3>2. PICK s \in Shards : s = ShardOf(pending[h])
      BY <2>0, ShardOfType
    <3>3. Line(s)' = Append(Line(s), pending[h])
      BY <1>3, <3>2, LinePut
    <3>4. Len(Line(s)) + 1 \in 1 .. Len(Line(s)') /\ Line(s)'[Len(Line(s)) + 1] = pending[h]
      BY <2>0, <3>3, LineAppended
    <3>5. QED
      BY <3>1, <3>4
  <2>3. QED
    BY <2>1, <2>2
<1>4. CASE PutMarker /\ accepted' = accepted /\ settled' = settled
  <2>1. PICK s \in Shards : \E j \in 1 .. Len(Line(s)) : Line(s)[j] = accepted[d][i]
    BY <1>1, <1>4
  <2>2. PICK j \in 1 .. Len(Line(s)) : Line(s)[j] = accepted[d][i]
    BY <2>1
  <2>3. j \in 1 .. Len(Line(s)') /\ Line(s)'[j] = Line(s)[j]
    BY <1>4, <2>2, LineMarker, LineAppended DEF Item
  <2>4. QED
    BY <1>4, <2>2, <2>3
<1>5. ASSUME NEW r \in Shards, Get(r), accepted' = accepted, settled' = settled
      PROVE  \E s \in Shards : \E j \in 1 .. Len(Line(s)') : Line(s)'[j] = accepted'[d][i]
  <2>1. PICK s \in Shards : \E j \in 1 .. Len(Line(s)) : Line(s)[j] = accepted[d][i]
    BY <1>1, <1>5
  <2>2. PICK j \in 1 .. Len(Line(s)) : Line(s)[j] = accepted[d][i]
    BY <2>1
  <2>3. CASE Line(s)' = Line(s)
    BY <1>5, <2>2, <2>3
  <2>4. CASE Line(s)' # Line(s)
    <3>1. s = r /\ Line(s)' = Tail(Line(s)) /\ Line(s) # << >> /\ Head(queue[s]) = None
          /\ Line(s) = queue[s]
      BY <1>5, <2>4, LineGet
    <3>2. Line(s)[1] = None
      BY <3>1, LineType, HeadTailProperties
    <3>3. j - 1 \in 1 .. Len(Line(s)') /\ Line(s)'[j - 1] = Line(s)[j]
      BY <1>2, <1>5, <2>2, <3>1, <3>2, LineShifted
    <3>4. QED
      BY <1>5, <2>2, <3>3
  <2>5. QED
    BY <2>3, <2>4
<1>6. ASSUME NEW r \in Shards, InsertPacket(r) \/ QuarantinePacket(r)
      PROVE  \E s \in Shards : \E j \in 1 .. Len(Line(s)') : Line(s)'[j] = accepted'[d][i]
  <2>0. accepted' = accepted /\ i \in Len(settled[d]) + 1 .. Len(accepted[d])
    BY <1>0, <1>6, SettledSettle
  <2>1. PICK s \in Shards : \E j \in 1 .. Len(Line(s)) : Line(s)[j] = accepted[d][i]
    BY <1>1, <2>0
  <2>2. PICK j \in 1 .. Len(Line(s)) : Line(s)[j] = accepted[d][i]
    BY <2>1
  <2>3. accepted[d][i] # hand[r]
    <3>1. CASE d = hand[r].dev
      <4>1. accepted[d][Len(settled[d]) + 1] = hand[r] /\ Len(settled[d]) < Len(accepted[d])
        BY <1>6, <3>1, SettledIsNext
      <4>2. i > Len(settled[d]) + 1
        BY <1>0, <1>6, <3>1, SettledSettle
      <4>3. i \in 1 .. Len(accepted[d]) /\ Len(settled[d]) + 1 \in 1 .. Len(accepted[d])
        BY <1>0, <2>0, <4>1
      <4>4. QED
        BY <4>1, <4>2, <4>3, AcceptedOnce DEF OrderInv
    <3>2. CASE d # hand[r].dev
      <4>1. accepted[d][i].dev = d
        BY <1>0, <2>0 DEF OrderInv, NumberingInv
      <4>2. QED
        BY <3>2, <4>1
    <3>3. QED
      BY <3>1, <3>2
  <2>4. CASE s = r
    <3>1. Line(s)' = Tail(Line(s)) /\ Line(s) # << >> /\ Line(s)[1] = hand[r]
      BY <1>6, <2>4, LineSettle
    <3>2. j - 1 \in 1 .. Len(Line(s)') /\ Line(s)'[j - 1] = Line(s)[j]
      BY <2>2, <2>3, <3>1, LineShifted
    <3>3. QED
      BY <2>0, <2>2, <3>2
  <2>5. CASE s # r
    BY <1>6, <2>0, <2>2, <2>5, LineSettle
  <2>6. QED
    BY <2>4, <2>5
<1>7. CASE (\A s \in Shards : Line(s)' = Line(s)) /\ accepted' = accepted /\ settled' = settled
  BY <1>1, <1>7
<1>8. QED
  BY <1>3, <1>4, <1>5, <1>6, <1>7, LineCases

\* The order invariant holds initially.
LEMMA OrderInvInit == Init => OrderInv
<1> SUFFICES ASSUME Init PROVE OrderInv
  OBVIOUS
<1>1. \A s \in Shards : Line(s) = << >>
  BY DEF Init, Line, HasPacket
<1>2. \A d \in Devices : Len(accepted[d]) = 0 /\ Len(settled[d]) = 0
  BY DEF Init
<1>3. ConnectionOrder /\ NumberingInv /\ AcceptedIsHeld /\ DeviceOrder
  BY <1>2 DEF ConnectionOrder, NumberingInv, AcceptedIsHeld, DeviceOrder
<1>4. WaitingInv /\ LineOrderInv
  BY <1>1 DEF WaitingInv, LineOrderInv
<1>5. QED
  BY <1>3, <1>4 DEF OrderInv

\* The order invariant is inductive, given type correctness.
THEOREM OrderCorrect == Spec => []OrderInv
<1>1. TypeOK /\ OrderInv /\ [Next]_vars => OrderInv'
  BY NumberingStep, ConnectionOrderStep, WaitingStep, LineOrderStep, HeldStep, DeviceOrderStep
     DEF OrderInv
<1>2. QED
  BY <1>1, OrderInvInit, TypeCorrect, PTL DEF Spec

\* Each device's packets are settled in exactly the order in which submit()
\* accepted them, whatever the number of connections, shards and queue slots,
\* the failing writes and the moment of the shutdown.
THEOREM DeviceOrderCorrect == Spec => []DeviceOrder
<1>1. OrderInv => DeviceOrder
  BY DEF OrderInv
<1>2. QED
  BY <1>1, OrderCorrect, PTL

\* An accepted packet is in a queue, in a worker's hand or what a worker died with
\* until it is settled.
THEOREM AcceptedIsHeldCorrect == Spec => []AcceptedIsHeld
<1>1. OrderInv => AcceptedIsHeld
  BY DEF OrderInv
<1>2. QED
  BY <1>1, OrderCorrect, PTL

\* Accepted packets of one connection and one device keep the connection's order.
THEOREM ConnectionOrderCorrect == Spec => []ConnectionOrder
<1>1. OrderInv => ConnectionOrder
  BY DEF OrderInv
<1>2. QED
  BY <1>1, OrderCorrect, PTL

-----------------------------------------------------------------------------
(* The race between submit() and close(). *)

\* `late` and `stopping` change only in a put and in the first step of close().
LEMMA LateFrame ==
  ASSUME TypeOK, [Next]_vars
  PROVE  /\ late \subseteq late'
         /\ stopping => stopping'
         /\ (~ \E h \in Handlers : Put(h)) => late' = late
         /\ \A h \in Handlers : Put(h) => late' = IF stopping THEN late \cup {pending[h]} ELSE late
<1>1. ASSUME NEW h \in Handlers, Receive(h) \/ PassStoppingCheck(h) \/ Refuse(h) \/ PutTimesOut(h)
      PROVE late' = late /\ stopping' = stopping
  BY <1>1 DEF Receive, PassStoppingCheck, Refuse, PutTimesOut, closeVars
<1>2. ASSUME NEW h \in Handlers, Put(h)
      PROVE /\ late' = IF stopping THEN late \cup {pending[h]} ELSE late
            /\ stopping' = stopping
  BY <1>2 DEF Put, closeVars
<1>3. ASSUME NEW s \in Shards, Work(s) PROVE late' = late /\ stopping' = stopping
  BY <1>3 DEF Work, Get, InsertPacket, InsertRaises, QuarantinePacket, QuarantineRaises, TaskDone,
             WorkerDies, Settle, closeVars
<1>4. CloseBegin \/ DeadlinePasses \/ Closing \/ Killed => (stopping => stopping')
  BY DEF CloseBegin, DeadlinePasses, Closing, DrainShard, DrainEnds, TryMarker, PutMarker,
         MarkerTimesOut, JoinWorkers, ProcessExits, Killed
<1>5. UNCHANGED vars => late' = late /\ stopping' = stopping
  BY DEF vars, closeVars
<1>6. \/ late' = late
      \/ \E h \in Handlers : Put(h) /\ late' = IF stopping THEN late \cup {pending[h]} ELSE late
  BY <1>1, <1>2, <1>3, <1>5, ClosingFrame DEF Next, Submitting
<1>7. stopping => stopping'
  BY <1>1, <1>2, <1>3, <1>4, <1>5 DEF Next, Submitting
<1>8. (~ \E h \in Handlers : Put(h)) => late' = late
  BY <1>6
<1>9. late \subseteq late'
  BY <1>6
<1>10. QED
  BY <1>2, <1>7, <1>8, <1>9

\* A thread whose packet was put after the stop never reaches put() again.
LEMMA LateStep == TypeOK /\ LateInv /\ [Next]_vars => LateInv'
<1> SUFFICES ASSUME TypeOK, LateInv, [Next]_vars PROVE LateInv'
  OBVIOUS
<1>1. ASSUME NEW h \in Handlers, Put(h) PROVE LateInv'
  <2>1. /\ pending[h].conn = h /\ pc[h] = "putting" /\ pc'[h] = "receiving"
        /\ \A g \in Handlers \ {h} : pc'[g] = pc[g]
        /\ stopping' = stopping
    BY <1>1, AcceptedPut DEF Put, closeVars
  <2>2. \A t \in late : t.conn \in Handlers /\ t.conn # h
    BY <2>1 DEF LateInv, TypeOK, HistoryOK, Task
  <2>3. late' = IF stopping THEN late \cup {pending[h]} ELSE late
    BY <1>1, LateFrame
  <2>4. OneLatePerConnection'
    BY <2>1, <2>2, <2>3 DEF LateInv, OneLatePerConnection
  <2>5. \A t \in late' : stopping' /\ pc'[t.conn] # "putting"
    BY <2>1, <2>2, <2>3 DEF LateInv
  <2>6. QED
    BY <2>4, <2>5 DEF LateInv
<1>2. CASE ~ \E h \in Handlers : Put(h)
  <2>1. late' = late /\ (stopping => stopping')
    BY <1>2, LateFrame
  <2>2. ASSUME NEW h \in Handlers, PassStoppingCheck(h) PROVE late = {}
    BY <2>2 DEF PassStoppingCheck, LateInv
  <2>3. ASSUME NEW h \in Handlers, Receive(h) \/ Refuse(h) \/ PutTimesOut(h)
        PROVE  \A g \in Handlers : pc'[g] = "putting" => pc[g] = "putting"
    BY <2>3 DEF Receive, Refuse, PutTimesOut, TypeOK, HandlersOK
  <2>4. ASSUME NEW s \in Shards, Work(s) PROVE pc' = pc
    BY <2>4 DEF Work, Get, InsertPacket, InsertRaises, QuarantinePacket, QuarantineRaises, TaskDone,
             WorkerDies, Settle, handlerVars
  <2>5. late = {} \/ \A g \in Handlers : pc'[g] = "putting" => pc[g] = "putting"
    BY <1>2, <2>2, <2>3, <2>4, ClosingFrame DEF Next, Submitting, vars, handlerVars
  <2>6. \A t \in late : t.conn \in Handlers
    BY DEF TypeOK, HistoryOK, Task
  <2>7. QED
    BY <2>1, <2>5, <2>6 DEF LateInv, OneLatePerConnection
<1>3. QED
  BY <1>1, <1>2

\* A connection with a late packet is past its last unguarded put.
THEOREM LateCorrect == Spec => []LateInv
<1>1. Init => LateInv
  BY DEF Init, LateInv, OneLatePerConnection
<1>2. QED
  BY <1>1, LateStep, TypeCorrect, PTL DEF Spec

\* The race costs each connection at most one packet.
THEOREM OneLateCorrect == Spec => []OneLatePerConnection
<1>1. LateInv => OneLatePerConnection
  BY DEF LateInv
<1>2. QED
  BY <1>1, LateCorrect, PTL

-----------------------------------------------------------------------------
(* Refused packets. *)

\* A packet is among the accepted ones when it stands at an index of a device's log.
LEMMA AdmittedIndex ==
  ASSUME TypeOK
  PROVE  \A t : t \in Admitted <=>
           \E d \in Devices : \E i \in 1 .. Len(accepted[d]) : accepted[d][i] = t
<1>1. \A d \in Devices : DOMAIN accepted[d] = 1 .. Len(accepted[d])
  BY DEF TypeOK, HistoryOK
<1>2. QED
  BY <1>1 DEF Admitted, Range

\* The packets accepted so far, as a set.
LEMMA AdmittedPut ==
  ASSUME TypeOK, NEW h \in Handlers, Put(h)
  PROVE  Admitted' = Admitted \cup {pending[h]}
<1> DEFINE t == pending[h]
<1>1. /\ t \in Task /\ t.dev \in Devices
      /\ accepted \in [Devices -> Seq(Task)]
      /\ accepted' = [accepted EXCEPT ![t.dev] = Append(accepted[t.dev], t)]
  BY AcceptedPut DEF Put, TypeOK, HistoryOK
<1>2. ASSUME NEW d \in Devices
      PROVE  Range(accepted'[d]) = IF d = t.dev THEN Range(accepted[d]) \cup {t}
                                                ELSE Range(accepted[d])
  <2>1. accepted[d] \in Seq(Task)
    BY <1>1
  <2>2. accepted'[d] = IF d = t.dev THEN Append(accepted[d], t) ELSE accepted[d]
    BY <1>1
  <2>3. Range(Append(accepted[d], t)) = Range(accepted[d]) \cup {t}
    <3> DEFINE q == accepted[d]
               a == Append(accepted[d], t)
    <3>1. /\ Len(q) \in Nat /\ DOMAIN q = 1 .. Len(q) /\ DOMAIN a = 1 .. Len(q) + 1
          /\ \A i \in 1 .. Len(q) : a[i] = q[i]
          /\ a[Len(q) + 1] = t
      BY <1>1, <2>1, AppendProperties
    <3>2. QED
      BY <3>1 DEF Range
  <2>4. QED
    BY <2>2, <2>3
<1>3. ASSUME NEW x PROVE x \in Admitted' <=> x \in Admitted \cup {t}
  <2>1. x \in Admitted' <=> \E d \in Devices : x \in Range(accepted'[d])
    BY DEF Admitted
  <2>2. x \in Admitted <=> \E d \in Devices : x \in Range(accepted[d])
    BY DEF Admitted
  <2>3. x \in Range(accepted'[t.dev]) <=> x \in Range(accepted[t.dev]) \/ x = t
    BY <1>1, <1>2
  <2>4. \A d \in Devices \ {t.dev} : Range(accepted'[d]) = Range(accepted[d])
    BY <1>2
  <2>5. QED
    BY <1>1, <2>1, <2>2, <2>3, <2>4
<1>4. QED
  BY <1>3

\* No packet is passed over and what is refused is the tail of a connection's packets.
LEMMA RefusedStep == TypeOK /\ NumberingInv /\ RefusedInv /\ [Next]_vars => RefusedInv'
<1> SUFFICES ASSUME TypeOK, NumberingInv, RefusedInv, [Next]_vars PROVE RefusedInv'
  OBVIOUS
<1>0. /\ received \in [Handlers -> 0 .. MaxPackets] /\ MaxPackets \in Nat
      /\ pc \in [Handlers -> {"receiving", "submitting", "putting"}]
      /\ \A h \in Handlers : pc[h] # "receiving" =>
           pending[h] \in Task /\ pending[h].conn = h /\ pending[h].no = received[h]
      /\ refused \subseteq Task
  BY ConstantsAssumption DEF TypeOK, HandlersOK, HistoryOK
<1>1. /\ \A h \in Handlers : \A n \in 1 .. received[h] :
           \E t \in Admitted \cup refused \cup Pending(h) : t.conn = h /\ t.no = n
      /\ \A t \in Admitted, u \in refused : t.conn = u.conn => t.no < u.no
      /\ \A u \in refused :
           /\ stopping /\ pc[u.conn] # "putting"
           /\ u.no <= received[u.conn]
           /\ pc[u.conn] # "receiving" => u.no < received[u.conn]
  BY DEF RefusedInv, OnlyTailRefused
<1>2. \A t \in Task : t.conn \in Handlers /\ t.no \in Nat
  BY DEF Task
<1>3. Admitted \subseteq Task
  BY AdmittedIndex, HistoryElements
<1>4. stopping => stopping'
  BY LateFrame
<1>5. ASSUME NEW h \in Handlers, Receive(h) PROVE RefusedInv'
  <2>1. /\ pc[h] = "receiving" /\ pc' = [pc EXCEPT ![h] = "submitting"]
        /\ received' = [received EXCEPT ![h] = received[h] + 1]
        /\ pending'[h].conn = h /\ pending'[h].no = received[h] + 1
        /\ \A g \in Handlers \ {h} : pending'[g] = pending[g]
        /\ accepted' = accepted /\ refused' = refused
    <3>1. pending \in [Handlers -> Item]
      BY DEF TypeOK, HandlersOK
    <3>2. QED
      BY <1>5, <3>1 DEF Receive
  <2>2. Admitted' = Admitted
    BY <2>1 DEF Admitted
  <2>3. /\ received'[h] = received[h] + 1 /\ pc'[h] = "submitting"
        /\ \A g \in Handlers \ {h} : received'[g] = received[g] /\ pc'[g] = pc[g]
    BY <1>0, <2>1
  <2>4. Pending(h) = {} /\ Pending(h)' = {pending'[h]}
        /\ \A g \in Handlers \ {h} : Pending(g)' = Pending(g)
    BY <2>1, <2>3 DEF Pending
  <2>5. ASSUME NEW g \in Handlers, NEW n \in 1 .. received'[g]
        PROVE  \E t \in Admitted \cup refused \cup Pending(g)' : t.conn = g /\ t.no = n
    <3>1. CASE g = h /\ n = received[h] + 1
      BY <2>1, <2>4, <3>1
    <3>2. CASE ~(g = h /\ n = received[h] + 1)
      <4>1. n \in 1 .. received[g]
        BY <1>0, <2>3, <3>2
      <4>2. PICK t \in Admitted \cup refused \cup Pending(g) : t.conn = g /\ t.no = n
        BY <1>1, <4>1
      <4>3. t \in Admitted \cup refused \cup Pending(g)'
        BY <2>4, <4>2
      <4>4. QED
        BY <4>2, <4>3
    <3>3. QED
      BY <3>1, <3>2
  <2>6. ASSUME NEW u \in refused
        PROVE  /\ stopping' /\ pc'[u.conn] # "putting"
               /\ u.no <= received'[u.conn]
               /\ pc'[u.conn] # "receiving" => u.no < received'[u.conn]
    <3>1. u.conn \in Handlers /\ u.no \in Nat /\ received[u.conn] \in Nat
      BY <1>0, <1>2
    <3>2. QED
      BY <1>1, <1>4, <2>3, <3>1
  <2>7. QED
    BY <1>1, <2>1, <2>2, <2>5, <2>6 DEF RefusedInv, OnlyTailRefused
<1>6. ASSUME NEW h \in Handlers, PassStoppingCheck(h) \/ PutTimesOut(h) PROVE RefusedInv'
  <2>1. /\ pc[h] \in {"submitting", "putting"} /\ pc'[h] \in {"submitting", "putting"}
        /\ \A g \in Handlers \ {h} : pc'[g] = pc[g]
        /\ pc'[h] = "putting" => ~stopping
        /\ received' = received /\ pending' = pending /\ stopping' = stopping
        /\ accepted' = accepted /\ refused' = refused
    BY <1>0, <1>6 DEF PassStoppingCheck, PutTimesOut, closeVars
  <2>2. Admitted' = Admitted /\ \A g \in Handlers : Pending(g)' = Pending(g)
    BY <2>1 DEF Admitted, Pending
  <2>3. ASSUME NEW u \in refused
        PROVE  /\ stopping' /\ pc'[u.conn] # "putting"
               /\ u.no <= received'[u.conn]
               /\ pc'[u.conn] # "receiving" => u.no < received'[u.conn]
    <3>1. u.conn \in Handlers
      BY <1>0, <1>2
    <3>2. QED
      BY <1>1, <2>1, <3>1
  <2>4. QED
    BY <1>1, <2>1, <2>2, <2>3 DEF RefusedInv, OnlyTailRefused
<1>7. ASSUME NEW h \in Handlers, Refuse(h) PROVE RefusedInv'
  <2> DEFINE p == pending[h]
  <2>1. /\ pc[h] = "submitting" /\ pc'[h] = "receiving" /\ stopping
        /\ \A g \in Handlers \ {h} : pc'[g] = pc[g] /\ pending'[g] = pending[g]
        /\ received' = received /\ stopping' = stopping
        /\ accepted' = accepted /\ refused' = refused \cup {p}
    <3>1. pending \in [Handlers -> Item]
      BY DEF TypeOK, HandlersOK
    <3>2. QED
      BY <1>0, <1>7, <3>1 DEF Refuse, closeVars
  <2>2. Admitted' = Admitted
    BY <2>1 DEF Admitted
  <2>3. p \in Task /\ p.conn = h /\ p.no = received[h]
    BY <1>0, <2>1
  <2>4. /\ Pending(h) = {p} /\ Pending(h)' = {}
        /\ \A g \in Handlers \ {h} : Pending(g)' = Pending(g)
    BY <2>1 DEF Pending
  <2>5. ASSUME NEW g \in Handlers, NEW n \in 1 .. received[g]
        PROVE  \E t \in Admitted \cup refused' \cup Pending(g)' : t.conn = g /\ t.no = n
    <3>1. PICK t \in Admitted \cup refused \cup Pending(g) : t.conn = g /\ t.no = n
      BY <1>1
    <3>2. t \in Admitted \cup refused' \cup Pending(g)'
      BY <2>1, <2>4, <3>1
    <3>3. QED
      BY <3>1, <3>2
  <2>6. ASSUME NEW t \in Admitted, t.conn = h PROVE t.no < p.no
    <3>1. PICK d \in Devices : \E i \in 1 .. Len(accepted[d]) : accepted[d][i] = t
      BY AdmittedIndex
    <3>2. QED
      BY <2>1, <2>3, <2>6, <3>1 DEF NumberingInv
  <2>7. ASSUME NEW u \in refused'
        PROVE  /\ stopping' /\ pc'[u.conn] # "putting"
               /\ u.no <= received'[u.conn]
               /\ pc'[u.conn] # "receiving" => u.no < received'[u.conn]
    <3>1. u.conn \in Handlers /\ u.no \in Nat /\ received[u.conn] \in Nat
      BY <1>0, <1>2, <2>1, <2>3
    <3>2. QED
      BY <1>1, <2>1, <2>3, <3>1
  <2>8. \A t \in Admitted, u \in refused' : t.conn = u.conn => t.no < u.no
    BY <1>1, <2>1, <2>3, <2>6
  <2>9. QED
    BY <2>1, <2>2, <2>5, <2>7, <2>8 DEF RefusedInv, OnlyTailRefused
<1>8. ASSUME NEW h \in Handlers, Put(h) PROVE RefusedInv'
  <2> DEFINE p == pending[h]
  <2>1. /\ pc[h] = "putting" /\ pc'[h] = "receiving"
        /\ \A g \in Handlers \ {h} : pc'[g] = pc[g] /\ pending'[g] = pending[g]
        /\ received' = received /\ stopping' = stopping /\ refused' = refused
    <3>1. pending \in [Handlers -> Item]
      BY DEF TypeOK, HandlersOK
    <3>2. QED
      BY <1>0, <1>8, <3>1 DEF Put, closeVars
  <2>2. Admitted' = Admitted \cup {p}
    BY <1>8, AdmittedPut
  <2>3. p \in Task /\ p.conn = h /\ p.no = received[h]
    BY <1>0, <2>1
  <2>4. /\ Pending(h) = {p} /\ Pending(h)' = {}
        /\ \A g \in Handlers \ {h} : Pending(g)' = Pending(g)
    BY <2>1 DEF Pending
  <2>5. ASSUME NEW g \in Handlers, NEW n \in 1 .. received[g]
        PROVE  \E t \in Admitted' \cup refused \cup Pending(g)' : t.conn = g /\ t.no = n
    <3>1. PICK t \in Admitted \cup refused \cup Pending(g) : t.conn = g /\ t.no = n
      BY <1>1
    <3>2. t \in Admitted' \cup refused \cup Pending(g)'
      BY <2>2, <2>4, <3>1
    <3>3. QED
      BY <3>1, <3>2
  <2>6. \A u \in refused : u.conn # h
    BY <1>1, <2>1
  <2>7. \A t \in Admitted', u \in refused : t.conn = u.conn => t.no < u.no
    BY <1>1, <2>2, <2>3, <2>6
  <2>8. ASSUME NEW u \in refused
        PROVE  /\ stopping' /\ pc'[u.conn] # "putting"
               /\ u.no <= received'[u.conn]
               /\ pc'[u.conn] # "receiving" => u.no < received'[u.conn]
    <3>1. u.conn \in Handlers \ {h}
      BY <1>0, <1>2, <2>6
    <3>2. QED
      BY <1>1, <2>1, <3>1
  <2>9. QED
    BY <2>1, <2>5, <2>7, <2>8 DEF RefusedInv, OnlyTailRefused
<1>9. CASE UNCHANGED <<pc, pending, received, accepted, refused>>
  <2>1. Admitted' = Admitted /\ \A g \in Handlers : Pending(g)' = Pending(g)
    BY <1>9 DEF Admitted, Pending
  <2>2. QED
    BY <1>1, <1>4, <1>9, <2>1 DEF RefusedInv, OnlyTailRefused
<1>10. ASSUME NEW s \in Shards, Work(s) PROVE UNCHANGED <<pc, pending, received, accepted, refused>>
  BY <1>10 DEF Work, Get, InsertPacket, InsertRaises, QuarantinePacket, QuarantineRaises, TaskDone,
               WorkerDies, Settle, handlerVars
<1>11. QED
  BY <1>5, <1>6, <1>7, <1>8, <1>9, <1>10, ClosingFrame DEF Next, Submitting, vars, handlerVars

\* The invariant about refused packets holds.
THEOREM RefusedCorrect == Spec => []RefusedInv
<1>1. Init => RefusedInv
  <2> SUFFICES ASSUME Init PROVE RefusedInv
    OBVIOUS
  <2>1. refused = {} /\ \A h \in Handlers : 1 .. received[h] = {}
    BY DEF Init
  <2>2. QED
    BY <2>1 DEF RefusedInv, OnlyTailRefused
<1>2. TypeOK /\ OrderInv /\ RefusedInv /\ [Next]_vars => RefusedInv'
  BY RefusedStep DEF OrderInv
<1>3. QED
  BY <1>1, <1>2, TypeCorrect, OrderCorrect, PTL DEF Spec

\* No packet of a connection is passed over before the stop, whatever the number of
\* connections, shards and queue slots: what submit() refuses is a tail, with one late packet before.
THEOREM StopTakesTheTailCorrect == Spec => []StopTakesTheTail
<1>1. RefusedInv /\ OneLatePerConnection => StopTakesTheTail
  BY DEF RefusedInv, StopTakesTheTail
<1>2. QED
  BY <1>1, RefusedCorrect, OneLateCorrect, PTL

-----------------------------------------------------------------------------
(* The markers. *)

\* Once put, a marker stays put.
LEMMA MarkerPutStable ==
  ASSUME TypeOK, [Next]_vars, NEW s \in Shards, MarkerPut(s)
  PROVE  MarkerPut(s)'
<1>1. s \in Int /\ at \in Int
  BY DEF Shards, TypeOK, CloserOK
<1>2. CASE CloseBegin \/ DeadlinePasses
  BY <1>2 DEF CloseBegin, DeadlinePasses, MarkerPut
<1>3. CASE Closing \/ Killed
  BY <1>1, <1>3 DEF Closing, MarkerPut, DrainShard, DrainEnds, TryMarker, PutMarker,
                    MarkerTimesOut, JoinWorkers, ProcessExits, Killed
<1>4. CASE UNCHANGED <<closer, at>>
  BY <1>4 DEF MarkerPut
<1>5. ASSUME NEW h \in Handlers, Receive(h) \/ Submitting(h) PROVE UNCHANGED <<closer, at>>
  BY <1>5 DEF Receive, Submitting, PassStoppingCheck, Refuse, Put, PutTimesOut, closeVars
<1>6. ASSUME NEW r \in Shards, Work(r) PROVE UNCHANGED <<closer, at>>
  BY <1>6 DEF Work, Get, InsertPacket, InsertRaises, QuarantinePacket, QuarantineRaises, TaskDone,
             WorkerDies, Settle, closeVars
<1>7. QED
  BY <1>2, <1>3, <1>4, <1>5, <1>6 DEF Next, vars, closeVars

\* What is put into a shard that has its marker is late.
LEMMA PutBehindMarker ==
  ASSUME TypeOK, NEW h \in Handlers, Put(h), stopping
  PROVE  pending[h] \in late'
BY DEF Put

\* A step that puts and takes nothing leaves the queues alone, and no worker
\* comes to hold or to have obeyed a marker by it.
LEMMA MarkerFrame ==
  ASSUME TypeOK, [Next]_vars,
         ~ \E h \in Handlers : Put(h),
         ~ \E s \in Shards : Get(s),
         ~ PutMarker
  PROVE  queue' = queue /\ \A s \in Shards : TookMarker(s)' => TookMarker(s)
<1>1. ASSUME NEW h \in Handlers, Receive(h) \/ PassStoppingCheck(h) \/ Refuse(h) \/ PutTimesOut(h)
      PROVE UNCHANGED <<queue, worker, hand>>
  BY <1>1 DEF Receive, PassStoppingCheck, Refuse, PutTimesOut, workerVars
<1>2. ASSUME NEW r \in Shards, TaskDone(r)
      PROVE queue' = queue /\ \A s \in Shards : TookMarker(s)' => TookMarker(s)
  <2>1. /\ queue' = queue /\ worker[r] = "finishing"
        /\ worker'[r] = "exited" => hand[r] = None
        /\ worker'[r] \in {"exited", "getting"}
        /\ \A s \in Shards \ {r} : worker'[s] = worker[s] /\ hand'[s] = hand[s]
    BY <1>2 DEF TaskDone, TypeOK, WorkersOK
  <2>2. QED
    BY <2>1 DEF TookMarker
<1>3. ASSUME NEW r \in Shards,
             \/ InsertRaises(r) \/ InsertPacket(r) \/ QuarantinePacket(r)
             \/ QuarantineRaises(r) \/ WorkerDies(r)
      PROVE queue' = queue /\ \A s \in Shards : TookMarker(s)' => TookMarker(s)
  <2>1. /\ queue' = queue /\ hand' = hand /\ worker'[r] # "exited"
        /\ hand[r] \in Task
        /\ \A s \in Shards \ {r} : worker'[s] = worker[s]
    BY <1>3 DEF InsertRaises, InsertPacket, QuarantinePacket, QuarantineRaises, WorkerDies, Settle,
                TypeOK, WorkersOK, HasPacket
  <2>2. hand[r] # None
    BY <2>1, ConstantsAssumption
  <2>3. QED
    BY <2>1, <2>2 DEF TookMarker
<1>4. CASE UNCHANGED <<queue, worker, hand>>
  BY <1>4 DEF TookMarker
<1>5. QED
  BY <1>1, <1>2, <1>3, <1>4, ClosingFrame DEF Next, Submitting, Work, vars, workerVars

\* A shard without its marker has none in its queue and none obeyed.
LEMMA NoMarkerYet ==
  ASSUME MarkerInv, NEW s \in Shards, ~MarkerPut(s)
  PROVE  ~TookMarker(s) /\ \A i \in 1 .. Len(queue[s]) : queue[s][i] # None
BY DEF MarkerInv

\* Nothing but late packets gets behind a marker.
LEMMA MarkerStep == TypeOK /\ MarkerInv /\ [Next]_vars => MarkerInv'
<1> SUFFICES ASSUME TypeOK, MarkerInv, [Next]_vars PROVE MarkerInv'
  OBVIOUS
<1>0. late \subseteq late'
  BY LateFrame
<1>1. ASSUME NEW s \in Shards, queue'[s] = queue[s], TookMarker(s)' => TookMarker(s)
      PROVE  /\ (TookMarker(s)' \/ \E i \in 1 .. Len(queue'[s]) : queue'[s][i] = None) => MarkerPut(s)'
             /\ TookMarker(s)' => \A i \in 1 .. Len(queue'[s]) : queue'[s][i] \in late'
             /\ \A i, j \in 1 .. Len(queue'[s]) :
                  i < j /\ queue'[s][i] = None => queue'[s][j] \in late'
  BY <1>0, <1>1, MarkerPutStable DEF MarkerInv
<1>2. ASSUME NEW h \in Handlers, Put(h) PROVE MarkerInv'
  <2> DEFINE t == pending[h]
  <2>1. t \in Task /\ t # None /\ ShardOf(t) \in Shards
    BY <1>2, ConstantsAssumption, ShardOfType DEF Put, TypeOK, HandlersOK
  <2>2. /\ queue' = [queue EXCEPT ![ShardOf(t)] = Append(queue[ShardOf(t)], t)]
        /\ queue \in [Shards -> Seq(Item)] /\ worker' = worker /\ hand' = hand
    BY <1>2 DEF Put, workerVars, TypeOK, QueuesOK
  <2>3. \A s \in Shards : TookMarker(s)' => TookMarker(s)
    BY <2>2 DEF TookMarker
  <2>4. \A s \in Shards \ {ShardOf(t)} : queue'[s] = queue[s]
    BY <2>2
  <2>5. PICK s \in Shards : s = ShardOf(t)
    BY <2>1
  <2>6. queue'[s] = Append(queue[s], t) /\ queue[s] \in Seq(Item) /\ t \in Item
    BY <2>1, <2>2, <2>5 DEF Item
  <2>7. /\ Len(queue[s]) \in Nat /\ Len(queue'[s]) = Len(queue[s]) + 1
        /\ \A i \in 1 .. Len(queue[s]) : queue'[s][i] = queue[s][i]
        /\ queue'[s][Len(queue[s]) + 1] = t
    BY <2>6, AppendProperties
  <2>8. MarkerPut(s) => t \in late'
    <3>1. Alive
      BY <1>2 DEF Put
    <3>2. MarkerPut(s) => stopping
      BY <3>1 DEF Alive, MarkerPut, TypeOK, FlagsOK
    <3>3. QED
      BY <1>2, <3>2, PutBehindMarker
  <2>9. \A i \in 1 .. Len(queue'[s]) : i \in 1 .. Len(queue[s]) \/ queue'[s][i] = t
    BY <2>7
  <2>10. (TookMarker(s)' \/ \E i \in 1 .. Len(queue'[s]) : queue'[s][i] = None) => MarkerPut(s)
    BY <2>1, <2>3, <2>7, <2>9 DEF MarkerInv
  <2>11. TookMarker(s)' => \A i \in 1 .. Len(queue'[s]) : queue'[s][i] \in late'
    BY <1>0, <2>3, <2>7, <2>8, <2>9 DEF MarkerInv
  <2>12. ASSUME NEW i \in 1 .. Len(queue'[s]), NEW j \in 1 .. Len(queue'[s]),
                i < j, queue'[s][i] = None
         PROVE  queue'[s][j] \in late'
    <3>1. i \in 1 .. Len(queue[s]) /\ queue[s][i] = None
      BY <2>1, <2>7, <2>9, <2>12
    <3>2. MarkerPut(s)
      BY <3>1 DEF MarkerInv
    <3>3. QED
      BY <1>0, <2>7, <2>8, <2>9, <2>12, <3>1, <3>2 DEF MarkerInv
  <2>13. MarkerPut(s) => MarkerPut(s)'
    BY MarkerPutStable
  <2>14. QED
    BY <1>1, <2>3, <2>4, <2>5, <2>10, <2>11, <2>12, <2>13 DEF MarkerInv
<1>3. CASE PutMarker
  <2>1. /\ queue' = [queue EXCEPT ![at] = Append(queue[at], None)]
        /\ queue \in [Shards -> Seq(Item)] /\ worker' = worker /\ hand' = hand
        /\ closer = "markerput" /\ closer' = "marking" /\ at' = at + 1
    BY <1>3 DEF PutMarker, workerVars, TypeOK, QueuesOK
  <2>2. PICK s \in Shards : s = at
    BY <1>3, WorkerCountPositive DEF PutMarker, TypeOK, CloserOK, Shards
  <2>3. queue'[s] = Append(queue[s], None) /\ queue[s] \in Seq(Item) /\ None \in Item
    BY <2>1, <2>2 DEF Item
  <2>4. /\ Len(queue[s]) \in Nat /\ Len(queue'[s]) = Len(queue[s]) + 1
        /\ \A i \in 1 .. Len(queue[s]) : queue'[s][i] = queue[s][i]
    BY <2>3, AppendProperties
  <2>5. ~MarkerPut(s)
    BY <2>1, <2>2 DEF MarkerPut, Shards
  <2>6. MarkerPut(s)'
    BY <2>1, <2>2 DEF MarkerPut, Shards
  <2>7. ~TookMarker(s) /\ \A i \in 1 .. Len(queue[s]) : queue[s][i] # None
    BY <2>5, NoMarkerYet
  <2>8. \A r \in Shards : TookMarker(r)' => TookMarker(r)
    BY <2>1 DEF TookMarker
  <2>9. \A r \in Shards \ {s} : queue'[r] = queue[r]
    BY <2>1, <2>2
  <2>10. \A i, j \in 1 .. Len(queue'[s]) : i < j => queue'[s][i] # None
    BY <2>4, <2>7
  <2>11. QED
    BY <1>1, <2>6, <2>7, <2>8, <2>9, <2>10 DEF MarkerInv
<1>4. ASSUME NEW s \in Shards, Get(s) PROVE MarkerInv'
  <2>1. /\ queue[s] \in Seq(Item) /\ queue[s] # << >> /\ worker[s] = "getting"
        /\ queue'[s] = Tail(queue[s]) /\ hand'[s] = Head(queue[s]) /\ worker'[s] # "exited"
        /\ \A r \in Shards \ {s} : queue'[r] = queue[r] /\ hand'[r] = hand[r] /\ worker'[r] = worker[r]
    BY <1>4 DEF Get, TypeOK, QueuesOK, WorkersOK
  <2>2. /\ Len(queue[s]) \in Nat \ {0} /\ Len(queue'[s]) = Len(queue[s]) - 1
        /\ queue[s][1] = Head(queue[s])
        /\ \A i \in 1 .. Len(queue'[s]) : queue'[s][i] = queue[s][i + 1]
    BY <2>1, HeadTailProperties, EmptySeq
  <2>3. \A r \in Shards \ {s} : TookMarker(r)' => TookMarker(r)
    BY <2>1 DEF TookMarker
  <2>4. TookMarker(s)' => queue[s][1] = None
    BY <2>1, <2>2 DEF TookMarker
  <2>5. \A i \in 1 .. Len(queue'[s]) : i + 1 \in 1 .. Len(queue[s]) /\ 1 < i + 1
    BY <2>2
  <2>6. (TookMarker(s)' \/ \E i \in 1 .. Len(queue'[s]) : queue'[s][i] = None) => MarkerPut(s)
    BY <2>2, <2>4, <2>5 DEF MarkerInv
  <2>7. ASSUME TookMarker(s)', NEW i \in 1 .. Len(queue'[s]) PROVE queue'[s][i] \in late'
    <3>1. queue[s][1] = None /\ 1 \in 1 .. Len(queue[s])
      BY <2>2, <2>4, <2>7
    <3>2. queue[s][i + 1] \in late
      BY <2>5, <3>1 DEF MarkerInv
    <3>3. QED
      BY <1>0, <2>2, <3>2
  <2>8. ASSUME NEW i \in 1 .. Len(queue'[s]), NEW j \in 1 .. Len(queue'[s]),
               i < j, queue'[s][i] = None
        PROVE  queue'[s][j] \in late'
    <3>1. i + 1 < j + 1 /\ queue[s][i + 1] = None
      BY <2>2, <2>8
    <3>2. queue[s][j + 1] \in late
      BY <2>5, <3>1 DEF MarkerInv
    <3>3. QED
      BY <1>0, <2>2, <3>2
  <2>9. MarkerPut(s) => MarkerPut(s)'
    BY MarkerPutStable
  <2>10. QED
    BY <1>1, <2>1, <2>3, <2>6, <2>7, <2>8, <2>9 DEF MarkerInv
<1>5. CASE ~(\E h \in Handlers : Put(h)) /\ ~(\E s \in Shards : Get(s)) /\ ~PutMarker
  BY <1>1, <1>5, MarkerFrame DEF MarkerInv
<1>6. QED
  BY <1>2, <1>3, <1>4, <1>5

\* The marker invariant holds initially and is inductive.
THEOREM MarkerCorrect == Spec => []MarkerInv
<1>1. Init => MarkerInv
  BY DEF Init, MarkerInv, TookMarker
<1>2. QED
  BY <1>1, MarkerStep, TypeCorrect, PTL DEF Spec

\* A worker that obeyed its marker left nothing behind but packets put after
\* the stop, whether or not the deadline was met.
THEOREM ExitedWorkerCorrect == Spec => []ExitedWorkerLeavesLate
<1>1. MarkerInv => ExitedWorkerLeavesLate
  BY DEF MarkerInv, ExitedWorkerLeavesLate, TookMarker
<1>2. QED
  BY <1>1, MarkerCorrect, PTL

-----------------------------------------------------------------------------
(* Lost packets. *)

Gone(s) == worker[s] \in {"raising", "died"}

\* A dead worker stays dead, with the packet it died with.
LEMMA GoneStable ==
  ASSUME TypeOK, [Next]_vars, NEW r \in Shards
  PROVE  /\ Gone(r) => Gone(r)' /\ hand'[r] = hand[r]
         /\ Gone(r)' => Gone(r) \/ QuarantineRaises(r)
<1>1. CASE UNCHANGED workerVars
  BY <1>1 DEF workerVars, Gone
<1>2. ASSUME NEW h \in Handlers, Receive(h) \/ Submitting(h) PROVE UNCHANGED workerVars
  BY <1>2 DEF Receive, Submitting, PassStoppingCheck, Refuse, Put, PutTimesOut
<1>3. ASSUME NEW s \in Shards, Work(s), s # r
      PROVE  worker'[r] = worker[r] /\ hand'[r] = hand[r]
  BY <1>3 DEF Work, Get, InsertPacket, InsertRaises, QuarantinePacket, QuarantineRaises, TaskDone,
              WorkerDies, Settle, TypeOK, WorkersOK
<1>4. CASE \/ Get(r) \/ InsertPacket(r) \/ InsertRaises(r) \/ QuarantinePacket(r) \/ TaskDone(r)
  <2>1. worker[r] \in {"getting", "inserting", "quarantining", "finishing"}
    BY <1>4 DEF Get, InsertPacket, InsertRaises, QuarantinePacket, TaskDone
  <2>2. worker'[r] \in {"getting", "inserting", "quarantining", "finishing", "exited"}
    BY <1>4 DEF Get, InsertPacket, InsertRaises, QuarantinePacket, TaskDone, Settle, TypeOK, WorkersOK
  <2>3. QED
    BY <2>1, <2>2 DEF Gone
<1>5. CASE QuarantineRaises(r)
  <2>1. worker[r] = "quarantining" /\ hand' = hand
    BY <1>5 DEF QuarantineRaises
  <2>2. QED
    BY <1>5, <2>1 DEF Gone
<1>6. CASE WorkerDies(r)
  <2>1. worker[r] = "raising" /\ worker'[r] = "died" /\ hand' = hand
    BY <1>6 DEF WorkerDies, TypeOK, WorkersOK
  <2>2. QED
    BY <2>1 DEF Gone
<1>7. QED
  <2>1. \/ UNCHANGED workerVars
        \/ \E s \in Shards : Work(s)
    BY <1>2, ClosingFrame DEF Next, vars
  <2>2. ASSUME NEW s \in Shards, Work(s)
        PROVE  /\ Gone(r) => Gone(r)' /\ hand'[r] = hand[r]
               /\ Gone(r)' => Gone(r) \/ QuarantineRaises(r)
    <3>1. CASE s = r
      BY <1>4, <1>5, <1>6, <2>2, <3>1 DEF Work
    <3>2. CASE s # r
      BY <1>3, <2>2, <3>2 DEF Gone
    <3>3. QED
      BY <3>1, <3>2
  <2>3. QED
    BY <1>1, <2>1, <2>2

\* What is lost stays lost.
LEMMA LostStable ==
  ASSUME TypeOK, [Next]_vars
  PROVE  Lost \subseteq Lost'
<1>1. Lost = {hand[s] : s \in {r \in Shards : Gone(r)}}
  BY DEF Lost, Gone
<1>2. Lost' = {hand'[s] : s \in {r \in Shards : Gone(r)'}}
  BY DEF Lost, Gone
<1>3. QED
  BY <1>1, <1>2, GoneStable

\* Only an exception of quarantine_path() loses a packet.
LEMMA LostFrame ==
  ASSUME TypeOK, [Next]_vars, ~ \E s \in Shards : QuarantineRaises(s)
  PROVE  Lost' = Lost
<1>1. Lost = {hand[s] : s \in {r \in Shards : Gone(r)}}
  BY DEF Lost, Gone
<1>2. Lost' = {hand'[s] : s \in {r \in Shards : Gone(r)'}}
  BY DEF Lost, Gone
<1>3. QED
  BY <1>1, <1>2, GoneStable

\* It loses the packet in its worker's hand.
LEMMA LostRaise ==
  ASSUME TypeOK, [Next]_vars, NEW s \in Shards, QuarantineRaises(s)
  PROVE  Lost' = Lost \cup {hand[s]}
<1>1. Lost = {hand[r] : r \in {r \in Shards : Gone(r)}}
  BY DEF Lost, Gone
<1>2. Lost' = {hand'[r] : r \in {r \in Shards : Gone(r)'}}
  BY DEF Lost, Gone
<1>3. hand' = hand /\ Gone(s)'
  BY DEF QuarantineRaises, Gone, TypeOK, WorkersOK
<1>4. \A r \in Shards : Gone(r)' <=> Gone(r) \/ r = s
  <2>1. \A r \in Shards \ {s} : worker'[r] = worker[r]
    BY DEF QuarantineRaises, TypeOK, WorkersOK
  <2>2. QED
    BY <1>3, <2>1 DEF Gone
<1>5. QED
  BY <1>1, <1>2, <1>3, <1>4

-----------------------------------------------------------------------------
(* Draining. *)

\* After the stop, only late packets and markers join a line, and what is lost in it
\* stays lost.
LEMMA OnlyLateStable ==
  ASSUME TypeOK, [Next]_vars, stopping, NEW s \in Shards, OnlyLate(s)
  PROVE  OnlyLate(s)'
<1> DEFINE L == late' \cup Lost'
<1>0. late \subseteq late' /\ Lost \subseteq Lost'
  BY LateFrame, LostStable
<1>1. \A i \in 1 .. Len(Line(s)) : Line(s)[i] = None \/ Line(s)[i] \in L
  BY <1>0 DEF OnlyLate
<1>2. CASE Line(s)' = Line(s)
  BY <1>1, <1>2 DEF OnlyLate
<1>3. ASSUME NEW x \in Item, Line(s)' = Append(Line(s), x), x = None \/ x \in L
      PROVE  OnlyLate(s)'
  <2>1. /\ Len(Line(s)) \in Nat /\ Len(Line(s)') = Len(Line(s)) + 1
        /\ \A i \in 1 .. Len(Line(s)) : Line(s)'[i] = Line(s)[i]
        /\ Line(s)'[Len(Line(s)) + 1] = x
    BY <1>3, LineAppended
  <2>2. ASSUME NEW i \in 1 .. Len(Line(s)') PROVE Line(s)'[i] = None \/ Line(s)'[i] \in L
    BY <1>1, <1>3, <2>1
  <2>3. QED
    BY <2>2 DEF OnlyLate
<1>4. CASE Line(s) # << >> /\ Line(s)' = Tail(Line(s))
  <2>1. /\ Len(Line(s)) \in Nat \ {0} /\ Len(Line(s)') = Len(Line(s)) - 1
        /\ \A i \in 1 .. Len(Line(s)) - 1 : Line(s)'[i] = Line(s)[i + 1]
    BY <1>4, LineShifted
  <2>2. ASSUME NEW i \in 1 .. Len(Line(s)') PROVE Line(s)'[i] = None \/ Line(s)'[i] \in L
    <3>1. i \in 1 .. Len(Line(s)) - 1 /\ i + 1 \in 1 .. Len(Line(s))
      BY <2>1
    <3>2. QED
      BY <1>1, <2>1, <3>1
  <2>3. QED
    BY <2>2 DEF OnlyLate
<1>5. ASSUME NEW h \in Handlers, Put(h) PROVE OnlyLate(s)'
  <2>1. pending[h] \in L /\ pending[h] \in Item
    BY <1>5, PutBehindMarker, LinePut DEF Item
  <2>2. QED
    BY <1>2, <1>3, <1>5, <2>1, LinePut
<1>6. CASE PutMarker
  <2>1. None \in Item
    BY DEF Item
  <2>2. QED
    BY <1>2, <1>3, <1>6, <2>1, LineMarker
<1>7. ASSUME NEW r \in Shards, Get(r) \/ InsertPacket(r) \/ QuarantinePacket(r) PROVE OnlyLate(s)'
  <2>1. CASE r = s
    BY <1>2, <1>4, <1>7, <2>1, LineGet, LineSettle
  <2>2. CASE r # s
    BY <1>2, <1>7, <2>2, LineGet, LineSettle
  <2>3. QED
    BY <2>1, <2>2
<1>8. QED
  BY <1>2, <1>5, <1>6, <1>7, LineFrame

\* The shards that close() has found without an unfinished task.
Drained(s) == (closer = "draining" /\ s < at) \/ closer \in {"marking", "markerput", "closed", "exited"}

\* A shard is found drained in DrainShard, which a met deadline leaves only one
\* way to take: unfinished_tasks is 0.
LEMMA BecomesDrained ==
  ASSUME TypeOK, [Next]_vars, ~expired', NEW s \in Shards, Drained(s)', ~Drained(s)
  PROVE  unfinished[s] = 0 /\ queue' = queue /\ worker' = worker /\ hand' = hand
<1>1. s \in Int /\ at \in Int /\ s < WorkerCount /\ WorkerCount \in Int
  BY WorkerCountPositive DEF Shards, TypeOK, CloserOK
<1>2. CASE DrainShard
  BY <1>1, <1>2 DEF DrainShard, Drained, workerVars
<1>3. CASE CloseBegin
  <2>1. closer' = "draining" /\ at' = 0
    BY <1>3 DEF CloseBegin, TypeOK, CloserOK
  <2>2. QED
    BY <2>1 DEF Drained, Shards
<1>4. CASE DeadlinePasses
  BY <1>4 DEF DeadlinePasses, Drained
<1>5. CASE \/ DrainEnds \/ TryMarker \/ PutMarker \/ MarkerTimesOut
           \/ JoinWorkers \/ ProcessExits \/ Killed
  BY <1>1, <1>5 DEF DrainEnds, TryMarker, PutMarker, MarkerTimesOut, JoinWorkers, ProcessExits,
                    Killed, Drained
<1>6. CASE UNCHANGED <<closer, at>>
  BY <1>6 DEF Drained
<1>7. ASSUME NEW h \in Handlers, Receive(h) \/ Submitting(h) PROVE UNCHANGED <<closer, at>>
  BY <1>7 DEF Receive, Submitting, PassStoppingCheck, Refuse, Put, PutTimesOut, closeVars
<1>8. ASSUME NEW r \in Shards, Work(r) PROVE UNCHANGED <<closer, at>>
  BY <1>8 DEF Work, Get, InsertPacket, InsertRaises, QuarantinePacket, QuarantineRaises, TaskDone,
             WorkerDies, Settle, closeVars
<1>9. QED
  BY <1>2, <1>3, <1>4, <1>5, <1>6, <1>7, <1>8 DEF Next, Closing, vars, closeVars

\* The deadline stays passed.
LEMMA ExpiredStable == TypeOK /\ [Next]_vars /\ expired => expired'
<1> SUFFICES ASSUME TypeOK, [Next]_vars, expired PROVE expired'
  OBVIOUS
<1>1. CASE CloseBegin \/ DeadlinePasses \/ Closing \/ Killed
  BY <1>1 DEF CloseBegin, DeadlinePasses, Closing, DrainShard, DrainEnds, TryMarker, PutMarker,
              MarkerTimesOut, JoinWorkers, ProcessExits, Killed
<1>2. ASSUME NEW h \in Handlers, Receive(h) \/ Submitting(h) PROVE expired' = expired
  BY <1>2 DEF Receive, Submitting, PassStoppingCheck, Refuse, Put, PutTimesOut, closeVars
<1>3. ASSUME NEW r \in Shards, Work(r) PROVE expired' = expired
  BY <1>3 DEF Work, Get, InsertPacket, InsertRaises, QuarantinePacket, QuarantineRaises, TaskDone,
             WorkerDies, Settle, closeVars
<1>4. QED
  BY <1>1, <1>2, <1>3 DEF Next, vars, closeVars

\* A shard without unfinished tasks has an empty line, or the line of a dead worker
\* with nothing but the packet it died with.
LEMMA NothingUnfinished ==
  ASSUME TypeOK, UnfinishedCounts, NEW s \in Shards, unfinished[s] = 0
  PROVE  OnlyLate(s)
<1>1. queue[s] \in Seq(Item) /\ Len(queue[s]) \in Nat
  BY DEF TypeOK, QueuesOK
<1>2. Len(queue[s]) + InWork(s) = 0 /\ InWork(s) \in {0, 1}
  BY DEF UnfinishedCounts, InWork
<1>3. Len(queue[s]) = 0 /\ InWork(s) = 0
  BY <1>1, <1>2
<1>4. worker[s] \in {"getting", "exited", "died"}
  BY <1>3 DEF InWork
<1>5. queue[s] = << >>
  BY <1>1, <1>3, EmptySeq
<1>6. CASE worker[s] = "died"
  <2>1. HasPacket(s) /\ hand[s] \in Task /\ hand[s] \in Lost
    BY <1>6 DEF HasPacket, Lost, TypeOK, WorkersOK
  <2>2. Line(s) = <<hand[s]>>
    BY <1>5, <2>1 DEF Line
  <2>3. \A i \in 1 .. Len(Line(s)) : Line(s)[i] = hand[s]
    BY <2>2
  <2>4. QED
    BY <2>1, <2>3 DEF OnlyLate
<1>7. CASE worker[s] # "died"
  <2>1. Line(s) = << >>
    BY <1>4, <1>5, <1>7 DEF Line, HasPacket
  <2>2. QED
    BY <2>1 DEF OnlyLate
<1>8. QED
  BY <1>6, <1>7

\* The shards close() has passed hold only late packets.
LEMMA DrainStep == TypeOK /\ UnfinishedCounts /\ DrainInv /\ [Next]_vars => DrainInv'
<1> SUFFICES ASSUME TypeOK, UnfinishedCounts, DrainInv, [Next]_vars, ~expired',
                    NEW s \in Shards, Drained(s)'
             PROVE  OnlyLate(s)'
  BY DEF DrainInv, Drained
<1>1. ~expired
  BY ExpiredStable
<1>2. CASE Drained(s)
  <2>1. OnlyLate(s)
    BY <1>1, <1>2 DEF DrainInv, Drained
  <2>2. stopping
    BY <1>2 DEF Drained, TypeOK, FlagsOK
  <2>3. QED
    BY <2>1, <2>2, OnlyLateStable
<1>3. CASE ~Drained(s)
  <2>1. /\ OnlyLate(s)
        /\ queue' = queue /\ worker' = worker /\ hand' = hand
    BY <1>3, BecomesDrained, NothingUnfinished
  <2>2. Line(s)' = Line(s)
    BY <2>1 DEF Line, HasPacket
  <2>3. late \subseteq late' /\ Lost \subseteq Lost'
    BY LateFrame, LostStable
  <2>4. QED
    BY <2>1, <2>2, <2>3 DEF OnlyLate
<1>4. QED
  BY <1>2, <1>3

\* Without a missed deadline, the shards close() has passed hold only late packets.
THEOREM DrainCorrect == Spec => []DrainInv
<1>1. Init => DrainInv
  BY DEF Init, DrainInv
<1>2. QED
  BY <1>1, DrainStep, TypeCorrect, UnfinishedCorrect, PTL DEF Spec

\* A shutdown that met its deadline leaves unsettled only packets whose put() came
\* after `stopping` was set and the packets that workers died with, for any number of
\* connections, shards and queue slots.
THEOREM GracefulDrainCorrect == Spec => []GracefulDrain
<1>1. TypeOK /\ DrainInv /\ AcceptedIsHeld => GracefulDrain
  <2> SUFFICES ASSUME TypeOK, DrainInv, AcceptedIsHeld,
                      closer \in {"closed", "exited"}, ~expired,
                      NEW d \in Devices, NEW i \in Len(settled[d]) + 1 .. Len(accepted[d])
               PROVE  accepted[d][i] \in late \cup Lost
    BY DEF GracefulDrain
  <2>1. PICK s \in Shards : accepted[d][i] \in Range(Line(s))
    BY DEF AcceptedIsHeld
  <2>2. PICK j \in 1 .. Len(Line(s)) : Line(s)[j] = accepted[d][i]
    BY <2>1, LineType DEF Range
  <2>3. OnlyLate(s)
    BY DEF DrainInv
  <2>4. accepted[d][i] \in Task
    BY HistoryElements
  <2>5. QED
    BY <2>2, <2>3, <2>4, ConstantsAssumption DEF OnlyLate
<1>2. QED
  BY <1>1, DrainCorrect, AcceptedIsHeldCorrect, TypeCorrect, PTL

\* The inductive invariant holds as a whole.
THEOREM PipelineCorrect == Spec => []PipelineInv
<1>1. /\ TypeOK /\ UnfinishedCounts /\ OrderInv /\ MarkerInv /\ DrainInv /\ LateInv
      /\ RefusedInv
      => PipelineInv
  BY DEF PipelineInv
<1>2. QED
  BY <1>1, TypeCorrect, UnfinishedCorrect, OrderCorrect, MarkerCorrect, DrainCorrect,
     LateCorrect, RefusedCorrect, PTL

-----------------------------------------------------------------------------
(* The pipeline implements the packet log. *)

\* Only the first and the last step of close() and a kill change the phase.
LEMMA PhaseFrame ==
  TypeOK /\ [Next]_vars /\ ~CloseBegin /\ ~ProcessExits /\ ~Killed => Phase' = Phase
<1> SUFFICES ASSUME TypeOK, [Next]_vars, ~CloseBegin, ~ProcessExits, ~Killed PROVE Phase' = Phase
  OBVIOUS
<1>1. CASE DeadlinePasses
  BY <1>1 DEF DeadlinePasses, Phase, Alive
<1>2. CASE DrainShard \/ DrainEnds \/ TryMarker \/ PutMarker \/ MarkerTimesOut \/ JoinWorkers
  BY <1>2 DEF DrainShard, DrainEnds, TryMarker, PutMarker, MarkerTimesOut, JoinWorkers, Phase, Alive
<1>3. CASE UNCHANGED closeVars
  BY <1>3 DEF closeVars, Phase, Alive
<1>4. ASSUME NEW h \in Handlers, Receive(h) \/ Submitting(h) PROVE UNCHANGED closeVars
  BY <1>4 DEF Receive, Submitting, PassStoppingCheck, Refuse, Put, PutTimesOut
<1>5. ASSUME NEW r \in Shards, Work(r) PROVE UNCHANGED closeVars
  BY <1>5 DEF Work, Get, InsertPacket, InsertRaises, QuarantinePacket, QuarantineRaises, TaskDone,
             WorkerDies, Settle
<1>6. QED
  BY <1>1, <1>2, <1>3, <1>4, <1>5 DEF Next, Closing, vars

\* The process works on the packets in the phases "open" and "stopping".
LEMMA PhaseRunning ==
  Alive => Phase \in {"open", "stopping"} /\ (Phase = "stopping" <=> stopping)
BY DEF Phase, Alive

\* A put accepts its packet in the log.
LEMMA PutAccepts ==
  ASSUME TypeOK, NumberingInv, LateInv, [Next]_vars, NEW h \in Handlers, Put(h)
  PROVE  pending[h] \in Task /\ Log!Accept(pending[h])
<1> DEFINE p == pending[h]
<1>1. /\ p \in Task /\ p.dev \in Devices /\ p.conn = h /\ p.no = received[h]
      /\ settled' = settled
  BY AcceptedPut
<1>2. /\ Alive /\ pc[h] = "putting"
      /\ accepted' = [accepted EXCEPT ![p.dev] = Append(accepted[p.dev], p)]
      /\ late' = IF stopping THEN late \cup {p} ELSE late
      /\ closer' = closer
  BY DEF Put, closeVars
<1>21. Lost' = Lost
  BY DEF Put, workerVars, Lost
<1>3. Phase' = Phase
  BY <1>2, PhaseFrame DEF CloseBegin, ProcessExits, Killed, Alive
<1>4. Phase \in {"open", "stopping"} /\ (Phase = "stopping" => stopping) /\ (stopping => Phase = "stopping")
  BY <1>2, PhaseRunning
<1>5. ASSUME NEW q \in Log!Range(accepted[p.dev]), q.conn = p.conn PROVE q.no < p.no
  <2>1. accepted[p.dev] \in Seq(Task)
    BY <1>1 DEF TypeOK, HistoryOK
  <2>2. PICK i \in 1 .. Len(accepted[p.dev]) : accepted[p.dev][i] = q
    BY <1>5, <2>1 DEF Log!Range
  <2>3. QED
    BY <1>1, <1>2, <1>5, <2>2 DEF NumberingInv
<1>6. Phase = "stopping" => \A q \in late : q.conn # p.conn
  BY <1>1, <1>2 DEF LateInv
<1>7. QED
  BY <1>1, <1>2, <1>21, <1>3, <1>4, <1>5, <1>6 DEF Log!Accept, Log!Running

\* The packet in a live worker's hand is not a lost one: it is in its own shard's line.
LEMMA InHandNotLost ==
  ASSUME TypeOK, OrderInv, NEW s \in Shards, worker[s] \in {"inserting", "quarantining"}
  PROVE  hand[s] \notin Lost
<1> SUFFICES ASSUME hand[s] \in Lost PROVE FALSE
  OBVIOUS
<1>1. PICK r \in Shards : worker[r] \in {"raising", "died"} /\ hand[r] = hand[s]
  BY DEF Lost
<1>2. HasPacket(s) /\ HasPacket(r) /\ r # s
  BY <1>1 DEF HasPacket
<1>3. /\ hand[s] \in Task /\ hand[s] # None
      /\ Line(s) # << >> /\ Line(s)[1] = hand[s]
      /\ Line(r) # << >> /\ Line(r)[1] = hand[r]
  BY <1>2, LineHead, ConstantsAssumption
<1>4. 1 \in 1 .. Len(Line(s)) /\ 1 \in 1 .. Len(Line(r))
  BY <1>3, LineType, EmptySeq
<1>5. ShardOf(hand[s]) = s /\ ShardOf(hand[s]) = r
  BY <1>1, <1>3, <1>4 DEF OrderInv, WaitingInv
<1>6. QED
  BY <1>2, <1>5

\* What a worker settles or loses is the log's next packet of that device.
LEMMA NextInLog ==
  ASSUME TypeOK, OrderInv, NEW s \in Shards, worker[s] \in {"inserting", "quarantining"}
  PROVE  /\ hand[s].dev \in Devices
         /\ Log!Pending(hand[s].dev) /\ Log!NextOf(hand[s].dev) = hand[s]
<1>1. HasPacket(s)
  BY DEF HasPacket
<1>2. hand[s] \in Task /\ hand[s].dev \in Devices
  BY <1>1 DEF TypeOK, WorkersOK, Task
<1>3. /\ accepted[hand[s].dev][Len(settled[hand[s].dev]) + 1] = hand[s]
      /\ Len(settled[hand[s].dev]) < Len(accepted[hand[s].dev])
  BY <1>1, HeadIsNext
<1>4. hand[s] \notin Lost
  BY InHandNotLost
<1>5. QED
  BY <1>2, <1>3, <1>4 DEF Log!Pending, Log!NextOf

\* A worker's settling is the log's.
LEMMA SettleSettles ==
  ASSUME TypeOK, OrderInv, [Next]_vars, NEW s \in Shards, InsertPacket(s) \/ QuarantinePacket(s)
  PROVE  hand[s].dev \in Devices /\ Log!Settle(hand[s].dev)
<1> DEFINE d == hand[s].dev
<1>1. d \in Devices /\ accepted' = accepted
  BY SettledSettle
<1>2. /\ Alive /\ closer' = closer /\ late' = late
      /\ settled' = [settled EXCEPT ![d] = Append(settled[d], hand[s])]
      /\ worker[s] \in {"inserting", "quarantining"}
  BY DEF InsertPacket, QuarantinePacket, Settle, closeVars
<1>3. Log!Pending(d) /\ Log!NextOf(d) = hand[s]
  BY <1>2, NextInLog
<1>4. Phase' = Phase
  BY <1>2, PhaseFrame DEF CloseBegin, ProcessExits, Killed, Alive
<1>5. Phase \in {"open", "stopping"}
  BY <1>2, PhaseRunning
<1>6. Lost' = Lost
  <2>1. /\ hand' = hand /\ worker'[s] = "finishing"
        /\ \A r \in Shards \ {s} : worker'[r] = worker[r]
    BY DEF InsertPacket, QuarantinePacket, Settle, TypeOK, WorkersOK
  <2>2. QED
    BY <1>2, <2>1 DEF Lost
<1>7. QED
  BY <1>1, <1>2, <1>3, <1>4, <1>5, <1>6 DEF Log!Settle, Log!Running

\* An exception of quarantine_path() loses the log's next packet.
LEMMA RaiseLoses ==
  ASSUME TypeOK, OrderInv, [Next]_vars, NEW s \in Shards, QuarantineRaises(s)
  PROVE  hand[s].dev \in Devices /\ Log!Lose(hand[s].dev)
<1> DEFINE d == hand[s].dev
<1>1. /\ Alive /\ closer' = closer
      /\ accepted' = accepted /\ settled' = settled /\ late' = late
      /\ worker[s] = "quarantining"
  BY DEF QuarantineRaises, closeVars
<1>2. d \in Devices /\ Log!Pending(d) /\ Log!NextOf(d) = hand[s]
  BY <1>1, NextInLog
<1>3. Lost' = Lost \cup {hand[s]}
  BY LostRaise
<1>4. Phase' = Phase
  BY <1>1, PhaseFrame DEF CloseBegin, ProcessExits, Killed, Alive
<1>5. Phase \in {"open", "stopping"}
  BY <1>1, PhaseRunning
<1>6. QED
  BY <1>1, <1>2, <1>3, <1>4, <1>5 DEF Log!Lose, Log!Running

\* Each step of the pipeline is a step of the log or invisible in it.
LEMMA LogStep ==
  TypeOK /\ OrderInv /\ LateInv /\ GracefulDrain /\ [Next]_vars => [Log!Next]_(Log!vars)
<1> SUFFICES ASSUME TypeOK, OrderInv, LateInv, GracefulDrain, [Next]_vars
             PROVE  [Log!Next]_(Log!vars)
  OBVIOUS
<1>1. ASSUME NEW h \in Handlers, Put(h) PROVE Log!Next
  BY <1>1, PutAccepts DEF OrderInv, Log!Next
<1>2. ASSUME NEW s \in Shards, InsertPacket(s) \/ QuarantinePacket(s) PROVE Log!Next
  BY <1>2, SettleSettles DEF Log!Next
<1>21. ASSUME NEW s \in Shards, QuarantineRaises(s) PROVE Log!Next
  BY <1>21, RaiseLoses DEF Log!Next
<1>22. CloseBegin \/ ProcessExits \/ Killed => Lost' = Lost
  BY DEF CloseBegin, ProcessExits, Killed, workerVars, Lost
<1>3. CASE CloseBegin
  <2>1. ~stopping /\ stopping' /\ closer = "serving" /\ closer' = "draining"
    BY <1>3 DEF CloseBegin, TypeOK, FlagsOK
  <2>2. Phase = "open" /\ Phase' = "stopping"
    BY <2>1 DEF Phase, Alive
  <2>3. QED
    BY <1>3, <1>22, <2>2 DEF CloseBegin, Log!Next, Log!Stop
<1>4. CASE ProcessExits
  <2>1. /\ closer = "closed" /\ closer' = "exited" /\ stopping /\ stopping' = stopping
        /\ expired' = expired
        /\ UNCHANGED <<accepted, settled, late>>
    BY <1>4 DEF ProcessExits, TypeOK, FlagsOK
  <2>2. Phase = "stopping" /\ Phase' = IF expired THEN "expired" ELSE "drained"
    BY <2>1 DEF Phase, Alive
  <2>3. CASE expired
    BY <1>4, <1>22, <2>1, <2>2, <2>3 DEF Log!Next, Log!EndExpired
  <2>4. CASE ~expired
    <3>1. \A d \in Devices : \A i \in Len(settled[d]) + 1 .. Len(accepted[d]) :
            accepted[d][i] \in late \cup Lost
      BY <2>1, <2>4 DEF GracefulDrain
    <3>2. QED
      BY <1>4, <1>22, <2>1, <2>2, <2>4, <3>1 DEF Log!Next, Log!EndDrained
  <2>5. QED
    BY <2>3, <2>4
<1>5. CASE Killed
  <2>1. Alive /\ closer' = "killed" /\ UNCHANGED <<accepted, settled, late>>
    BY <1>5 DEF Killed
  <2>2. Phase \in {"open", "stopping"} /\ Phase' = "killed"
    BY <2>1, PhaseRunning DEF Phase
  <2>3. QED
    BY <1>5, <1>22, <2>1, <2>2 DEF Log!Next, Log!Kill, Log!Running
<1>6. CASE /\ ~ \E h \in Handlers : Put(h)
           /\ ~ \E s \in Shards : InsertPacket(s) \/ QuarantinePacket(s)
           /\ ~ \E s \in Shards : QuarantineRaises(s)
           /\ ~CloseBegin /\ ~ProcessExits /\ ~Killed
  <2>1. accepted' = accepted /\ settled' = settled /\ late' = late /\ Lost' = Lost
    BY <1>6, AcceptedFrame, SettledFrame, LateFrame, LostFrame
  <2>2. Phase' = Phase
    BY <1>6, PhaseFrame
  <2>3. QED
    BY <2>1, <2>2 DEF Log!vars
<1>7. QED
  BY <1>1, <1>2, <1>21, <1>3, <1>4, <1>5, <1>6

\* Seen through its histories, the pipeline is a log per device of which a
\* prefix is settled and which stops at a lost packet: every behaviour of Spec is
\* one of the packet log.
THEOREM PacketLogImplemented == Spec => ImplementsPacketLog
<1>1. Init => Log!Init
  BY DEF Init, Log!Init, Phase, Lost
<1>2. QED
  BY <1>1, LogStep, TypeCorrect, OrderCorrect, LateCorrect, GracefulDrainCorrect, PTL
     DEF Spec, ImplementsPacketLog, Log!Spec

=============================================================================
