------------------------ MODULE DeviceStore_proofs ------------------------
(* Proofs about the storing of packets, for every set of packets, every     *)
(* tolerance and any number of calls and errors.                            *)
EXTENDS DeviceStore, TLAPS, SequenceTheorems, FiniteSetTheorems

Owner == Packets \cup {None}

-----------------------------------------------------------------------------
(* Appending. *)

\* Extended() keeps what is there and adds n times the value.
LEMMA ExtendedProperties ==
  ASSUME NEW array \in Seq(Owner), NEW value \in Owner, NEW n \in Nat
  PROVE  /\ Extended(array, value, n) \in Seq(Owner)
         /\ Len(array) \in Nat
         /\ Len(Extended(array, value, n)) = Len(array) + n
         /\ \A i \in 1 .. Len(array) : Extended(array, value, n)[i] = array[i]
         /\ \A i \in Len(array) + 1 .. Len(array) + n : Extended(array, value, n)[i] = value
<1> DEFINE tail == [i \in 1 .. n |-> value]
<1>1. tail \in Seq(Owner) /\ Len(tail) = n
  OBVIOUS
<1>2. Extended(array, value, n) = array \o tail
  BY DEF Extended
<1>3. array \o tail \in Seq(Owner) /\ Len(array \o tail) = Len(array) + n
  BY <1>1, ConcatProperties
<1>4. \A i \in 1 .. Len(array) : (array \o tail)[i] = array[i]
  BY <1>1, ConcatProperties
<1>5. ASSUME NEW i \in Len(array) + 1 .. Len(array) + n PROVE (array \o tail)[i] = value
  <2>1. Len(array) \in Nat /\ i - Len(array) \in 1 .. n
    BY <1>1
  <2>2. (array \o tail)[i] = tail[i - Len(array)]
    BY <1>1, <2>1, ConcatProperties
  <2>3. QED
    BY <2>1, <2>2
<1>6. QED
  BY <1>2, <1>3, <1>4, <1>5

\* What a packet's fields are.
LEMMA PacketFields ==
  ASSUME NEW p \in Packets
  PROVE  p.seq \in Int /\ p.start \in Int /\ p.npts \in Nat /\ End(p) \in Int
BY PacketsAssumption DEF Packet, End

\* Appending a row indexes the row's packet if it is a record, and nothing else.
LEMMA IndexAppended ==
  ASSUME index \in Seq(Row), NEW r \in Row, index' = Append(index, r)
  PROVE  /\ Indexed \subseteq Indexed'
         /\ r.kind = "record" => r.pkt \in Indexed'
         /\ \A p \in Indexed' : p \in Indexed \/ (r.kind = "record" /\ p = r.pkt)
<1>1. /\ Len(index) \in Nat /\ Len(index') = Len(index) + 1
      /\ \A i \in 1 .. Len(index) : index'[i] = index[i]
      /\ index'[Len(index) + 1] = r
  BY AppendProperties
<1>2. ASSUME NEW p \in Indexed PROVE p \in Indexed'
  BY <1>1 DEF Indexed
<1>3. r.kind = "record" => r.pkt \in Indexed'
  BY <1>1 DEF Indexed
<1>4. ASSUME NEW p \in Indexed' PROVE p \in Indexed \/ (r.kind = "record" /\ p = r.pkt)
  BY <1>1 DEF Indexed
<1>5. QED
  BY <1>2, <1>3, <1>4

-----------------------------------------------------------------------------
(* Type correctness. *)

\* All variables have their types initially.
LEMMA InitTypeOK == Init => TypeOK
<1> SUFFICES ASSUME Init PROVE TypeOK
  OBVIOUS
<1>1. ArraysOK
  BY DEF Init, ArraysOK, Indexed
<1>2. AttrsOK
  BY DEF Init, AttrsOK
<1>3. seeded \in BOOLEAN /\ torn \in BOOLEAN
  BY DEF Init
<1>4. CallOK
  BY <1>3 DEF Init, CallOK
<1>5. HistoryOK
  <2>1. calls = 0 /\ faults = 0 /\ answered = {} /\ failed = {}
    BY DEF Init
  <2>2. QED
    BY <1>3, <2>1, BoundsAssumption DEF HistoryOK
<1>6. QED
  BY <1>1, <1>2, <1>4, <1>5 DEF TypeOK

\* What attributes may become.
LEMMA SetAttrsType ==
  ASSUME TypeOK, step # "idle", NEW n \in Nat, SetAttrs(n)
  PROVE  AttrsOK'
<1>1. pkt \in Packets
  BY DEF TypeOK, CallOK
<1>2. QED
  BY <1>1, PacketFields DEF SetAttrs, TypeOK, AttrsOK

\* The arrays are sequences of what they hold.
SequencesOK ==
  /\ samples \in Seq(Owner) /\ raw \in Seq(Owner)
  /\ index \in Seq(Row) /\ gaps \in Seq(GapRow)

\* They stay so.
LEMMA ArraysStep == TypeOK /\ [Next]_vars => SequencesOK'
<1> SUFFICES ASSUME TypeOK, [Next]_vars PROVE SequencesOK'
  OBVIOUS
<1> USE DEF Owner
<1>0. /\ samples \in Seq(Owner) /\ raw \in Seq(Owner) /\ index \in Seq(Row) /\ gaps \in Seq(GapRow)
      /\ Len(samples) \in Nat /\ Len(raw) \in Nat
  BY DEF TypeOK, ArraysOK
<1>1. step # "idle" => pkt \in Packets /\ pkt \in Owner /\ pkt.npts \in Nat /\ pkt.start \in Int
  BY PacketFields DEF TypeOK, CallOK
<1>2. step \in {"zerosamples", "zerorow"} => Delta \in Nat
  BY <1>1, BoundsAssumption DEF TypeOK, CallOK, AttrsOK, Delta
<1>3. None \in Owner
  OBVIOUS
<1>4. CASE UNCHANGED <<arrays, gaps>>
  BY <1>0, <1>4 DEF arrays, SequencesOK
<1>5. CASE SequenceGap
  <2>1. [kind |-> "sequence_gap", pkt |-> pkt] \in GapRow
    BY <1>1, <1>5 DEF SequenceGap, GapRow, GapKinds
  <2>2. gaps' = gaps \/ \E r \in GapRow : gaps' = Append(gaps, r)
    BY <1>5, <2>1 DEF SequenceGap, Gap
  <2>3. gaps' \in Seq(GapRow)
    <3>1. CASE gaps' = gaps
      BY <1>0, <3>1
    <3>2. ASSUME NEW r \in GapRow, gaps' = Append(gaps, r) PROVE gaps' \in Seq(GapRow)
      BY <1>0, <3>2, AppendProperties
    <3>3. QED
      BY <2>2, <3>1, <3>2
  <2>4. QED
    BY <1>0, <1>5, <2>3 DEF SequenceGap, arrays, SequencesOK
<1>6. CASE TimeGap
  <2>1. \A k \in {"time_gap", "time_overlap"} : [kind |-> k, pkt |-> pkt] \in GapRow
    BY <1>1, <1>6 DEF TimeGap, GapRow, GapKinds
  <2>2. gaps' = gaps \/ \E r \in GapRow : gaps' = Append(gaps, r)
    BY <1>6, <2>1 DEF TimeGap, Gap
  <2>3. gaps' \in Seq(GapRow)
    <3>1. CASE gaps' = gaps
      BY <1>0, <3>1
    <3>2. ASSUME NEW r \in GapRow, gaps' = Append(gaps, r) PROVE gaps' \in Seq(GapRow)
      BY <1>0, <3>2, AppendProperties
    <3>3. QED
      BY <2>2, <3>1, <3>2
  <2>4. QED
    BY <1>0, <1>6, <2>3 DEF TimeGap, arrays, SequencesOK
<1>7. CASE ZeroSamples
  BY <1>0, <1>2, <1>3, <1>7, ExtendedProperties DEF ZeroSamples, SequencesOK
<1>8. CASE ZeroRow
  <2>1. [kind |-> "zeros", pkt |-> None, start |-> lastEnd,
         npts |-> Delta, offset |-> offset, rawAt |-> 0] \in Row
    BY <1>2, <1>8 DEF ZeroRow, Row, TypeOK, AttrsOK, CallOK
  <2>2. \E r \in Row : index' = Append(index, r)
    BY <1>8, <2>1 DEF ZeroRow
  <2>3. QED
    BY <1>0, <1>8, <2>2 DEF ZeroRow, SequencesOK
<1>9. CASE RecordSamples
  BY <1>0, <1>1, <1>9, ExtendedProperties DEF RecordSamples, SequencesOK
<1>10. CASE RecordRaw
  BY <1>0, <1>1, <1>10 DEF RecordRaw, SequencesOK
<1>11. CASE RecordRow
  <2>1. [kind |-> "record", pkt |-> pkt, start |-> pkt.start,
         npts |-> pkt.npts, offset |-> offset, rawAt |-> rawAt] \in Row
    BY <1>1, <1>11 DEF RecordRow, Row, TypeOK, CallOK
  <2>2. \E r \in Row : index' = Append(index, r)
    BY <1>11, <2>1 DEF RecordRow
  <2>3. QED
    BY <1>0, <1>11, <2>2 DEF RecordRow, SequencesOK
<1>12. CASE WriteFails
  <2>1. Blank \in Row
    BY DEF Blank, Row
  <2>2. CASE UNCHANGED <<arrays, gaps>>
    BY <1>4, <2>2
  <2>3. CASE step = "zerosamples" /\ samples' = Extended(samples, None, Delta) /\ UNCHANGED <<raw, index, gaps>>
    BY <1>0, <1>2, <1>3, <2>3, ExtendedProperties DEF SequencesOK
  <2>4. CASE samples' = Extended(samples, None, pkt.npts) /\ UNCHANGED <<raw, index, gaps>>
    BY <1>0, <1>1, <1>3, <1>12, <2>4, ExtendedProperties DEF WriteFails, SequencesOK
  <2>5. CASE raw' = Append(raw, None) /\ UNCHANGED <<samples, index, gaps>>
    BY <1>0, <1>3, <2>5 DEF SequencesOK
  <2>6. CASE index' = Append(index, Blank) /\ UNCHANGED <<samples, raw, gaps>>
    BY <1>0, <2>1, <2>6 DEF SequencesOK
  <2>7. CASE gaps' = Append(gaps, BlankGap) /\ UNCHANGED arrays
    <3>1. BlankGap \in GapRow
      BY DEF BlankGap, GapRow
    <3>2. QED
      BY <1>0, <2>7, <3>1 DEF arrays, SequencesOK
  <2>8. QED
    BY <1>12, <2>2, <2>3, <2>4, <2>5, <2>6, <2>7 DEF WriteFails, Residue, arrays
<1>13. QED
  BY <1>4, <1>5, <1>6, <1>7, <1>8, <1>9, <1>10, <1>11, <1>12
     DEF Next, Write, Insert, Open, OpenUnread, OpenForWrite, UpdateAttrs, FlushAndClose,
         ZerosTooLong, Restart, vars

\* The group attributes stay integers.
LEMMA AttrsStep == TypeOK /\ [Next]_vars => AttrsOK'
<1> SUFFICES ASSUME TypeOK, [Next]_vars PROVE AttrsOK'
  OBVIOUS
<1>1. CASE UNCHANGED attrs
  BY <1>1 DEF attrs, TypeOK, AttrsOK
<1>2. CASE UpdateAttrs
  BY <1>2, SetAttrsType DEF UpdateAttrs
<1>3. CASE WriteFails
  <2>1. CASE \E n \in 0 .. 2 : SetAttrs(n)
    BY <1>3, <2>1, SetAttrsType DEF WriteFails
  <2>2. QED
    BY <1>1, <1>3, <2>1 DEF WriteFails, Residue, attrs
<1>4. QED
  BY <1>1, <1>2, <1>3
     DEF Next, Write, Insert, Open, OpenUnread, OpenForWrite, SequenceGap, TimeGap, ZeroSamples,
         ZeroRow, RecordSamples, RecordRaw, RecordRow, FlushAndClose, ZerosTooLong, Restart, vars

\* How the set of stored packets changes: RecordRow adds the packet, every
\* other step leaves it as it is.
LEMMA IndexedStep ==
  ASSUME TypeOK, [Next]_vars
  PROVE  /\ Indexed \subseteq Indexed'
         /\ RecordRow => pkt \in Indexed'
         /\ \A p \in Indexed' : p \in Indexed \/ (RecordRow /\ p = pkt)
<1>1. index \in Seq(Row)
  BY DEF TypeOK, ArraysOK
<1>2. CASE index' = index /\ ~RecordRow
  BY <1>2 DEF Indexed
<1>3. CASE RecordRow
  <2> DEFINE r == [kind |-> "record", pkt |-> pkt, start |-> pkt.start,
                   npts |-> pkt.npts, offset |-> offset, rawAt |-> rawAt]
  <2>1. pkt \in Packets
    BY <1>3 DEF RecordRow, TypeOK, CallOK
  <2>2. r \in Row
    BY <2>1, PacketFields DEF Row, TypeOK, CallOK
  <2>3. index' = Append(index, r) /\ r.kind = "record" /\ r.pkt = pkt
    BY <1>3 DEF RecordRow
  <2> HIDE DEF r
  <2>4. QED
    BY <1>1, <1>3, <2>2, <2>3, IndexAppended
<1>4. CASE ZeroRow
  <2> DEFINE r == [kind |-> "zeros", pkt |-> None, start |-> lastEnd,
                   npts |-> Delta, offset |-> offset, rawAt |-> 0]
  <2>1. pkt \in Packets /\ Delta > Tolerance
    BY <1>4 DEF ZeroRow, TypeOK, CallOK
  <2>2. Delta \in Nat
    BY <2>1, PacketFields, BoundsAssumption DEF Delta, TypeOK, AttrsOK
  <2>3. r \in Row
    BY <2>2 DEF Row, TypeOK, CallOK, AttrsOK
  <2>4. index' = Append(index, r) /\ r.kind = "zeros" /\ ~RecordRow
    BY <1>4 DEF ZeroRow, RecordRow
  <2> HIDE DEF r
  <2>5. QED
    BY <1>1, <2>3, <2>4, IndexAppended
<1>5. CASE WriteFails /\ index' # index
  <2>1. Blank \in Row /\ Blank.kind = "blank"
    BY DEF Blank, Row
  <2>2. index' = Append(index, Blank) /\ step' \in {"opening", "idle"}
    BY <1>5 DEF WriteFails, Residue, arrays, RetryOrRaise, Return
  <2>3. ~RecordRow
    BY <2>2 DEF RecordRow
  <2>4. QED
    BY <1>1, <2>1, <2>2, <2>3, IndexAppended
<1>6. CASE WriteFails /\ index' = index
  <2>1. step' \in {"opening", "idle"}
    BY <1>6 DEF WriteFails, RetryOrRaise, Return
  <2>2. ~RecordRow
    BY <2>1 DEF RecordRow
  <2>3. QED
    BY <1>2, <1>6, <2>2
<1>7. CASE \/ \E p \in Packets : Insert(p)
           \/ Open \/ OpenUnread \/ SequenceGap \/ TimeGap \/ ZeroSamples
           \/ RecordSamples \/ RecordRaw \/ UpdateAttrs \/ FlushAndClose
           \/ ZerosTooLong \/ Restart
  <2>1. index' = index
    BY <1>7 DEF Insert, Open, OpenUnread, OpenForWrite, SequenceGap, TimeGap, ZeroSamples,
                RecordSamples, RecordRaw, UpdateAttrs, FlushAndClose, ZerosTooLong, Restart, arrays
  <2>2. ~RecordRow
    BY <1>3, <2>1, <1>7 DEF RecordRow, Insert, Open, OpenUnread, OpenForWrite, Return, SequenceGap, TimeGap,
                ZeroSamples, RecordSamples, RecordRaw, UpdateAttrs, FlushAndClose, ZerosTooLong,
                RetryOrRaise, Restart
  <2>3. QED
    BY <1>2, <2>1, <2>2
<1>8. CASE UNCHANGED vars
  BY <1>2, <1>8 DEF vars, arrays, RecordRow
<1>9. QED
  BY <1>3, <1>4, <1>5, <1>6, <1>7, <1>8 DEF Next, Write

\* The sequences and the stored packets have their types after a step.
LEMMA ArraysOKStep == TypeOK /\ [Next]_vars => ArraysOK'
<1> SUFFICES ASSUME TypeOK, [Next]_vars PROVE ArraysOK'
  OBVIOUS
<1>1. SequencesOK'
  BY ArraysStep
<1>2. RecordRow => pkt \in Packets
  BY DEF RecordRow, TypeOK, CallOK
<1>3. Indexed' \subseteq Packets
  BY <1>2, IndexedStep DEF TypeOK, ArraysOK
<1>4. QED
  BY <1>1, <1>3 DEF SequencesOK, ArraysOK, Owner

\* A step within a call that touches neither the attributes nor the bookkeeping.
LEMMA CallAdvance ==
  ASSUME TypeOK, step # "idle",
         UNCHANGED <<attrs, memory, pkt, attempt>>, offset' \in Nat, rawAt' \in Nat,
         step' \in {"opening", "seqgap", "timegap", "zerosamples", "zerorow",
                    "samples", "raw", "row", "attrs", "flush"},
         step' \in {"zerosamples", "zerorow"} => Delta > Tolerance
  PROVE  CallOK'
<1>1. pkt \in Packets /\ attempt \in {1, 2} /\ attempt \in 0 .. 2
  BY DEF TypeOK, CallOK
<1>2. cache' \subseteq Packets /\ seeded' \in BOOLEAN
  BY DEF memory, TypeOK, CallOK
<1>3. Delta' = Delta
  BY DEF attrs, Delta
<1>4. QED
  BY <1>1, <1>2, <1>3 DEF CallOK

\* A call ends.
LEMMA CallReturns ==
  ASSUME TypeOK, Return, cache' \subseteq Packets, seeded' \in BOOLEAN
  PROVE  CallOK'
BY DEF Return, CallOK

\* The call's variables keep their types.
LEMMA CallStep == TypeOK /\ [Next]_vars => CallOK'
<1> SUFFICES ASSUME TypeOK, [Next]_vars PROVE CallOK'
  OBVIOUS
<1>0. /\ cache \subseteq Packets /\ seeded \in BOOLEAN /\ offset \in Nat /\ rawAt \in Nat
      /\ attempt \in 0 .. 2 /\ Len(samples) \in Nat /\ Len(raw) \in Nat
      /\ Indexed \subseteq Packets
      /\ step # "idle" => pkt \in Packets /\ attempt \in {1, 2}
  BY DEF TypeOK, CallOK, ArraysOK
<1>1. ASSUME NEW p \in Packets, Insert(p) PROVE CallOK'
  <2>1. /\ step' \in {"idle", "opening"} /\ offset' = offset /\ rawAt' = rawAt
        /\ cache' = cache /\ seeded' = seeded
    BY <1>1 DEF Insert, memory
  <2>2. step' # "idle" => pkt' \in Packets /\ attempt' \in {1, 2}
    BY <1>1 DEF Insert
  <2>3. attempt' \in 0 .. 2
    BY <1>0, <1>1 DEF Insert
  <2>4. QED
    BY <1>0, <2>1, <2>2, <2>3 DEF CallOK
<1>2. ASSUME NEW seed \in SUBSET Packets, OpenForWrite(seed) PROVE CallOK'
  <2>1. cache' \subseteq Packets /\ seeded' \in BOOLEAN
    BY <1>0, <1>2 DEF OpenForWrite
  <2>2. CASE Return
    BY <2>1, <2>2, CallReturns
  <2>3. CASE step' = "seqgap" /\ UNCHANGED <<pkt, attempt, offset, rawAt>>
    <3>1. pkt \in Packets /\ attempt \in {1, 2}
      BY <1>0, <1>2 DEF OpenForWrite
    <3>2. QED
      BY <1>0, <2>1, <2>3, <3>1 DEF CallOK
  <2>4. QED
    BY <1>2, <2>2, <2>3 DEF OpenForWrite
<1>3. CASE SequenceGap
  BY <1>0, <1>3, CallAdvance DEF SequenceGap
<1>4. CASE TimeGap
  <2>1. step' \in {"zerosamples", "samples"} /\ (step' = "zerosamples" => Delta > Tolerance)
    BY <1>4 DEF TimeGap
  <2>2. QED
    BY <1>0, <1>4, <2>1, CallAdvance DEF TimeGap
<1>5. CASE ZeroSamples
  <2>1. Delta > Tolerance
    BY <1>5 DEF ZeroSamples, TypeOK, CallOK
  <2>2. QED
    BY <1>0, <1>5, <2>1, CallAdvance DEF ZeroSamples
<1>6. CASE ZeroRow
  BY <1>0, <1>6, CallAdvance DEF ZeroRow
<1>7. CASE RecordSamples
  BY <1>0, <1>7, CallAdvance DEF RecordSamples
<1>8. CASE RecordRaw
  BY <1>0, <1>8, CallAdvance DEF RecordRaw
<1>9. CASE RecordRow
  BY <1>0, <1>9, CallAdvance DEF RecordRow
<1>10. CASE UpdateAttrs
  <2>1. pkt \in Packets /\ attempt \in {1, 2} /\ step' = "flush"
        /\ UNCHANGED <<memory, pkt, attempt, offset, rawAt>>
    BY <1>0, <1>10 DEF UpdateAttrs
  <2>2. QED
    BY <1>0, <2>1 DEF CallOK, memory
<1>11. CASE FlushAndClose
  <2>1. cache' \subseteq Packets /\ seeded' \in BOOLEAN
    BY <1>0, <1>11 DEF FlushAndClose
  <2>2. QED
    BY <1>11, <2>1, CallReturns DEF FlushAndClose
<1>12. CASE RetryOrRaise /\ step # "idle" /\ UNCHANGED memory
  <2>1. CASE Return
    BY <1>0, <1>12, <2>1, CallReturns DEF memory
  <2>2. CASE step' = "opening" /\ attempt' = 2 /\ UNCHANGED <<pkt, offset, rawAt>>
    BY <1>0, <1>12, <2>2 DEF CallOK, memory
  <2>3. QED
    BY <1>12, <2>1, <2>2 DEF RetryOrRaise
<1>13. CASE Restart
  <2>1. step' = "idle" /\ attempt' = attempt /\ offset' = offset /\ rawAt' = rawAt
        /\ cache' = {} /\ seeded' \in BOOLEAN
    BY <1>13 DEF Restart
  <2>2. QED
    BY <1>0, <2>1 DEF CallOK
<1>14. CASE UNCHANGED vars
  <2>1. CallOK
    BY DEF TypeOK
  <2>2. QED
    BY <1>14, <2>1 DEF vars, attrs, memory, CallOK, Delta
<1>15. CASE Open \/ OpenUnread
  BY <1>0, <1>2, <1>15 DEF Open, OpenUnread
<1>16. CASE WriteFails \/ ZerosTooLong
  BY <1>12, <1>16 DEF WriteFails, ZerosTooLong
<1>17. QED
  BY <1>1, <1>3, <1>4, <1>5, <1>6, <1>7, <1>8, <1>9, <1>10, <1>11, <1>13, <1>14, <1>15, <1>16
     DEF Next, Write

\* The history variables keep their types.
LEMMA HistoryStep == TypeOK /\ [Next]_vars => HistoryOK'
<1> SUFFICES ASSUME TypeOK, [Next]_vars PROVE HistoryOK'
  OBVIOUS
<1>0. /\ calls \in 0 .. MaxCalls /\ faults \in 0 .. MaxFaults
      /\ answered \subseteq Packets /\ failed \subseteq Packets /\ torn \in BOOLEAN
      /\ step # "idle" => pkt \in Packets
      /\ MaxCalls \in Nat /\ MaxFaults \in Nat
  BY BoundsAssumption DEF TypeOK, HistoryOK, CallOK
<1>1. calls' \in 0 .. MaxCalls
  BY <1>0 DEF Next, Write, Insert, Open, OpenUnread, OpenForWrite, SequenceGap, TimeGap, ZeroSamples,
              ZeroRow, RecordSamples, RecordRaw, RecordRow, UpdateAttrs, FlushAndClose, WriteFails,
              ZerosTooLong, Restart, history, vars
<1>2. faults' \in 0 .. MaxFaults
  BY <1>0 DEF Next, Write, Insert, Open, OpenUnread, OpenForWrite, SequenceGap, TimeGap, ZeroSamples,
              ZeroRow, RecordSamples, RecordRaw, RecordRow, UpdateAttrs, FlushAndClose, WriteFails,
              ZerosTooLong, Restart, history, vars
<1>3. answered' \subseteq Packets
  <2>1. ASSUME NEW seed, OpenForWrite(seed) PROVE answered' \subseteq Packets
    BY <1>0, <2>1 DEF OpenForWrite
  <2>2. QED
    BY <1>0, <2>1 DEF Next, Write, Insert, Open, OpenUnread, SequenceGap, TimeGap, ZeroSamples,
              ZeroRow, RecordSamples, RecordRaw, RecordRow, UpdateAttrs, FlushAndClose, WriteFails,
              ZerosTooLong, Restart, history, vars
<1>4. failed' \subseteq Packets
  <2>1. step # "idle" /\ RetryOrRaise => failed' \subseteq Packets
    BY <1>0 DEF RetryOrRaise
  <2>2. QED
    BY <1>0, <2>1 DEF Next, Write, Insert, Open, OpenUnread, OpenForWrite, SequenceGap, TimeGap,
              ZeroSamples, ZeroRow, RecordSamples, RecordRaw, RecordRow, UpdateAttrs, FlushAndClose,
              WriteFails, ZerosTooLong, Restart, history, vars
<1>5. torn' \in BOOLEAN
  BY <1>0 DEF Next, Write, Insert, Open, OpenUnread, OpenForWrite, SequenceGap, TimeGap, ZeroSamples,
              ZeroRow, RecordSamples, RecordRaw, RecordRow, UpdateAttrs, FlushAndClose, WriteFails, Residue,
              ZerosTooLong, Restart, history, vars
<1>6. QED
  BY <1>1, <1>2, <1>3, <1>4, <1>5 DEF HistoryOK

\* The variables have their types for any packets and bounds.
THEOREM TypeCorrect == Spec => []TypeOK
<1>1. TypeOK /\ [Next]_vars => TypeOK'
  BY ArraysOKStep, AttrsStep, CallStep, HistoryStep DEF TypeOK
<1>2. QED
  BY <1>1, InitTypeOK, PTL DEF Spec

-----------------------------------------------------------------------------
(* What is answered is stored. *)

\* The strengthening: between the row and the answer, the packet is indexed.
StoredInv ==
  /\ AnsweredIsStored
  /\ step \in {"attrs", "flush"} => pkt \in Indexed

\* What a step may add to the packets answered or remembered, and when it may
\* be at the steps behind the row.
LEMMA AnswerStep ==
  ASSUME TypeOK, StoredInv, [Next]_vars
  PROVE  /\ answered' \cup cache' \subseteq Indexed
         /\ step' \in {"attrs", "flush"} => pkt' = pkt /\ (RecordRow \/ pkt \in Indexed)
<1>0. answered \subseteq Indexed /\ cache \subseteq Indexed
  BY DEF StoredInv, AnsweredIsStored
<1>1. ASSUME NEW p \in Packets, Insert(p)
      PROVE  /\ answered' \cup cache' \subseteq Indexed
             /\ step' \in {"attrs", "flush"} => pkt' = pkt /\ (RecordRow \/ pkt \in Indexed)
  BY <1>0, <1>1 DEF Insert, memory
<1>2. ASSUME NEW seed \in SUBSET Indexed, OpenForWrite(seed)
      PROVE  /\ answered' \cup cache' \subseteq Indexed
             /\ step' \in {"attrs", "flush"} => pkt' = pkt /\ (RecordRow \/ pkt \in Indexed)
  <2>1. cache' \subseteq Indexed /\ answered' \subseteq Indexed
    BY <1>0, <1>2 DEF OpenForWrite
  <2>2. step' \notin {"attrs", "flush"}
    BY <1>2 DEF OpenForWrite, Return
  <2>3. QED
    BY <2>1, <2>2
<1>3. CASE UpdateAttrs
  BY <1>0, <1>3 DEF UpdateAttrs, StoredInv, memory, history
<1>4. CASE FlushAndClose
  <2>1. pkt \in Indexed
    BY <1>4 DEF FlushAndClose, StoredInv
  <2>2. answered' \cup cache' \subseteq Indexed /\ step' = "idle"
    BY <1>0, <1>4, <2>1 DEF FlushAndClose, Return
  <2>3. QED
    BY <2>2
<1>5. CASE RecordRow
  BY <1>0, <1>5 DEF RecordRow, memory, history
<1>6. CASE SequenceGap \/ TimeGap \/ ZeroSamples \/ ZeroRow \/ RecordSamples \/ RecordRaw
  <2>1. answered' = answered /\ cache' = cache /\ step' \notin {"attrs", "flush"}
    BY <1>6 DEF SequenceGap, TimeGap, ZeroSamples, ZeroRow, RecordSamples, RecordRaw, memory, history
  <2>2. QED
    BY <1>0, <2>1
<1>7. CASE WriteFails \/ ZerosTooLong
  <2>1. answered' = answered /\ cache' = cache /\ step' \in {"opening", "idle"}
    BY <1>7 DEF WriteFails, ZerosTooLong, RetryOrRaise, Return, memory
  <2>2. QED
    BY <1>0, <2>1
<1>8. CASE Restart
  BY <1>0, <1>8 DEF Restart, history
<1>9. CASE UNCHANGED vars
  BY <1>0, <1>9 DEF vars, memory, history, StoredInv
<1>10. CASE Open \/ OpenUnread
  BY <1>2, <1>10 DEF Open, OpenUnread
<1>11. QED
  BY <1>1, <1>3, <1>4, <1>5, <1>6, <1>7, <1>8, <1>9, <1>10 DEF Next, Write

\* From the row to the answer a packet is stored, and what is answered is.
THEOREM StoredCorrect == Spec => []StoredInv
<1>1. Init => StoredInv
  BY DEF Init, StoredInv, AnsweredIsStored
<1>2. TypeOK /\ StoredInv /\ [Next]_vars => StoredInv'
  <2> SUFFICES ASSUME TypeOK, StoredInv, [Next]_vars PROVE StoredInv'
    OBVIOUS
  <2>1. Indexed \subseteq Indexed' /\ (RecordRow => pkt \in Indexed')
    BY IndexedStep
  <2>2. /\ answered' \cup cache' \subseteq Indexed
        /\ step' \in {"attrs", "flush"} => pkt' = pkt /\ (RecordRow \/ pkt \in Indexed)
    BY AnswerStep
  <2>3. QED
    BY <2>1, <2>2 DEF StoredInv, AnsweredIsStored
<1>3. QED
  BY <1>1, <1>2, TypeCorrect, PTL DEF Spec

\* A packet reported as inserted or as a duplicate is in the index of the
\* file, whatever failed before and however often the receiver was restarted.
THEOREM AnsweredCorrect == Spec => []AnsweredIsStored
<1>1. StoredInv => AnsweredIsStored
  BY DEF StoredInv
<1>2. QED
  BY <1>1, StoredCorrect, PTL

-----------------------------------------------------------------------------
(* Rows read their own data. *)

\* samples[at .. at + n - 1] are there and belong to value.
Span(value, at, n) ==
  /\ at + n <= Len(samples)
  /\ \A i \in at + 1 .. at + n : samples[i] = value

\* The bytes at raw[at] are packet p's.
Bytes(p, at) == at < Len(raw) /\ raw[at + 1] = p

\* The strengthening: the span that a row is about to describe is there.
PendingOwn ==
  /\ step = "zerorow" => Span(None, offset, Delta)
  /\ step \in {"raw", "row"} => Span(pkt, offset, pkt.npts)
  /\ step = "row" => Bytes(pkt, rawAt)

RowsInv == RowsReadOwnData /\ PendingOwn

\* The samples and the bytes only grow: what is written stays.
Grows ==
  /\ Len(samples) \in Nat /\ Len(samples') \in Nat /\ Len(samples) <= Len(samples')
  /\ \A i \in 1 .. Len(samples) : samples'[i] = samples[i]
  /\ Len(raw) \in Nat /\ Len(raw') \in Nat /\ Len(raw) <= Len(raw')
  /\ \A i \in 1 .. Len(raw) : raw'[i] = raw[i]

\* Every step only appends to them.
LEMMA GrowsStep == TypeOK /\ [Next]_vars => Grows
<1> SUFFICES ASSUME TypeOK, [Next]_vars PROVE Grows
  OBVIOUS
<1>0. /\ samples \in Seq(Owner) /\ raw \in Seq(Owner)
      /\ Len(samples) \in Nat /\ Len(raw) \in Nat /\ None \in Owner
  BY DEF TypeOK, ArraysOK, Owner
<1>1. step # "idle" => pkt \in Packets /\ pkt \in Owner /\ pkt.npts \in Nat
  BY PacketFields DEF TypeOK, CallOK, Owner
<1>2. step = "zerosamples" => Delta \in Nat
  BY <1>1, PacketFields, BoundsAssumption DEF TypeOK, CallOK, AttrsOK, Delta
<1>3. CASE UNCHANGED <<samples, raw>>
  BY <1>0, <1>3 DEF Grows
<1>4. ASSUME NEW v \in Owner, NEW n \in Nat, samples' = Extended(samples, v, n), raw' = raw
      PROVE  Grows
  <2>1. /\ Len(samples') = Len(samples) + n
        /\ \A i \in 1 .. Len(samples) : samples'[i] = samples[i]
    <3>1. /\ Len(Extended(samples, v, n)) = Len(samples) + n
          /\ \A i \in 1 .. Len(samples) : Extended(samples, v, n)[i] = samples[i]
      <4>1. samples \in Seq(Owner)
        BY <1>0
      <4>2. QED
        BY <4>1, ExtendedProperties
    <3>2. QED
      BY <1>4, <3>1
  <2>2. Len(samples') \in Nat /\ Len(samples) <= Len(samples')
    BY <1>0, <1>4, <2>1
  <2>3. QED
    BY <1>0, <1>4, <2>1, <2>2 DEF Grows
<1>5. ASSUME NEW v \in Owner, raw' = Append(raw, v), samples' = samples
      PROVE  Grows
  <2>1. /\ Len(raw') = Len(raw) + 1
        /\ \A i \in 1 .. Len(raw) : raw'[i] = raw[i]
    BY <1>0, <1>5, AppendProperties
  <2>2. QED
    BY <1>0, <1>5, <2>1 DEF Grows
<1>6. CASE ZeroSamples
  BY <1>0, <1>2, <1>4, <1>6 DEF ZeroSamples
<1>7. CASE RecordSamples
  BY <1>1, <1>4, <1>7 DEF RecordSamples
<1>8. CASE RecordRaw
  BY <1>1, <1>5, <1>8 DEF RecordRaw
<1>9. CASE WriteFails
  <2>1. step # "idle" /\ Residue
    BY <1>9 DEF WriteFails
  <2>2. CASE UNCHANGED <<samples, raw>>
    BY <1>3, <2>2
  <2>3. CASE step = "zerosamples" /\ samples' = Extended(samples, None, Delta) /\ raw' = raw
    BY <1>0, <1>2, <1>4, <2>3
  <2>4. CASE samples' = Extended(samples, None, pkt.npts) /\ raw' = raw
    BY <1>0, <1>1, <1>4, <2>1, <2>4
  <2>5. CASE raw' = Append(raw, None) /\ samples' = samples
    BY <1>0, <1>5, <2>5
  <2>6. QED
    BY <2>1, <2>2, <2>3, <2>4, <2>5 DEF Residue, arrays
<1>10. QED
  BY <1>3, <1>6, <1>7, <1>8, <1>9
     DEF Next, Write, Insert, Open, OpenUnread, OpenForWrite, SequenceGap, TimeGap, ZeroRow, RecordRow,
         UpdateAttrs, FlushAndClose, ZerosTooLong, Restart, vars, arrays

\* What a row owns, it still owns after a step.
LEMMA SpanStays ==
  ASSUME Grows, NEW value, NEW at \in Nat, NEW n \in Nat, Span(value, at, n)
  PROVE  Span(value, at, n)'
BY DEF Grows, Span

LEMMA BytesStay ==
  ASSUME Grows, NEW p, NEW at \in Nat, Bytes(p, at)
  PROVE  Bytes(p, at)'
BY DEF Grows, Bytes

LEMMA OwnDataStays ==
  ASSUME Grows, NEW row \in Row, OwnData(row)
  PROVE  OwnData(row)'
<1>1. row.offset \in Nat /\ row.npts \in Nat /\ row.rawAt \in Nat
  BY DEF Row
<1>2. Span(row.pkt, row.offset, row.npts) /\ (row.kind = "record" => Bytes(row.pkt, row.rawAt))
  BY DEF OwnData, Span, Bytes
<1>3. Span(row.pkt, row.offset, row.npts)' /\ (row.kind = "record" => Bytes(row.pkt, row.rawAt)')
  BY <1>1, <1>2, SpanStays, BytesStay
<1>4. QED
  BY <1>3 DEF OwnData, Span, Bytes

\* A step leaves the index, or appends a row to it that is blank or owns its data.
LEMMA IndexGrows ==
  ASSUME TypeOK, PendingOwn, [Next]_vars
  PROVE  \/ index' = index
         \/ \E r \in Row : index' = Append(index, r) /\ (r.kind # "blank" => OwnData(r)')
<1>0. offset \in Nat /\ rawAt \in Nat /\ Len(samples) \in Nat /\ Len(raw) \in Nat
  BY DEF TypeOK, CallOK, ArraysOK
<1>1. CASE ZeroRow
  <2> DEFINE r == [kind |-> "zeros", pkt |-> None, start |-> lastEnd,
                   npts |-> Delta, offset |-> offset, rawAt |-> 0]
  <2>1. pkt \in Packets /\ Delta > Tolerance /\ Span(None, offset, Delta)
    BY <1>1 DEF ZeroRow, TypeOK, CallOK, PendingOwn
  <2>2. Delta \in Nat
    BY <2>1, PacketFields, BoundsAssumption DEF Delta, TypeOK, AttrsOK
  <2>3. r \in Row
    BY <1>0, <2>2 DEF Row, TypeOK, AttrsOK
  <2>4. samples' = samples /\ raw' = raw /\ index' = Append(index, r)
    BY <1>1 DEF ZeroRow
  <2>5. Span(None, offset, Delta) => OwnData(r)
    BY DEF Span, OwnData
  <2>6. \E q \in Row : index' = Append(index, q) /\ OwnData(q)
    BY <2>1, <2>3, <2>4, <2>5
  <2>7. \A q \in Row : OwnData(q) => OwnData(q)'
    BY <2>4 DEF OwnData
  <2>8. QED
    BY <2>6, <2>7
<1>2. CASE RecordRow
  <2> DEFINE r == [kind |-> "record", pkt |-> pkt, start |-> pkt.start,
                   npts |-> pkt.npts, offset |-> offset, rawAt |-> rawAt]
  <2>1. pkt \in Packets /\ Span(pkt, offset, pkt.npts) /\ Bytes(pkt, rawAt)
    BY <1>2 DEF RecordRow, TypeOK, CallOK, PendingOwn
  <2>2. pkt.start \in Int /\ pkt.npts \in Nat
    BY <2>1, PacketFields
  <2>3. r \in Row
    BY <1>0, <2>1, <2>2 DEF Row
  <2>4. samples' = samples /\ raw' = raw /\ index' = Append(index, r)
    BY <1>2 DEF RecordRow
  <2>5. OwnData(r)
    BY <2>1 DEF Span, Bytes, OwnData
  <2>6. \E q \in Row : index' = Append(index, q) /\ OwnData(q)
    BY <2>3, <2>4, <2>5
  <2>7. \A q \in Row : OwnData(q) => OwnData(q)'
    BY <2>4 DEF OwnData
  <2>8. QED
    BY <2>6, <2>7
<1>3. CASE WriteFails /\ index' # index
  <2>1. Blank \in Row /\ Blank.kind = "blank"
    BY DEF Blank, Row
  <2>2. index' = Append(index, Blank)
    BY <1>3 DEF WriteFails, Residue, arrays
  <2>3. QED
    BY <2>1, <2>2
<1>4. QED
  BY <1>1, <1>2, <1>3
     DEF Next, Write, Insert, Open, OpenUnread, OpenForWrite, SequenceGap, TimeGap, ZeroSamples,
         RecordSamples, RecordRaw, UpdateAttrs, FlushAndClose, ZerosTooLong, Restart, vars, arrays

\* The span that the next row will describe is there after a step.
LEMMA PendingStep ==
  ASSUME TypeOK, PendingOwn, [Next]_vars
  PROVE  PendingOwn'
<1>0. /\ samples \in Seq(Owner) /\ raw \in Seq(Owner) /\ None \in Owner
      /\ offset \in Nat /\ rawAt \in Nat /\ Len(samples) \in Nat /\ Len(raw) \in Nat
  BY DEF TypeOK, CallOK, ArraysOK, Owner
<1>1. step # "idle" => pkt \in Packets /\ pkt \in Owner /\ pkt.npts \in Nat
  BY PacketFields DEF TypeOK, CallOK, Owner
<1>2. CASE ZeroSamples
  <2>1. Delta \in Nat
    BY <1>1, <1>2, PacketFields, BoundsAssumption DEF ZeroSamples, TypeOK, CallOK, AttrsOK, Delta
  <2>2. /\ Len(Extended(samples, None, Delta)) = Len(samples) + Delta
        /\ \A i \in Len(samples) + 1 .. Len(samples) + Delta :
             Extended(samples, None, Delta)[i] = None
    BY <1>0, <2>1, ExtendedProperties
  <2>3. step' = "zerorow" /\ offset' = Len(samples) /\ Delta' = Delta
        /\ samples' = Extended(samples, None, Delta)
    BY <1>2 DEF ZeroSamples, attrs, Delta
  <2>4. Span(None, offset, Delta)'
    BY <1>0, <2>1, <2>2, <2>3 DEF Span
  <2>5. QED
    BY <2>3, <2>4 DEF PendingOwn
<1>3. CASE RecordSamples
  <2>1. pkt \in Owner /\ pkt.npts \in Nat
    BY <1>1, <1>3 DEF RecordSamples
  <2>2. /\ Len(Extended(samples, pkt, pkt.npts)) = Len(samples) + pkt.npts
        /\ \A i \in Len(samples) + 1 .. Len(samples) + pkt.npts :
             Extended(samples, pkt, pkt.npts)[i] = pkt
    <3>1. samples \in Seq(Owner)
      BY <1>0
    <3>2. \A n \in Nat :
            /\ Len(Extended(samples, pkt, n)) = Len(samples) + n
            /\ \A i \in Len(samples) + 1 .. Len(samples) + n : Extended(samples, pkt, n)[i] = pkt
      BY <2>1, <3>1, ExtendedProperties
    <3>3. QED
      BY <2>1, <3>2
  <2>3. step' = "raw" /\ offset' = Len(samples) /\ pkt' = pkt
        /\ samples' = Extended(samples, pkt, pkt.npts)
    BY <1>3 DEF RecordSamples
  <2>4. Span(pkt, offset, pkt.npts)'
    BY <1>0, <2>1, <2>2, <2>3 DEF Span
  <2>5. QED
    BY <2>3, <2>4 DEF PendingOwn
<1>4. CASE RecordRaw
  <2>1. step' = "row" /\ UNCHANGED <<samples, offset, pkt>> /\ Span(pkt, offset, pkt.npts)
        /\ rawAt' = Len(raw) /\ raw' = Append(raw, pkt)
    BY <1>4 DEF RecordRaw, PendingOwn
  <2>2. Span(pkt, offset, pkt.npts)'
    BY <2>1 DEF Span
  <2>3. pkt \in Owner
    BY <1>1, <1>4 DEF RecordRaw
  <2>4. Len(raw') = Len(raw) + 1 /\ raw'[Len(raw) + 1] = pkt
    BY <1>0, <2>1, <2>3, AppendProperties
  <2>5. Bytes(pkt, rawAt)'
    BY <1>0, <2>1, <2>4 DEF Bytes
  <2>6. QED
    BY <2>1, <2>2, <2>5 DEF PendingOwn
<1>5. CASE UNCHANGED vars
  BY <1>5 DEF vars, arrays, attrs, PendingOwn, Span, Bytes, Delta
<1>6. CASE step' \notin {"zerorow", "raw", "row"}
  BY <1>6 DEF PendingOwn
<1>7. QED
  <2>1. \A seed : OpenForWrite(seed) => step' \notin {"zerorow", "raw", "row"}
    BY DEF OpenForWrite, Return
  <2>2. \A p \in Packets : Insert(p) => step' \notin {"zerorow", "raw", "row"}
    BY DEF Insert
  <2>3. WriteFails \/ ZerosTooLong => step' \notin {"zerorow", "raw", "row"}
    BY DEF WriteFails, ZerosTooLong, RetryOrRaise, Return
  <2>4. Restart \/ FlushAndClose \/ UpdateAttrs \/ RecordRow \/ ZeroRow \/ SequenceGap \/ TimeGap
          => step' \notin {"zerorow", "raw", "row"}
    BY DEF Restart, FlushAndClose, UpdateAttrs, RecordRow, ZeroRow, SequenceGap, TimeGap, Return
  <2>5. QED
    BY <1>2, <1>3, <1>4, <1>5, <1>6, <2>1, <2>2, <2>3, <2>4 DEF Next, Write, Open, OpenUnread

\* Every row of the index points at samples and bytes that are there and its
\* own, at every step of every write, whichever failed before.
THEOREM RowsCorrect == Spec => []RowsReadOwnData
<1>1. Init => RowsInv
  BY DEF Init, RowsInv, RowsReadOwnData, PendingOwn
<1>2. TypeOK /\ RowsInv /\ [Next]_vars => RowsInv'
  <2> SUFFICES ASSUME TypeOK, RowsInv, [Next]_vars PROVE RowsInv'
    OBVIOUS
  <2>1. Grows
    BY GrowsStep
  <2>2. PendingOwn'
    BY PendingStep DEF RowsInv
  <2>3. index \in Seq(Row) /\ Len(index) \in Nat
    BY DEF TypeOK, ArraysOK
  <2>4. \A i \in 1 .. Len(index) : index[i] \in Row /\ (index[i].kind # "blank" => OwnData(index[i]))
    BY <2>3 DEF RowsInv, RowsReadOwnData
  <2>5. \A q \in Row : OwnData(q) => OwnData(q)'
    BY <2>1, OwnDataStays
  <2>6. \/ index' = index
        \/ \E r \in Row : index' = Append(index, r) /\ (r.kind # "blank" => OwnData(r)')
    BY IndexGrows DEF RowsInv
  <2>7. CASE index' = index
    <3>1. \A i \in 1 .. Len(index) : \E q \in Row : q = index[i] /\ (q.kind # "blank" => OwnData(q)')
      BY <2>4, <2>5
    <3>2. \A i \in 1 .. Len(index') : index'[i].kind # "blank" => OwnData(index[i])'
      BY <2>7, <3>1
    <3>3. QED
      BY <2>2, <3>2 DEF RowsInv, RowsReadOwnData
  <2>8. ASSUME NEW r \in Row, index' = Append(index, r), r.kind # "blank" => OwnData(r)'
        PROVE  RowsInv'
    <3>1. /\ Len(index') = Len(index) + 1
          /\ \A i \in 1 .. Len(index) : index'[i] = index[i]
          /\ index'[Len(index) + 1] = r
      BY <2>3, <2>8, AppendProperties
    <3>2. ASSUME NEW i \in 1 .. Len(index')
          PROVE  index'[i].kind # "blank" => OwnData(index[i])'
      <4>1. CASE i = Len(index) + 1
        <5>1. r = index'[i]
          BY <3>1, <4>1
        <5>2. QED
          BY <2>8, <5>1
      <4>2. CASE i \in 1 .. Len(index)
        <5>1. \E q \in Row : q = index[i] /\ (q.kind # "blank" => OwnData(q)')
          BY <2>4, <2>5, <4>2
        <5>2. QED
          BY <3>1, <4>2, <5>1
      <4>3. QED
        BY <2>3, <3>1, <4>1, <4>2
    <3>3. QED
      BY <2>2, <3>2 DEF RowsInv, RowsReadOwnData
  <2>9. QED
    BY <2>6, <2>7, <2>8
<1>3. RowsInv => RowsReadOwnData
  BY DEF RowsInv
<1>4. QED
  BY <1>1, <1>2, <1>3, TypeCorrect, PTL DEF Spec

-----------------------------------------------------------------------------
(* The last packet. *)

\* The last_ attributes are packet p's.
LastIs(p) == lastSeq = p.seq /\ lastStart = p.start /\ lastEnd = End(p)
NoneYet == lastSeq = -1 /\ lastStart = -1 /\ lastEnd = -1

\* The strengthening: the attributes are untouched or a stored packet's, and
\* only the packet whose row was just written can start later.
LastInv ==
  /\ ~torn => NoneYet \/ \E p \in Indexed : p.start >= 0 /\ LastIs(p)
  /\ faults = 0 => ~torn
  /\ faults = 0 => \A p \in Indexed : p.start <= lastStart \/ (step = "attrs" /\ p = pkt)

\* The packet in hand becomes the last one.
Advances ==
  /\ step = "attrs" /\ step' = "flush" /\ pkt.start > lastStart
  /\ lastSeq' = pkt.seq /\ lastStart' = pkt.start /\ lastEnd' = End(pkt)
  /\ UNCHANGED <<index, torn, pkt>>

\* The attributes change only when the packet in hand becomes the last one, or
\* when an error interrupts that.
LEMMA AttrsChange ==
  ASSUME TypeOK, [Next]_vars
  PROVE  /\ \/ /\ UNCHANGED <<attrs, torn>>
               /\ step = "attrs" => (step' = "attrs" /\ pkt' = pkt) \/ pkt.start <= lastStart
            \/ Advances
            \/ torn' /\ faults' # 0
         /\ faults' = 0 => faults = 0
<1>0. faults \in Nat /\ (step = "attrs" => pkt.start \in Int /\ lastStart \in Int)
  BY PacketFields DEF TypeOK, HistoryOK, CallOK, AttrsOK
<1>1. CASE UpdateAttrs
  BY <1>0, <1>1 DEF UpdateAttrs, SetAttrs, Advances, history, arrays, attrs
<1>2. CASE WriteFails
  <2>1. faults' = faults + 1 /\ Residue
    BY <1>2 DEF WriteFails
  <2>2. CASE (step = "attrs" => pkt.start <= lastStart) /\ UNCHANGED <<attrs, torn>>
    BY <1>0, <2>1, <2>2
  <2>3. CASE step # "attrs" /\ UNCHANGED <<attrs, torn>>
    BY <1>0, <2>1, <2>3
  <2>4. CASE torn' = TRUE
    <3>1. faults' # 0
      BY <1>0, <2>1
    <3>2. torn'
      BY <2>4
    <3>3. QED
      BY <3>1, <3>2
  <2>5. QED
    BY <2>1, <2>2, <2>3, <2>4 DEF Residue, attrs, arrays
<1>3. CASE UNCHANGED vars
  BY <1>0, <1>3 DEF vars, history
<1>4. CASE step # "attrs" /\ UNCHANGED <<attrs, torn, faults>>
  BY <1>4
<1>5. CASE OpenUnread
  BY <1>0, <1>5 DEF OpenUnread, OpenForWrite
<1>6. CASE Open \/ ZerosTooLong
  <2>1. step # "attrs" /\ UNCHANGED <<attrs, torn, faults>>
    BY <1>6 DEF Open, OpenForWrite, ZerosTooLong
  <2>2. QED
    BY <1>4, <2>1
<1>7. CASE \/ \E p \in Packets : Insert(p)
           \/ SequenceGap \/ TimeGap \/ ZeroSamples \/ ZeroRow
           \/ RecordSamples \/ RecordRaw \/ RecordRow \/ FlushAndClose \/ Restart
  <2>1. step # "attrs" /\ UNCHANGED <<attrs, torn, faults>>
    BY <1>7 DEF Insert, SequenceGap, TimeGap, ZeroSamples, ZeroRow, RecordSamples, RecordRaw, RecordRow,
                FlushAndClose, Restart, history
  <2>2. QED
    BY <1>4, <2>1
<1>8. QED
  BY <1>1, <1>2, <1>3, <1>5, <1>6, <1>7 DEF Next, Write

\* LastInv holds after a step.
LEMMA LastStep == TypeOK /\ StoredInv /\ LastInv /\ [Next]_vars => LastInv'
<1> SUFFICES ASSUME TypeOK, StoredInv, LastInv, [Next]_vars PROVE LastInv'
  OBVIOUS
<1>1. /\ Indexed \subseteq Indexed'
      /\ \A p \in Indexed' : p \in Indexed \/ (RecordRow /\ p = pkt)
  BY IndexedStep
<1>2. RecordRow => step' = "attrs" /\ pkt' = pkt
  BY DEF RecordRow
<1>3. faults' = 0 => faults = 0
  BY AttrsChange
<1>4. lastStart \in Int /\ lastSeq \in Int /\ \A p \in Indexed : p.start \in Int
  BY PacketFields DEF TypeOK, AttrsOK, ArraysOK
<1>5. CASE /\ UNCHANGED <<attrs, torn>>
           /\ step = "attrs" => (step' = "attrs" /\ pkt' = pkt) \/ pkt.start <= lastStart
  <2>1. ~torn' => (NoneYet \/ \E p \in Indexed : p.start >= 0 /\ LastIs(p))'
    <3>1. \A p : LastIs(p) => LastIs(p)'
      BY <1>5 DEF attrs, LastIs
    <3>2. NoneYet => NoneYet'
      BY <1>5 DEF attrs, NoneYet
    <3>3. QED
      BY <1>1, <1>5, <3>1, <3>2 DEF LastInv
  <2>2. faults' = 0 => ~torn'
    BY <1>3, <1>5 DEF LastInv
  <2>3. faults' = 0 => \A p \in Indexed' : p.start <= lastStart' \/ (step' = "attrs" /\ p = pkt')
    BY <1>1, <1>2, <1>3, <1>5 DEF LastInv, attrs
  <2>4. QED
    BY <2>1, <2>2, <2>3 DEF LastInv
<1>6. CASE Advances
  <2>1. pkt \in Indexed /\ pkt \in Indexed' /\ Indexed' \subseteq Indexed /\ torn' = torn
    BY <1>1, <1>6 DEF Advances, StoredInv, RecordRow
  <2>2. lastStart >= -1 \/ torn
    BY <1>4 DEF LastInv, NoneYet, LastIs
  <2>3. LastIs(pkt)'
    BY <1>6 DEF Advances, LastIs
  <2>4. ~torn => pkt.start >= 0
    BY <1>4, <1>6, <2>1, <2>2 DEF Advances
  <2>5. ~torn' => \E p \in Indexed' : p.start >= 0 /\ LastIs(p)'
    <3>1. LastIs(pkt)' => LET q == pkt' IN lastSeq' = q.seq /\ lastStart' = q.start /\ lastEnd' = End(q)
      BY DEF LastIs
    <3>2. pkt' = pkt
      BY <1>6 DEF Advances
    <3>3. \A q : lastSeq' = q.seq /\ lastStart' = q.start /\ lastEnd' = End(q) => LastIs(q)'
      BY DEF LastIs
    <3>4. QED
      BY <1>6, <2>1, <2>4, <3>3 DEF Advances
  <2>6. faults' = 0 => \A p \in Indexed' : p.start <= lastStart'
    BY <1>3, <1>4, <1>6, <2>1 DEF LastInv, Advances
  <2>7. QED
    BY <1>3, <2>1, <2>5, <2>6 DEF LastInv
<1>7. CASE torn' /\ faults' # 0
  BY <1>7 DEF LastInv
<1>8. QED
  BY <1>5, <1>6, <1>7, AttrsChange

\* Gap detection compares with attributes of one stored packet, and without
\* errors with those of the one that starts last, in whichever order packets
\* come and however often.
THEOREM LastCorrect == Spec => []LastInv
<1>1. Init => LastInv
  BY DEF Init, LastInv, NoneYet, Indexed
<1>2. QED
  BY <1>1, LastStep, TypeCorrect, StoredCorrect, PTL DEF Spec

\* The attributes are one stored packet's, as the run checks it.
THEOREM LastIsOneStoredCorrect == Spec => []LastIsOneStored
<1>1. TypeOK /\ LastInv => LastIsOneStored
  <2> SUFFICES ASSUME TypeOK, LastInv PROVE LastIsOneStored
    OBVIOUS
  <2>1. lastStart >= 0 => ~NoneYet
    BY DEF NoneYet
  <2>2. QED
    BY <2>1 DEF LastInv, LastIs, LastIsOneStored
<1>2. QED
  BY <1>1, LastCorrect, TypeCorrect, PTL

-----------------------------------------------------------------------------
(* Stored and flagged once. *)

\* How the index changes: a row for the packet in hand, a row of zeros in front
\* of it, or what a failed write leaves.
LEMMA IndexChange ==
  ASSUME TypeOK, [Next]_vars
  PROVE  \/ index' = index /\ ~RecordRow /\ ~ZeroRow
         \/ \E r \in Row :
              /\ index' = Append(index, r)
              /\ \/ /\ RecordRow /\ r.kind = "record" /\ r.pkt = pkt
                    /\ r.start = pkt.start /\ r.npts = pkt.npts
                 \/ ZeroRow /\ r.kind = "zeros" /\ r.start = lastEnd /\ r.npts = Delta
                 \/ WriteFails /\ r.kind = "blank"
<1>0. offset \in Nat /\ rawAt \in Nat /\ index \in Seq(Row) /\ Len(index) \in Nat
  BY DEF TypeOK, CallOK, ArraysOK
<1>1. CASE ZeroRow
  <2> DEFINE r == [kind |-> "zeros", pkt |-> None, start |-> lastEnd,
                   npts |-> Delta, offset |-> offset, rawAt |-> 0]
  <2>1. pkt \in Packets /\ Delta > Tolerance
    BY <1>1 DEF ZeroRow, TypeOK, CallOK
  <2>2. Delta \in Nat /\ lastEnd \in Int
    BY <2>1, PacketFields, BoundsAssumption DEF Delta, TypeOK, AttrsOK
  <2>3. r \in Row
    BY <1>0, <2>2 DEF Row
  <2>4. index' = Append(index, r) /\ r.kind = "zeros" /\ r.start = lastEnd /\ r.npts = Delta
    BY <1>1 DEF ZeroRow
  <2> HIDE DEF r
  <2>5. QED
    BY <1>1, <2>3, <2>4
<1>2. CASE RecordRow
  <2> DEFINE r == [kind |-> "record", pkt |-> pkt, start |-> pkt.start,
                   npts |-> pkt.npts, offset |-> offset, rawAt |-> rawAt]
  <2>1. pkt \in Packets
    BY <1>2 DEF RecordRow, TypeOK, CallOK
  <2>2. r \in Row
    BY <1>0, <2>1, PacketFields DEF Row
  <2>3. /\ index' = Append(index, r) /\ r.kind = "record" /\ r.pkt = pkt
        /\ r.start = pkt.start /\ r.npts = pkt.npts
    BY <1>2 DEF RecordRow
  <2> HIDE DEF r
  <2>4. QED
    BY <1>2, <2>2, <2>3
<1>3. CASE WriteFails /\ index' # index
  <2>1. Blank \in Row /\ Blank.kind = "blank"
    BY DEF Blank, Row
  <2>2. index' = Append(index, Blank)
    BY <1>3 DEF WriteFails, Residue, arrays
  <2>3. QED
    BY <1>3, <2>1, <2>2
<1>4. CASE ~ZeroRow /\ ~RecordRow /\ (WriteFails => index' = index)
  BY <1>4
     DEF Next, Write, Insert, Open, OpenUnread, OpenForWrite, SequenceGap, TimeGap, ZeroSamples,
         RecordSamples, RecordRaw, UpdateAttrs, FlushAndClose, ZerosTooLong, Restart, vars, arrays
<1>5. QED
  BY <1>1, <1>2, <1>3, <1>4

\* Appending a row keeps the others.
LEMMA RowAppended ==
  ASSUME index \in Seq(Row), NEW r \in Row, index' = Append(index, r)
  PROVE  /\ Len(index) \in Nat /\ Len(index') = Len(index) + 1
         /\ \A i \in 1 .. Len(index) : index'[i] = index[i]
         /\ index'[Len(index) + 1] = r
         /\ 1 .. Len(index') = 1 .. Len(index) \cup {Len(index) + 1}
BY AppendProperties

SequenceKind == {"sequence_gap"}
TimeKinds == {"time_gap", "time_overlap"}

\* How the gaps change when no error is met.
LEMMA GapsChange ==
  ASSUME TypeOK, [Next]_vars, ~WriteFails
  PROVE  \/ gaps' = gaps
         \/ \E g \in GapRow :
              /\ gaps' = Append(gaps, g) /\ g.pkt = pkt
              /\ \/ SequenceGap /\ g.kind \in SequenceKind
                 \/ TimeGap /\ TimeBroken /\ g.kind \in TimeKinds
<1>0. step # "idle" => pkt \in Packets
  BY DEF TypeOK, CallOK
<1>1. CASE SequenceGap /\ gaps' # gaps
  <2> DEFINE g == [kind |-> "sequence_gap", pkt |-> pkt]
  <2>1. g \in GapRow
    BY <1>0, <1>1 DEF SequenceGap, GapRow, GapKinds
  <2>2. gaps' = Append(gaps, g) /\ g.pkt = pkt /\ g.kind \in SequenceKind
    BY <1>1 DEF SequenceGap, Gap, SequenceKind
  <2> HIDE DEF g
  <2>3. QED
    BY <1>1, <2>1, <2>2
<1>2. CASE TimeGap /\ gaps' # gaps
  <2> DEFINE g == [kind |-> IF Delta > 0 THEN "time_gap" ELSE "time_overlap", pkt |-> pkt]
  <2>1. g \in GapRow
    BY <1>0, <1>2 DEF TimeGap, GapRow, GapKinds
  <2>2. gaps' = Append(gaps, g) /\ g.pkt = pkt /\ g.kind \in TimeKinds /\ TimeBroken
    BY <1>2 DEF TimeGap, Gap, TimeKinds
  <2> HIDE DEF g
  <2>3. QED
    BY <1>2, <2>1, <2>2
<1>3. CASE ~SequenceGap /\ ~TimeGap
  BY <1>3
     DEF Next, Write, Insert, Open, OpenUnread, OpenForWrite, ZeroSamples, ZeroRow,
         RecordSamples, RecordRaw, RecordRow, UpdateAttrs, FlushAndClose, ZerosTooLong, Restart, vars
<1>4. QED
  BY <1>1, <1>2, <1>3

\* The packet in hand is known not to be stored.
Fresh == seeded /\ pkt \notin cache /\ pkt \notin Indexed

\* Without errors the cache, once seeded, holds all that is stored; from the
\* check to the row the packet is new; and a second attempt is one whose gap
\* is too long to be filled, and will not get further.
Cached == seeded => \A p \in Indexed : p \in cache \/ (step \in {"attrs", "flush"} /\ p = pkt)
FreshInv ==
  step \in {"seqgap", "timegap", "zerosamples", "zerorow", "samples", "raw", "row"} => Fresh
SecondAttempt ==
  /\ step = "zerosamples" => TimeBroken
  /\ attempt = 2 =>
       /\ step \in {"opening", "seqgap", "timegap", "zerosamples"}
       /\ Fresh /\ TimeBroken /\ Delta > Tolerance /\ Delta > MaxZeros
CallInv == Cached /\ FreshInv /\ SecondAttempt

\* The stored packets without a step of RecordRow.
LEMMA IndexedStays ==
  ASSUME index' = index
  PROVE  Indexed' = Indexed
BY DEF Indexed

\* A step without errors keeps CallInv.
LEMMA CallInvStep ==
  ASSUME TypeOK, CallInv, [Next]_vars, ~WriteFails, ~OpenUnread
  PROVE  CallInv'
<1>0. /\ step # "idle" => pkt \in Packets
      /\ attempt \in 0 .. 2 /\ (step # "idle" => attempt \in {1, 2})
      /\ step = "zerosamples" => Delta > Tolerance
      /\ lastEnd \in Int /\ lastSeq \in Int /\ MaxZeros \in Nat /\ Tolerance \in Nat
      /\ step # "idle" => pkt.start \in Int /\ Delta \in Int
  BY BoundsAssumption, PacketFields DEF TypeOK, CallOK, AttrsOK, Delta
<1> USE DEF CallInv
<1>1. ASSUME NEW p \in Packets, Insert(p) PROVE CallInv'
  <2>1. Indexed' = Indexed /\ cache' = cache /\ seeded' = seeded /\ step = "idle"
    BY <1>1 DEF Insert, arrays, memory, Indexed
  <2>2. CASE step' = "opening" /\ attempt' = 1
    BY <2>1, <2>2 DEF Cached, FreshInv, SecondAttempt
  <2>3. CASE step' = step /\ attempt' = attempt /\ pkt' = pkt
    BY <2>1, <2>3 DEF Cached, FreshInv, SecondAttempt
  <2>4. QED
    BY <1>1, <2>2, <2>3 DEF Insert
<1>2. CASE Open
  <2>1. /\ Indexed' = Indexed /\ seeded' /\ step = "opening" /\ UNCHANGED attrs
        /\ cache' = IF seeded THEN cache ELSE cache \cup Indexed
    BY <1>2 DEF Open, OpenForWrite, arrays, Indexed
  <2>2. \A p \in Indexed' : p \in cache'
    BY <2>1 DEF Cached
  <2>3. CASE Return
    BY <2>1, <2>2, <2>3 DEF Return, Cached, FreshInv, SecondAttempt
  <2>4. CASE pkt \notin cache' /\ step' = "seqgap" /\ UNCHANGED <<pkt, attempt>>
    <3>1. Fresh'
      BY <2>1, <2>2, <2>4 DEF Fresh
    <3>2. TimeBroken' = TimeBroken /\ Delta' = Delta
      BY <2>1, <2>4 DEF TimeBroken, Delta, attrs
    <3>3. QED
      BY <2>2, <2>4, <3>1, <3>2 DEF Cached, FreshInv, SecondAttempt
  <2>5. QED
    BY <1>2, <2>3, <2>4 DEF Open, OpenForWrite
<1>3. ASSUME UNCHANGED <<index, attrs, memory, pkt, attempt>>, step # "idle",
             step' \in {"seqgap", "timegap", "zerosamples", "zerorow", "samples", "raw", "row"} => Fresh,
             step' = "zerosamples" => TimeBroken,
             attempt = 2 => step' \in {"opening", "seqgap", "timegap", "zerosamples"},
             step \in {"attrs", "flush"} => step' \in {"attrs", "flush"}
      PROVE  CallInv'
  <2>1. Indexed' = Indexed /\ cache' = cache /\ seeded' = seeded /\ Fresh' = Fresh
    BY <1>3 DEF Fresh, memory, Indexed
  <2>2. TimeBroken' = TimeBroken /\ Delta' = Delta
    BY <1>3 DEF TimeBroken, Delta, attrs
  <2>3. Cached'
    BY <1>3, <2>1 DEF Cached
  <2>4. QED
    BY <1>3, <2>1, <2>2, <2>3 DEF FreshInv, SecondAttempt
<1>4. CASE SequenceGap
  BY <1>3, <1>4 DEF SequenceGap, arrays, FreshInv
<1>5. CASE TimeGap
  <2>1. step = "timegap" /\ UNCHANGED <<index, attrs, memory, pkt, attempt>>
        /\ step' \in {"zerosamples", "samples"}
    BY <1>5 DEF TimeGap, arrays
  <2>2. step' = "zerosamples" => TimeBroken
    BY <1>5 DEF TimeGap
  <2>3. TimeBroken /\ Delta > Tolerance => step' = "zerosamples"
    BY <1>5 DEF TimeGap
  <2>4. attempt = 2 => step' = "zerosamples"
    BY <2>3 DEF SecondAttempt
  <2>5. QED
    BY <1>3, <2>1, <2>2, <2>4 DEF FreshInv
<1>6. CASE ZeroSamples
  <2>1. attempt # 2
    BY <1>0, <1>6 DEF ZeroSamples, SecondAttempt
  <2>2. QED
    BY <1>3, <1>6, <2>1 DEF ZeroSamples, FreshInv
<1>7. CASE RecordSamples \/ RecordRaw
  BY <1>3, <1>7 DEF RecordSamples, RecordRaw, FreshInv, SecondAttempt
<1>8. CASE ZeroRow
  <2>1. /\ step = "zerorow" /\ step' = "samples" /\ UNCHANGED <<attrs, memory, pkt, attempt>>
    BY <1>8 DEF ZeroRow
  <2>2. Indexed' = Indexed
    <3>1. ~RecordRow
      BY <2>1 DEF RecordRow
    <3>2. QED
      BY <3>1, IndexedStep
  <2>3. Fresh' = Fresh /\ cache' = cache /\ seeded' = seeded /\ attempt' # 2
    BY <2>1, <2>2 DEF Fresh, memory, SecondAttempt
  <2>4. QED
    BY <2>1, <2>2, <2>3 DEF Cached, FreshInv, SecondAttempt
<1>9. CASE RecordRow
  <2>1. step = "row" /\ step' = "attrs" /\ UNCHANGED <<memory, pkt, attempt>>
    BY <1>9 DEF RecordRow
  <2>2. \A p \in Indexed' : p \in Indexed \/ p = pkt
    BY IndexedStep
  <2>3. attempt' # 2
    BY <2>1 DEF SecondAttempt
  <2>4. QED
    BY <2>1, <2>2, <2>3 DEF Cached, FreshInv, SecondAttempt, memory
<1>10. CASE UpdateAttrs
  <2>1. step = "attrs" /\ step' = "flush" /\ UNCHANGED <<memory, pkt, attempt>> /\ Indexed' = Indexed
    BY <1>10 DEF UpdateAttrs, arrays, Indexed
  <2>2. attempt' # 2
    BY <2>1 DEF SecondAttempt
  <2>3. QED
    BY <2>1, <2>2 DEF Cached, FreshInv, SecondAttempt, memory
<1>11. CASE FlushAndClose
  <2>1. /\ step = "flush" /\ step' = "idle" /\ attempt' = 0 /\ Indexed' = Indexed
        /\ cache' = cache \cup {pkt} /\ seeded' = seeded
    BY <1>11 DEF FlushAndClose, Return, arrays, Indexed
  <2>2. QED
    BY <2>1 DEF Cached, FreshInv, SecondAttempt
<1>12. CASE ZerosTooLong
  <2>1. /\ step = "zerosamples" /\ Delta > MaxZeros /\ Indexed' = Indexed
        /\ cache' = cache /\ seeded' = seeded /\ UNCHANGED attrs
    BY <1>12 DEF ZerosTooLong, arrays, memory, Indexed
  <2>2. Fresh /\ TimeBroken /\ Delta > Tolerance /\ Cached
    BY <1>0, <2>1 DEF FreshInv, SecondAttempt
  <2>3. CASE step' = "opening" /\ attempt' = 2 /\ pkt' = pkt
    <3>1. Fresh' /\ TimeBroken' = TimeBroken /\ Delta' = Delta
      BY <2>1, <2>2, <2>3 DEF Fresh, TimeBroken, Delta, attrs
    <3>2. QED
      BY <2>1, <2>2, <2>3, <3>1 DEF Cached, FreshInv, SecondAttempt
  <2>4. CASE Return
    BY <2>1, <2>2, <2>4 DEF Return, Cached, FreshInv, SecondAttempt
  <2>5. QED
    BY <1>12, <2>3, <2>4 DEF ZerosTooLong, RetryOrRaise
<1>13. CASE Restart
  <2>1. step = "idle" /\ step' = "idle" /\ seeded' = FALSE /\ attempt' = attempt
    BY <1>13 DEF Restart
  <2>2. QED
    BY <2>1 DEF Cached, FreshInv, SecondAttempt
<1>14. CASE UNCHANGED vars
  <2>1. /\ UNCHANGED <<index, attrs, cache, seeded, pkt, attempt, step>> /\ Indexed' = Indexed
    BY <1>14 DEF vars, arrays, memory, Indexed
  <2>2. TimeBroken' = TimeBroken /\ Delta' = Delta /\ Fresh' = Fresh
    BY <2>1 DEF TimeBroken, Delta, attrs, Fresh
  <2>3. QED
    BY <2>1, <2>2 DEF Cached, FreshInv, SecondAttempt
<1>15. QED
  BY <1>1, <1>2, <1>4, <1>5, <1>6, <1>7, <1>8, <1>9, <1>10, <1>11, <1>12, <1>13, <1>14 DEF Next, Write

AtMostOne(S) == \A a, b \in S : a = b

\* A set of at most one element has at most one element.
LEMMA AtMostOneCounts ==
  ASSUME NEW S, AtMostOne(S)
  PROVE  Cardinality(S) <= 1
<1>1. CASE S = {}
  BY <1>1, FS_EmptySet
<1>2. ASSUME NEW a \in S PROVE Cardinality(S) <= 1
  <2>1. S = {a}
    BY DEF AtMostOne
  <2>2. Cardinality({a}) = 1
    BY FS_Singleton
  <2>3. QED
    BY <2>1, <2>2
<1>3. QED
  BY <1>1, <1>2

\* The steps after the sequence check, and those after the time check.
PastSequence == {"timegap", "zerosamples", "zerorow", "samples", "raw", "row", "attrs", "flush"}
PastTime == {"zerosamples", "zerorow", "samples", "raw", "row", "attrs", "flush"}

\* No write of packet p failed, as far as is known.
Accepted(p) == p \notin failed /\ ~(pkt = p /\ attempt = 2)

\* Packet p has at most one gap entry of a kind, and it has been stored or is
\* on its way behind the check that made the entry.
Flagged(p, kinds, steps) ==
  /\ AtMostOne(GapsOf(p, kinds))
  /\ GapsOf(p, kinds) # {} => p \in Indexed \/ (pkt = p /\ step \in steps)

\* The strengthening of StoredAndFlaggedOnce.
OnceInv == faults = 0 =>
  /\ CallInv
  /\ \A p \in Packets : AtMostOne(RecordsOf(p))
  /\ \A p \in Packets : Accepted(p) =>
       Flagged(p, SequenceKind, PastSequence) /\ Flagged(p, TimeKinds, PastTime)

\* A packet is stored under one row.
LEMMA RecordsStep ==
  ASSUME TypeOK, FreshInv, [Next]_vars, NEW p \in Packets, AtMostOne(RecordsOf(p))
  PROVE  AtMostOne(RecordsOf(p))'
<1>0. index \in Seq(Row)
  BY DEF TypeOK, ArraysOK
<1>1. CASE index' = index
  BY <1>1 DEF RecordsOf, AtMostOne
<1>2. ASSUME NEW r \in Row, index' = Append(index, r), r.kind # "record" \/ (RecordRow /\ r.pkt = pkt)
      PROVE  AtMostOne(RecordsOf(p))'
  <2> DEFINE n == Len(index) + 1
  <2>1. /\ Len(index) \in Nat /\ 1 .. Len(index') = 1 .. Len(index) \cup {n}
        /\ \A i \in 1 .. Len(index) : index'[i] = index[i]
        /\ index'[n] = r
    BY <1>0, <1>2, RowAppended
  <2>2. RecordsOf(p)' \subseteq RecordsOf(p) \cup {n}
    BY <2>1 DEF RecordsOf
  <2>3. CASE n \notin RecordsOf(p)'
    BY <2>2, <2>3 DEF AtMostOne
  <2>4. CASE n \in RecordsOf(p)'
    <3>1. r.kind = "record" /\ r.pkt = p
      BY <2>1, <2>4 DEF RecordsOf
    <3>2. p \notin Indexed
      BY <1>2, <3>1 DEF RecordRow, FreshInv, Fresh
    <3>3. RecordsOf(p) = {}
      BY <3>2 DEF RecordsOf, Indexed
    <3>4. QED
      BY <2>2, <3>3 DEF AtMostOne
  <2>5. QED
    BY <2>3, <2>4
<1>3. QED
  <2>1. \/ index' = index
        \/ \E r \in Row : index' = Append(index, r) /\ (r.kind # "record" \/ (RecordRow /\ r.pkt = pkt))
    BY IndexChange
  <2>2. QED
    BY <1>1, <1>2, <2>1

\* A packet on its way past a check stays so until it is stored or has failed.
LEMMA OnTheWay ==
  ASSUME TypeOK, StoredInv, CallInv, [Next]_vars, ~WriteFails, ~OpenUnread, NEW p \in Packets, Accepted(p)',
         NEW steps \in {PastSequence, PastTime}, p \in Indexed \/ (pkt = p /\ step \in steps)
  PROVE  p \in Indexed' \/ (pkt' = p /\ step' \in steps)
<1>0. Indexed \subseteq Indexed' /\ p # None
  BY IndexedStep, PacketsAssumption
<1> SUFFICES ASSUME pkt = p, step \in steps, p \notin Indexed'
             PROVE  pkt' = p /\ step' \in steps
  BY <1>0
<1>1. step \in PastSequence
  BY DEF PastSequence, PastTime
<1>2. step \notin {"attrs", "flush"} /\ ~RecordRow
  BY <1>0, IndexedStep DEF StoredInv
<1>3. CASE ZerosTooLong
  <2>1. attempt = 1 => attempt' = 2 /\ pkt' = p
    BY <1>3 DEF ZerosTooLong, RetryOrRaise
  <2>2. attempt # 1 => p \in failed'
    BY <1>3 DEF ZerosTooLong, RetryOrRaise
  <2>3. QED
    BY <2>1, <2>2 DEF Accepted
<1>4. CASE TimeGap \/ ZeroSamples \/ ZeroRow \/ RecordSamples \/ RecordRaw
  <2>1. pkt' = pkt /\ step' \in PastTime
    BY <1>4 DEF TimeGap, ZeroSamples, ZeroRow, RecordSamples, RecordRaw, PastTime
  <2>2. QED
    BY <2>1 DEF PastTime, PastSequence
<1>5. CASE UNCHANGED vars
  BY <1>5 DEF vars
<1>6. QED
  BY <1>1, <1>2, <1>3, <1>4, <1>5
     DEF Next, Write, Insert, Open, OpenForWrite, SequenceGap, UpdateAttrs, FlushAndClose, Restart, PastSequence

\* A packet of which no write is known to have failed had none failing before.
LEMMA AcceptedBefore ==
  ASSUME TypeOK, CallInv, [Next]_vars, ~WriteFails, ~OpenUnread, NEW p \in Packets, Accepted(p)'
  PROVE  Accepted(p)
<1>1. p \notin failed
  <2>1. failed \subseteq failed'
    BY DEF Next, Write, Insert, Open, OpenForWrite, SequenceGap, TimeGap, ZeroSamples, ZeroRow,
           RecordSamples, RecordRaw, RecordRow, UpdateAttrs, FlushAndClose, ZerosTooLong, RetryOrRaise,
           Restart, vars, history
  <2>2. QED
    BY <2>1 DEF Accepted
<1>2. ASSUME pkt = p, attempt = 2 PROVE FALSE
  <2>1. step \in {"opening", "seqgap", "timegap", "zerosamples"} /\ Fresh
    BY <1>2 DEF CallInv, SecondAttempt
  <2>2. ~(pkt' = p /\ attempt' = 2) /\ p \notin failed'
    BY DEF Accepted
  <2>3. CASE Open
    <3>1. pkt \notin cache' /\ step = "opening"
      BY <2>1, <2>3 DEF Open, OpenForWrite, Fresh
    <3>2. QED
      BY <1>2, <2>2, <2>3, <3>1 DEF Open, OpenForWrite
  <2>4. CASE ZerosTooLong
    BY <1>2, <2>2, <2>4 DEF ZerosTooLong, RetryOrRaise
  <2>5. CASE SequenceGap \/ TimeGap \/ ZeroSamples \/ UNCHANGED vars
    BY <1>2, <2>2, <2>5 DEF SequenceGap, TimeGap, ZeroSamples, vars
  <2>6. QED
    BY <2>1, <2>3, <2>4, <2>5
       DEF Next, Write, Insert, ZeroRow, RecordSamples, RecordRaw, RecordRow, UpdateAttrs, FlushAndClose, Restart
<1>3. QED
  BY <1>1, <1>2 DEF Accepted

\* Without errors an entry is added for a packet that has none of its kind.
LEMMA FlaggedStep ==
  ASSUME TypeOK, StoredInv, CallInv, [Next]_vars, ~WriteFails, ~OpenUnread, NEW p \in Packets, Accepted(p)',
         NEW kinds, NEW steps \in {PastSequence, PastTime}, Flagged(p, kinds, steps),
         \A g \in GapRow : gaps' = Append(gaps, g) /\ g.pkt = p /\ g.kind \in kinds =>
           pkt = p /\ pkt' = p /\ p \notin Indexed /\ step \notin steps /\ step' \in steps
  PROVE  Flagged(p, kinds, steps)'
<1>0. gaps \in Seq(GapRow) /\ Len(gaps) \in Nat
  BY DEF TypeOK, ArraysOK
<1>1. CASE gaps' = gaps
  <2>1. GapsOf(p, kinds)' = GapsOf(p, kinds)
    BY <1>1 DEF GapsOf
  <2>2. QED
    BY <2>1, OnTheWay DEF Flagged
<1>2. ASSUME NEW g \in GapRow, gaps' = Append(gaps, g) PROVE Flagged(p, kinds, steps)'
  <2> DEFINE n == Len(gaps) + 1
  <2>1. /\ Len(gaps') = n /\ 1 .. Len(gaps') = 1 .. Len(gaps) \cup {n}
        /\ \A i \in 1 .. Len(gaps) : gaps'[i] = gaps[i]
        /\ gaps'[n] = g
    BY <1>0, <1>2, AppendProperties
  <2>2. GapsOf(p, kinds)' \subseteq GapsOf(p, kinds) \cup {n}
    BY <2>1 DEF GapsOf
  <2>3. CASE n \notin GapsOf(p, kinds)'
    <3>1. GapsOf(p, kinds)' \subseteq GapsOf(p, kinds)
      BY <2>2, <2>3
    <3>2. QED
      BY <3>1, OnTheWay DEF Flagged, AtMostOne
  <2>4. CASE n \in GapsOf(p, kinds)'
    <3>1. g.pkt = p /\ g.kind \in kinds
      BY <2>1, <2>4 DEF GapsOf
    <3>2. pkt = p /\ pkt' = p /\ p \notin Indexed /\ step \notin steps /\ step' \in steps
      BY <1>2, <3>1
    <3>3. GapsOf(p, kinds) = {}
      BY <3>2 DEF Flagged
    <3>4. QED
      BY <2>2, <3>2, <3>3 DEF Flagged, AtMostOne
  <2>5. QED
    BY <2>3, <2>4
<1>3. QED
  BY <1>1, <1>2, GapsChange

\* OnceInv holds after a step.
LEMMA OnceStep == TypeOK /\ StoredInv /\ OnceInv /\ [Next]_vars => OnceInv'
<1> SUFFICES ASSUME TypeOK, StoredInv, OnceInv, [Next]_vars, faults' = 0 PROVE OnceInv'
  BY DEF OnceInv
<1>1. faults = 0 /\ ~WriteFails /\ ~OpenUnread
  <2>1. faults = 0
    BY AttrsChange
  <2>2. QED
    BY <2>1 DEF WriteFails, OpenUnread
<1>2. CallInv /\ CallInv'
  BY <1>1, CallInvStep DEF OnceInv
<1>3. \A p \in Packets : AtMostOne(RecordsOf(p))'
  BY <1>1, <1>2, RecordsStep DEF OnceInv, CallInv
<1>4. ASSUME NEW p \in Packets, Accepted(p)'
      PROVE  Flagged(p, SequenceKind, PastSequence)' /\ Flagged(p, TimeKinds, PastTime)'
  <2>1. Flagged(p, SequenceKind, PastSequence) /\ Flagged(p, TimeKinds, PastTime)
    BY <1>1, <1>2, <1>4, AcceptedBefore DEF OnceInv
  <2>2. SequenceGap => /\ step = "seqgap" /\ step' = "timegap" /\ pkt' = pkt /\ Fresh
    BY <1>2 DEF SequenceGap, CallInv, FreshInv
  <2>3. TimeGap /\ TimeBroken => /\ step = "timegap" /\ step' \in PastTime /\ pkt' = pkt /\ Fresh
    BY <1>2 DEF TimeGap, CallInv, FreshInv, PastTime
  <2>4. ASSUME NEW g \in GapRow, gaps' = Append(gaps, g)
        PROVE  /\ g.pkt = pkt
               /\ \/ SequenceGap /\ g.kind \in SequenceKind
                  \/ TimeGap /\ TimeBroken /\ g.kind \in TimeKinds
    <3>1. gaps \in Seq(GapRow) /\ Len(gaps) \in Nat
      BY DEF TypeOK, ArraysOK
    <3>2. \A h \in GapRow : /\ Len(Append(gaps, h)) = Len(gaps) + 1
                            /\ Append(gaps, h)[Len(gaps) + 1] = h
      BY <3>1, AppendProperties
    <3>3. gaps' # gaps
      BY <2>4, <3>1, <3>2
    <3>4. PICK h \in GapRow :
              /\ gaps' = Append(gaps, h) /\ h.pkt = pkt
              /\ \/ SequenceGap /\ h.kind \in SequenceKind
                 \/ TimeGap /\ TimeBroken /\ h.kind \in TimeKinds
      BY <1>1, <3>3, GapsChange
    <3>5. g = h
      BY <2>4, <3>2, <3>4
    <3>6. QED
      BY <3>4, <3>5
  <2>5. SequenceKind \cap TimeKinds = {} /\ "seqgap" \notin PastSequence /\ "timegap" \in PastSequence
        /\ "timegap" \notin PastTime
    BY DEF SequenceKind, TimeKinds, PastSequence, PastTime
  <2>6. Flagged(p, SequenceKind, PastSequence)'
    <3>1. \A g \in GapRow : gaps' = Append(gaps, g) /\ g.pkt = p /\ g.kind \in SequenceKind =>
            pkt = p /\ pkt' = p /\ p \notin Indexed /\ step \notin PastSequence /\ step' \in PastSequence
      BY <2>2, <2>4, <2>5 DEF Fresh
    <3>2. QED
      BY <1>1, <1>2, <1>4, <2>1, <3>1, FlaggedStep
  <2>7. Flagged(p, TimeKinds, PastTime)'
    <3>1. \A g \in GapRow : gaps' = Append(gaps, g) /\ g.pkt = p /\ g.kind \in TimeKinds =>
            pkt = p /\ pkt' = p /\ p \notin Indexed /\ step \notin PastTime /\ step' \in PastTime
      BY <2>3, <2>4, <2>5 DEF Fresh
    <3>2. QED
      BY <1>1, <1>2, <1>4, <2>1, <3>1, FlaggedStep
  <2>8. QED
    BY <2>6, <2>7
<1>5. QED
  BY <1>2, <1>3, <1>4 DEF OnceInv

\* Without HDF5 errors a packet has one row and at most one gap entry of a kind,
\* whatever is sent again and whenever the receiver is restarted.
THEOREM OnceCorrect == Spec => []OnceInv
<1>1. Init => OnceInv
  <2> SUFFICES ASSUME Init PROVE OnceInv
    OBVIOUS
  <2>1. /\ seeded = FALSE /\ step = "idle" /\ attempt = 0 /\ index = << >> /\ gaps = << >>
    BY DEF Init
  <2>2. CallInv
    BY <2>1 DEF CallInv, Cached, FreshInv, SecondAttempt
  <2>3. \A p, kinds : RecordsOf(p) = {} /\ GapsOf(p, kinds) = {}
    BY <2>1 DEF RecordsOf, GapsOf
  <2>4. QED
    BY <2>2, <2>3 DEF OnceInv, AtMostOne, Flagged
<1>2. QED
  BY <1>1, OnceStep, TypeCorrect, StoredCorrect, PTL DEF Spec

\* What the run checks of it: the numbers of rows and gap entries.
THEOREM StoredAndFlaggedOnceCorrect == Spec => []StoredAndFlaggedOnce
<1>1. OnceInv => StoredAndFlaggedOnce
  <2> SUFFICES ASSUME OnceInv, faults = 0, NEW p \in Packets, p \notin failed, pkt = p => attempt = 1
               PROVE  /\ Cardinality(RecordsOf(p)) <= 1
                      /\ Cardinality(GapsOf(p, SequenceKind)) <= 1
                      /\ Cardinality(GapsOf(p, TimeKinds)) <= 1
    BY DEF StoredAndFlaggedOnce, SequenceKind, TimeKinds
  <2>1. Accepted(p)
    BY DEF Accepted
  <2>2. AtMostOne(RecordsOf(p)) /\ AtMostOne(GapsOf(p, SequenceKind)) /\ AtMostOne(GapsOf(p, TimeKinds))
    BY <2>1 DEF OnceInv, Flagged
  <2>3. QED
    BY <2>2, AtMostOneCounts
<1>2. QED
  BY <1>1, OnceCorrect, PTL

-----------------------------------------------------------------------------
(* No holes. *)

\* A row that is not blank spans time t; rows span all of lo .. hi - 1; they
\* leave no hole in it that is longer than the tolerance.
Covers(rows, t) ==
  \E i \in 1 .. Len(rows) :
    rows[i].kind # "blank" /\ rows[i].start <= t /\ t < rows[i].start + rows[i].npts
CoversAll(rows, lo, hi) == \A t \in lo .. hi - 1 : Covers(rows, t)
HoleFree(rows, lo, hi) ==
  \A t \in lo .. hi - 1 - Tolerance : \E u \in t .. t + Tolerance : Covers(rows, u)

\* What was stored keeps the time check on.
Ordinary == (\A p \in Indexed : Regular(p) \/ Fallback(p)) /\ ~torn

\* A record's row has its packet's times.
RowsOfPackets ==
  \A i \in 1 .. Len(index) : index[i].kind = "record" =>
    index[i].pkt \in Packets /\ index[i].start = index[i].pkt.start /\ index[i].npts = index[i].pkt.npts

\* Behind the zeros, the time from the last packet to the one in hand is filled;
\* behind its row, so is its own.
Filled ==
  /\ step \in {"samples", "raw", "row", "attrs"}
  /\ pkt.timed /\ lastSeq >= 0 /\ lastEnd > 0 /\ Delta > Tolerance
  => CoversAll(index, lastEnd, pkt.start)
OwnTime == step = "attrs" => CoversAll(index, pkt.start, pkt.start + pkt.npts)

\* Before there is a last packet, the only row with a time is that of the packet
\* in hand; the last packet's end is spanned; and there is no hole before it.
FirstInv ==
  lastStart = -1 => \A i \in 1 .. Len(index) :
    index[i].kind = "record" /\ index[i].pkt.timed => step = "attrs" /\ index[i].pkt = pkt
EndCovered == lastStart # -1 => Covers(index, lastEnd - 1)
NoHoles == \A i \in 1 .. Len(index) : FirstTimed(i) => HoleFree(index, index[i].start, lastEnd)

HoleInv ==
  /\ RowsOfPackets /\ Filled /\ OwnTime
  /\ Ordinary => FirstInv /\ EndCovered /\ NoHoles

\* HoleInv says what the run checks.
LEMMA HoleInvNoHole == HoleInv => NoHole
<1>1. \A t : Covered(t) <=> Covers(index, t)
  BY DEF Covered, Covers
<1>2. QED
  BY <1>1 DEF HoleInv, NoHoles, HoleFree, NoHole, Ordinary

\* A longer index spans what it did.
LEMMA CoversMore ==
  ASSUME NEW rows \in Seq(Row), NEW r \in Row
  PROVE  /\ \A t : Covers(rows, t) => Covers(Append(rows, r), t)
         /\ r.kind # "blank" =>
              \A t \in Int : r.start <= t /\ t < r.start + r.npts => Covers(Append(rows, r), t)
<1> DEFINE n == Len(rows) + 1
<1>1. /\ Len(rows) \in Nat /\ Len(Append(rows, r)) = n
      /\ \A i \in 1 .. Len(rows) : Append(rows, r)[i] = rows[i]
      /\ Append(rows, r)[n] = r
  BY AppendProperties
<1>2. ASSUME NEW t, Covers(rows, t) PROVE Covers(Append(rows, r), t)
  BY <1>1, <1>2 DEF Covers
<1>3. ASSUME r.kind # "blank", NEW t \in Int, r.start <= t, t < r.start + r.npts
      PROVE  Covers(Append(rows, r), t)
  BY <1>1, <1>3 DEF Covers
<1>4. QED
  BY <1>2, <1>3

\* What the index spans it still spans after a step.
LEMMA CoversStay ==
  ASSUME TypeOK, [Next]_vars
  PROVE  \A t : Covers(index, t) => Covers(index', t)
<1>1. index \in Seq(Row)
  BY DEF TypeOK, ArraysOK
<1>2. ASSUME NEW r \in Row, index' = Append(index, r)
      PROVE  \A t : Covers(index, t) => Covers(index', t)
  BY <1>1, <1>2, CoversMore
<1>3. QED
  BY <1>2, IndexChange

\* The rows of packets keep their times.
LEMMA RowsOfPacketsStep == TypeOK /\ RowsOfPackets /\ [Next]_vars => RowsOfPackets'
<1> SUFFICES ASSUME TypeOK, RowsOfPackets, [Next]_vars PROVE RowsOfPackets'
  OBVIOUS
<1>1. index \in Seq(Row)
  BY DEF TypeOK, ArraysOK
<1>2. CASE index' = index
  BY <1>2 DEF RowsOfPackets
<1>3. ASSUME NEW r \in Row, index' = Append(index, r),
             r.kind = "record" => r.pkt \in Packets /\ r.start = r.pkt.start /\ r.npts = r.pkt.npts
      PROVE  RowsOfPackets'
  <2>1. /\ Len(index) \in Nat /\ Len(index') = Len(index) + 1
        /\ \A i \in 1 .. Len(index) : index'[i] = index[i]
        /\ index'[Len(index) + 1] = r
        /\ 1 .. Len(index') = 1 .. Len(index) \cup {Len(index) + 1}
    BY <1>1, <1>3, RowAppended
  <2>2. QED
    BY <1>3, <2>1 DEF RowsOfPackets
<1>4. RecordRow => pkt \in Packets
  BY DEF RecordRow, TypeOK, CallOK
<1>5. \/ index' = index
      \/ \E r \in Row : /\ index' = Append(index, r)
                        /\ r.kind = "record" => r.pkt \in Packets /\ r.start = r.pkt.start /\ r.npts = r.pkt.npts
  BY <1>4, IndexChange
<1>6. QED
  BY <1>2, <1>3, <1>5

\* The step to a later one of the steps that append the record.
LEMMA Appending ==
  ASSUME TypeOK, [Next]_vars, step' \in {"samples", "raw", "row", "attrs"}
  PROVE  /\ pkt' = pkt /\ lastSeq' = lastSeq /\ lastEnd' = lastEnd
         /\ \/ step \in {"samples", "raw", "row", "attrs"}
            \/ TimeGap \/ ZeroRow
         /\ step' = "attrs" => step = "attrs" \/ RecordRow
<1>1. CASE TimeGap \/ ZeroRow \/ RecordSamples \/ RecordRaw \/ RecordRow
  BY <1>1 DEF TimeGap, ZeroRow, RecordSamples, RecordRaw, RecordRow, attrs
<1>2. CASE UNCHANGED vars
  BY <1>2 DEF vars, attrs
<1>3. WriteFails \/ ZerosTooLong => step' \in {"opening", "idle"}
  BY DEF WriteFails, ZerosTooLong, RetryOrRaise, Return
<1>4. Open \/ OpenUnread => step' \in {"seqgap", "idle"}
  BY DEF Open, OpenUnread, OpenForWrite, Return
<1>5. Restart \/ FlushAndClose => step' = "idle"
  BY DEF Restart, FlushAndClose, Return
<1>6. SequenceGap \/ ZeroSamples \/ UpdateAttrs => step' \in {"timegap", "zerorow", "flush"}
  BY DEF SequenceGap, ZeroSamples, UpdateAttrs
<1>7. (\E p \in Packets : Insert(p)) => step' \in {"idle", "opening"}
  BY DEF Insert
<1>8. QED
  BY <1>1, <1>2, <1>3, <1>4, <1>5, <1>6, <1>7 DEF Next, Write

\* The time up to the packet in hand is filled before its samples are appended,
\* and stays so.
LEMMA FilledStep == TypeOK /\ Filled /\ [Next]_vars => Filled'
<1> SUFFICES ASSUME TypeOK, Filled, [Next]_vars, step' \in {"samples", "raw", "row", "attrs"},
                    pkt'.timed, lastSeq' >= 0, lastEnd' > 0, Delta' > Tolerance
             PROVE  CoversAll(index', lastEnd', pkt'.start)
  BY DEF Filled
<1>1. pkt' = pkt /\ lastSeq' = lastSeq /\ lastEnd' = lastEnd /\ Delta' = Delta
  BY Appending DEF Delta
<1>2. CASE step \in {"samples", "raw", "row", "attrs"}
  <2>1. CoversAll(index, lastEnd, pkt.start)
    BY <1>1, <1>2 DEF Filled
  <2>2. QED
    BY <1>1, <2>1, CoversStay DEF CoversAll
<1>3. CASE TimeGap
  <2>1. TimeBroken
    BY <1>1 DEF TimeBroken
  <2>2. step' = "zerosamples"
    BY <1>1, <1>3, <2>1 DEF TimeGap
  <2>3. QED
    BY <2>2
<1>4. CASE ZeroRow
  <2>0. index \in Seq(Row) /\ pkt \in Packets /\ lastEnd \in Int
    BY <1>4 DEF ZeroRow, TypeOK, ArraysOK, CallOK, AttrsOK
  <2>1. ~RecordRow /\ ~WriteFails
    BY <1>4 DEF ZeroRow, RecordRow, WriteFails, RetryOrRaise, Return
  <2>2. PICK r \in Row : index' = Append(index, r) /\ r.kind = "zeros" /\ r.start = lastEnd /\ r.npts = Delta
    BY <1>4, <2>1, IndexChange
  <2>3. pkt.start \in Int /\ Delta = pkt.start - lastEnd
    BY <2>0, PacketFields DEF Delta
  <2>4. ASSUME NEW t \in lastEnd .. pkt.start - 1 PROVE Covers(index', t)
    <3>1. t \in Int /\ r.start <= t /\ t < r.start + r.npts
      BY <2>0, <2>2, <2>3
    <3>2. QED
      BY <2>0, <2>2, <3>1, CoversMore
  <2>5. QED
    BY <1>1, <2>4 DEF CoversAll
<1>5. QED
  BY <1>2, <1>3, <1>4, Appending

\* The packet's own time is spanned by its row.
LEMMA OwnTimeStep == TypeOK /\ OwnTime /\ [Next]_vars => OwnTime'
<1> SUFFICES ASSUME TypeOK, OwnTime, [Next]_vars, step' = "attrs"
             PROVE  CoversAll(index', pkt'.start, pkt'.start + pkt'.npts)
  BY DEF OwnTime
<1>1. pkt' = pkt /\ (step = "attrs" \/ RecordRow)
  BY Appending
<1>2. CASE step = "attrs"
  BY <1>1, <1>2, CoversStay DEF OwnTime, CoversAll
<1>3. CASE RecordRow
  <2>0. index \in Seq(Row) /\ pkt \in Packets
    BY <1>3 DEF RecordRow, TypeOK, ArraysOK, CallOK
  <2>1. ~ZeroRow /\ ~WriteFails
    BY <1>3 DEF ZeroRow, RecordRow, WriteFails, RetryOrRaise, Return
  <2>2. PICK r \in Row : index' = Append(index, r) /\ r.kind = "record" /\ r.start = pkt.start /\ r.npts = pkt.npts
    BY <1>3, <2>1, IndexChange
  <2>3. pkt.start \in Int /\ pkt.npts \in Nat
    BY <2>0, PacketFields
  <2> DEFINE end == pkt.start + pkt.npts
  <2>4. ASSUME NEW t \in pkt.start .. end - 1 PROVE Covers(index', t)
    <3>1. t \in Int /\ r.start <= t /\ t < r.start + r.npts
      BY <2>2, <2>3
    <3>2. QED
      BY <2>0, <2>2, <3>1, CoversMore
  <2>5. pkt.start = pkt'.start /\ end = pkt'.start + pkt'.npts
    BY <1>1
  <2> HIDE DEF end
  <2>6. CoversAll(index', pkt.start, end)
    BY <2>4 DEF CoversAll
  <2>7. QED
    BY <2>5, <2>6
<1>4. QED
  BY <1>1, <1>2, <1>3

\* While there is no last packet the attributes are untouched; otherwise they are
\* a regular packet's, which is stored.
LEMMA OrdinaryLast ==
  ASSUME TypeOK, LastInv, Ordinary
  PROVE  /\ lastStart = -1 => NoneYet
         /\ lastStart # -1 => /\ lastStart >= 0 /\ lastSeq >= 0 /\ lastEnd > 0
                              /\ \E p \in Indexed : p.timed
<1>1. CASE NoneYet
  BY <1>1 DEF NoneYet
<1>2. ASSUME NEW p \in Indexed, p.start >= 0, LastIs(p)
      PROVE  lastStart >= 0 /\ lastSeq >= 0 /\ lastEnd > 0 /\ p.timed
  <2>1. p.seq \in Int /\ p.start \in Int /\ p.npts \in Nat
    BY PacketFields DEF TypeOK, ArraysOK
  <2>2. Regular(p)
    <3>1. p.start # -1
      BY <1>2, <2>1
    <3>2. QED
      BY <3>1 DEF Ordinary, Fallback
  <2>3. End(p) = p.start + p.npts
    BY <2>1, <2>2 DEF Regular, End
  <2>4. QED
    BY <1>2, <2>1, <2>2, <2>3 DEF LastIs, Regular
<1>3. ~torn
  BY DEF Ordinary
<1>4. lastStart \in Int
  BY DEF TypeOK, AttrsOK
<1>5. CASE \E p \in Indexed : p.start >= 0 /\ LastIs(p)
  <2>1. PICK p \in Indexed : p.start >= 0 /\ LastIs(p)
    BY <1>5
  <2>2. lastStart >= 0 /\ lastSeq >= 0 /\ lastEnd > 0 /\ p.timed
    BY <1>2, <2>1
  <2>3. QED
    BY <1>4, <2>2
<1>6. QED
  BY <1>1, <1>3, <1>5 DEF LastInv

\* A stored packet with a time starts at its row's start, which is not negative.
LEMMA TimedRows ==
  ASSUME TypeOK, RowsOfPackets, Ordinary, NEW i \in 1 .. Len(index),
         index[i].kind = "record", index[i].pkt.timed
  PROVE  index[i].pkt \in Indexed /\ Regular(index[i].pkt) /\ index[i].start = index[i].pkt.start
<1>1. index[i].pkt \in Indexed
  BY DEF Indexed
<1>2. QED
  BY <1>1 DEF Ordinary, Fallback, RowsOfPackets

\* A new row starts no sooner than there is a last packet.
LEMMA RowsGrow ==
  ASSUME TypeOK, LastInv, RowsOfPackets, Ordinary, Ordinary', [Next]_vars, UNCHANGED <<attrs, torn>>,
         FirstInv, EndCovered, NoHoles,
         step = "attrs" => (step' = "attrs" /\ pkt' = pkt) \/ pkt.start <= lastStart
  PROVE  FirstInv' /\ EndCovered' /\ NoHoles'
<1>0. /\ index \in Seq(Row) /\ Len(index) \in Nat /\ lastEnd \in Int /\ lastStart \in Int /\ Tolerance \in Nat
      /\ lastSeq' = lastSeq /\ lastStart' = lastStart /\ lastEnd' = lastEnd
  BY BoundsAssumption DEF TypeOK, ArraysOK, AttrsOK, attrs
<1>1. EndCovered'
  <2>1. lastStart # -1 => Covers(index', lastEnd - 1)
    BY CoversStay DEF EndCovered
  <2>2. QED
    BY <1>0, <2>1 DEF EndCovered
<1>2. RowsOfPackets'
  BY RowsOfPacketsStep
\* Old rows.
<1>3. ASSUME lastStart = -1, NEW i \in 1 .. Len(index), index[i].kind = "record", index[i].pkt.timed
      PROVE  step' = "attrs" /\ index[i].pkt = pkt'
  <2>1. step = "attrs" /\ index[i].pkt = pkt
    BY <1>3 DEF FirstInv
  <2>2. Regular(pkt)
    BY <1>3, <2>1, TimedRows
  <2>3. pkt.start \in Int
    BY <2>1, PacketFields DEF TypeOK, CallOK
  <2>4. ~(pkt.start <= lastStart)
    BY <1>3, <2>2, <2>3 DEF Regular
  <2>5. QED
    BY <2>1, <2>4
<1>4. ASSUME NEW lo, HoleFree(index, lo, lastEnd) PROVE HoleFree(index', lo, lastEnd)
  BY <1>4, CoversStay DEF HoleFree
<1>5. CASE index' = index
  <2>1. FirstInv'
    <3>1. lastStart = -1 => \A i \in 1 .. Len(index) :
            index[i].kind = "record" /\ index[i].pkt.timed => step' = "attrs" /\ index[i].pkt = pkt'
      BY <1>3
    <3>2. QED
      BY <1>0, <1>5, <3>1 DEF FirstInv
  <2>2. NoHoles'
    BY <1>0, <1>5 DEF NoHoles, FirstTimed, HoleFree, Covers
  <2>3. QED
    BY <1>1, <2>1, <2>2
<1>6. ASSUME NEW r \in Row, index' = Append(index, r),
             r.kind = "record" => RecordRow /\ r.pkt = pkt
      PROVE  FirstInv' /\ NoHoles'
  <2> DEFINE n == Len(index) + 1
  <2>1. /\ Len(index') = n /\ 1 .. Len(index') = 1 .. Len(index) \cup {n}
        /\ \A i \in 1 .. Len(index) : index'[i] = index[i]
        /\ index'[n] = r
    BY <1>0, <1>6, RowAppended
  <2>2. RecordRow => step = "row" /\ step' = "attrs" /\ pkt' = pkt
    BY DEF RecordRow
  <2>3. FirstInv'
    <3>1. \A i \in 1 .. Len(index') : lastStart = -1 /\ index'[i].kind = "record" /\ index'[i].pkt.timed
                                        => step' = "attrs" /\ index'[i].pkt = pkt'
      BY <1>3, <1>6, <2>1, <2>2
    <3>2. QED
      BY <1>0, <3>1 DEF FirstInv
  <2>4. ASSUME NEW i \in 1 .. Len(index'), FirstTimed(i)' PROVE HoleFree(index', index'[i].start, lastEnd)
    <3>1. CASE i \in 1 .. Len(index)
      <4>1. FirstTimed(i)
        BY <1>0, <2>1, <2>4, <3>1 DEF FirstTimed
      <4>2. HoleFree(index, index[i].start, lastEnd)
        BY <3>1, <4>1 DEF NoHoles
      <4>3. index'[i] = index[i]
        BY <2>1, <3>1
      <4>4. QED
        BY <1>4, <4>2, <4>3
    <3>2. CASE i = n
      <4>1. \A j \in 1 .. Len(index) : index[j].kind = "record" => ~index[j].pkt.timed
        BY <1>0, <2>1, <2>4, <3>2 DEF FirstTimed
      <4>2. \A p \in Indexed : ~p.timed
        BY <4>1 DEF Indexed
      <4>3. lastEnd = -1
        BY <4>2, OrdinaryLast DEF NoneYet
      <4>4. r.kind = "record" /\ r.pkt.timed
        BY <2>1, <2>4, <3>2 DEF FirstTimed
      <4>5. r.start >= 0 /\ r.start \in Int
        <5>1. r.pkt \in Indexed'
          BY <1>0, <1>6, <4>4, IndexAppended
        <5>2. Regular(r.pkt)
          BY <4>4, <5>1 DEF Ordinary, Fallback
        <5>3. r.start = r.pkt.start
          BY <1>2, <2>1, <4>4 DEF RowsOfPackets
        <5>4. QED
          BY <5>2, <5>3 DEF Regular, Row
      <4>6. index'[i].start = r.start
        BY <2>1, <3>2
      <4>7. index'[i].start .. lastEnd - 1 - Tolerance = {}
        BY <1>0, <4>3, <4>5, <4>6
      <4>8. QED
        BY <4>7 DEF HoleFree
    <3>3. QED
      BY <2>1, <3>1, <3>2
  <2>5. QED
    BY <1>0, <2>3, <2>4 DEF NoHoles
<1>7. QED
  <2>1. \/ index' = index
        \/ \E r \in Row : index' = Append(index, r) /\ (r.kind = "record" => RecordRow /\ r.pkt = pkt)
    BY IndexChange
  <2>2. QED
    BY <1>1, <1>5, <1>6, <2>1

\* When the packet in hand becomes the last one, no hole is left before its end:
\* a longer one was filled, a shorter one is tolerated.
LEMMA HoleClosed ==
  ASSUME TypeOK, NEW p \in Packets, Regular(p), NEW lo \in Int,
         lastEnd > 0, Covers(index, lastEnd - 1), HoleFree(index, lo, lastEnd),
         p.start - lastEnd > Tolerance => CoversAll(index, lastEnd, p.start),
         CoversAll(index, p.start, p.start + p.npts)
  PROVE  HoleFree(index, lo, End(p))
<1>0. /\ p.start \in Int /\ p.npts \in Nat /\ p.npts > 0 /\ End(p) = p.start + p.npts
      /\ lastEnd \in Int /\ Tolerance \in Nat
  BY PacketFields, BoundsAssumption DEF TypeOK, AttrsOK, Regular, End
<1> DEFINE end == End(p)
<1>1. end \in Int /\ end = p.start + p.npts
  BY <1>0
<1>2. \A t \in Int : p.start <= t /\ t < end => Covers(index, t)
  <2>1. \A a, b : CoversAll(index, a, b) => \A t \in a .. b - 1 : Covers(index, t)
    BY DEF CoversAll
  <2>2. \A t \in p.start .. end - 1 : Covers(index, t)
    BY <1>1, <2>1
  <2> HIDE DEF end
  <2>3. QED
    BY <1>0, <1>1, <2>2
<1> HIDE DEF end
<1>3. ASSUME NEW t \in lo .. end - 1 - Tolerance
      PROVE  \E u \in t .. t + Tolerance : Covers(index, u)
  <2>0. t \in Int /\ t <= end - 1 /\ t + Tolerance \in Int /\ t \in t .. t + Tolerance
    BY <1>0, <1>1
  <2>1. CASE t <= lastEnd - 1 - Tolerance
    <3>1. t \in lo .. lastEnd - 1 - Tolerance
      BY <1>0, <2>0, <2>1
    <3>2. QED
      BY <3>1 DEF HoleFree
  <2>2. CASE p.start <= t
    BY <1>2, <1>0, <1>1, <2>0, <2>2
  <2>3. CASE t > lastEnd - 1 - Tolerance /\ t < p.start /\ p.start - lastEnd > Tolerance
    <3>1. \A s \in lastEnd .. p.start - 1 : Covers(index, s)
      BY <2>3 DEF CoversAll
    <3>2. CASE t >= lastEnd
      BY <1>0, <2>0, <2>3, <3>1, <3>2
    <3>3. CASE t < lastEnd
      <4>1. lastEnd \in lastEnd .. p.start - 1 /\ lastEnd \in t .. t + Tolerance
        BY <1>0, <2>0, <2>3, <3>3
      <4>2. QED
        BY <3>1, <4>1
    <3>4. QED
      BY <1>0, <2>0, <3>2, <3>3
  <2>4. CASE t > lastEnd - 1 - Tolerance /\ t < p.start /\ p.start - lastEnd <= Tolerance
    <3>1. CASE t >= lastEnd
      <4>1. p.start \in t .. t + Tolerance /\ p.start < end
        BY <1>0, <1>1, <2>0, <2>4, <3>1
      <4>2. QED
        BY <1>0, <1>2, <4>1
    <3>2. CASE t < lastEnd
      <4>1. lastEnd - 1 \in t .. t + Tolerance
        BY <1>0, <2>0, <2>4, <3>2
      <4>2. QED
        BY <4>1
    <3>3. QED
      BY <1>0, <2>0, <3>1, <3>2
  <2>5. QED
    BY <1>0, <2>0, <2>1, <2>2, <2>3, <2>4
<1>4. HoleFree(index, lo, end)
  BY <1>3 DEF HoleFree
<1>5. QED
  BY <1>4 DEF end

\* The packet in hand becomes the last one.
LEMMA AdvanceStep ==
  ASSUME TypeOK, StoredInv, LastInv, HoleInv, Ordinary, Advances
  PROVE  FirstInv' /\ EndCovered' /\ NoHoles'
<1>0. /\ pkt \in Packets /\ pkt \in Indexed /\ step = "attrs" /\ pkt.start > lastStart
      /\ index' = index /\ lastStart' = pkt.start /\ lastEnd' = End(pkt)
      /\ FirstInv /\ EndCovered /\ NoHoles /\ Filled /\ OwnTime /\ RowsOfPackets
  BY DEF Advances, StoredInv, TypeOK, CallOK, HoleInv
<1>1. /\ pkt.start \in Int /\ pkt.npts \in Nat /\ lastStart \in Int /\ lastEnd \in Int /\ End(pkt) \in Int
      /\ Tolerance \in Nat
  BY <1>0, PacketFields, BoundsAssumption DEF TypeOK, AttrsOK
<1>2. lastStart >= -1
  BY <1>1, OrdinaryLast
<1>3. Regular(pkt)
  BY <1>0, <1>1, <1>2 DEF Ordinary, Fallback
<1>4. pkt.start >= 0 /\ pkt.npts > 0 /\ pkt.timed /\ End(pkt) = pkt.start + pkt.npts
  BY <1>1, <1>3 DEF Regular, End
<1>5. FirstInv'
  BY <1>0, <1>1, <1>4 DEF FirstInv
<1>6. \A t \in Int : pkt.start <= t /\ t < pkt.start + pkt.npts => Covers(index, t)
  <2> DEFINE end == pkt.start + pkt.npts
  <2>1. \A a, b : CoversAll(index, a, b) => \A t \in a .. b - 1 : Covers(index, t)
    BY DEF CoversAll
  <2>2. \A t \in pkt.start .. end - 1 : Covers(index, t)
    BY <1>0, <2>1 DEF OwnTime
  <2>3. end \in Int
    BY <1>1
  <2> HIDE DEF end
  <2>4. \A t \in Int : pkt.start <= t /\ t < end => Covers(index, t)
    BY <1>1, <2>2, <2>3
  <2>5. QED
    BY <2>4 DEF end
<1>7. EndCovered'
  <2>1. Covers(index, End(pkt) - 1)
    BY <1>1, <1>4, <1>6
  <2>2. QED
    BY <1>0, <2>1 DEF EndCovered
<1>8. ASSUME NEW i \in 1 .. Len(index), FirstTimed(i)
      PROVE  HoleFree(index, index[i].start, End(pkt))
  <2>1. index[i].kind = "record" /\ index[i].pkt.timed
    BY <1>8 DEF FirstTimed
  <2>2. index[i].start = index[i].pkt.start /\ index[i].pkt \in Packets
    BY <1>0, <2>1 DEF RowsOfPackets
  <2>3. index[i].start \in Int
    BY <2>2, PacketFields
  <2>4. CASE lastStart = -1
    <3>1. index[i].start = pkt.start
      BY <1>0, <2>1, <2>2, <2>4 DEF FirstInv
    <3>2. ASSUME NEW t \in pkt.start .. End(pkt) - 1 - Tolerance
          PROVE  \E u \in t .. t + Tolerance : Covers(index, u)
      <4>1. t \in Int /\ pkt.start <= t /\ t < pkt.start + pkt.npts /\ t \in t .. t + Tolerance
        BY <1>1, <1>4
      <4>2. QED
        BY <1>6, <4>1
    <3>3. HoleFree(index, pkt.start, End(pkt))
      BY <3>2 DEF HoleFree
    <3>4. QED
      BY <3>1, <3>3
  <2>5. CASE lastStart # -1
    <3>1. lastSeq >= 0 /\ lastEnd > 0
      BY <2>5, OrdinaryLast
    <3>2. Covers(index, lastEnd - 1) /\ HoleFree(index, index[i].start, lastEnd)
      BY <1>0, <1>8, <2>5 DEF EndCovered, NoHoles
    <3>3. pkt.start - lastEnd > Tolerance => CoversAll(index, lastEnd, pkt.start)
      BY <1>0, <1>4, <3>1 DEF Filled, Delta
    <3>4. CoversAll(index, pkt.start, pkt.start + pkt.npts)
      BY <1>0 DEF OwnTime
    <3>5. \A p \in Packets, lo \in Int :
            /\ Regular(p) /\ HoleFree(index, lo, lastEnd)
            /\ p.start - lastEnd > Tolerance => CoversAll(index, lastEnd, p.start)
            /\ CoversAll(index, p.start, p.start + p.npts)
            => HoleFree(index, lo, End(p))
      BY <3>1, <3>2, HoleClosed
    <3>6. QED
      BY <1>0, <1>3, <2>3, <3>2, <3>3, <3>4, <3>5
  <2>6. QED
    BY <2>4, <2>5
<1>9. NoHoles'
  <2>1. \A i \in 1 .. Len(index) : FirstTimed(i)' => FirstTimed(i)
    BY <1>0 DEF FirstTimed
  <2>2. \A i \in 1 .. Len(index) : FirstTimed(i)' => HoleFree(index', index'[i].start, lastEnd')
    BY <1>0, <1>8, <2>1
  <2>3. QED
    BY <1>0, <2>2 DEF NoHoles, HoleFree
<1>10. QED
  BY <1>5, <1>7, <1>9

\* HoleInv holds after a step.
LEMMA HoleStep == TypeOK /\ StoredInv /\ LastInv /\ HoleInv /\ [Next]_vars => HoleInv'
<1> SUFFICES ASSUME TypeOK, StoredInv, LastInv, HoleInv, [Next]_vars PROVE HoleInv'
  OBVIOUS
<1>1. RowsOfPackets' /\ Filled' /\ OwnTime'
  BY RowsOfPacketsStep, FilledStep, OwnTimeStep DEF HoleInv
<1>2. ASSUME Ordinary' PROVE FirstInv' /\ EndCovered' /\ NoHoles'
  <2>1. ~torn' /\ Indexed \subseteq Indexed'
    BY <1>2, IndexedStep DEF Ordinary
  <2>2. torn' = torn
    BY <2>1, AttrsChange DEF Advances
  <2>3. Ordinary
    BY <1>2, <2>1, <2>2 DEF Ordinary, Regular, Fallback
  <2>4. CASE Advances
    BY <2>3, <2>4, AdvanceStep
  <2>5. CASE /\ UNCHANGED <<attrs, torn>>
             /\ step = "attrs" => (step' = "attrs" /\ pkt' = pkt) \/ pkt.start <= lastStart
    BY <1>2, <2>3, <2>5, RowsGrow DEF HoleInv
  <2>6. QED
    BY <2>1, <2>4, <2>5, AttrsChange
<1>3. QED
  BY <1>1, <1>2 DEF HoleInv

\* From the first stored packet with a time to the end of the last there is no
\* hole longer than the tolerance, in whichever order packets come, whatever
\* writes fail and whenever the receiver is restarted.
THEOREM NoHoleCorrect == Spec => []NoHole
<1>1. Init => HoleInv
  <2> SUFFICES ASSUME Init PROVE HoleInv
    OBVIOUS
  <2>1. index = << >> /\ step = "idle" /\ lastStart = -1
    BY DEF Init
  <2>2. QED
    BY <2>1 DEF HoleInv, RowsOfPackets, Filled, OwnTime, FirstInv, EndCovered, NoHoles
<1>2. QED
  BY <1>1, HoleStep, HoleInvNoHole, TypeCorrect, StoredCorrect, LastCorrect, PTL DEF Spec

=============================================================================
