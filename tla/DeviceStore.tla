---------------------------- MODULE DeviceStore ----------------------------
(***************************************************************************)
(* Storing the packets of one stream in its device's HDF5 file             *)
(* (DeviceDatabaseManager, mseed_tcp_server/db.py): duplicate detection by  *)
(* SHA-256, sequence and time gap detection, zero-filling of time gaps, the *)
(* rolling samples / raw_blob / index arrays, the retry of a failed write   *)
(* and the restart of the receiver.                                        *)
(*                                                                         *)
(* A device's packets come from one writer thread, one insert_packet() at a *)
(* time; it may bring packets late, in any order and repeatedly.  Every     *)
(* HDF5 write is a step of its own, which may raise before it has an effect *)
(* or half way through; portal processes read the file between any two.     *)
(***************************************************************************)
EXTENDS Integers, Sequences, FiniteSets

CONSTANTS
  Packets,      \* the packets the instrument sends, as Packet records
  Tolerance,    \* config.parser.time_gap_tolerance_samples
  SeqModulus,   \* 1_000_000: sequence numbers are six digits
  MaxZeros,     \* most zero samples numpy can allocate
  MaxCalls,     \* bound: insert_packet() calls
  MaxFaults,    \* bound: HDF5 errors
  None

\* What the code reads of a packet: its sequence number (-1 if it is not a
\* number), whether it has a sampling rate, its start, counted in
\* samples, and its number of samples.  Distinct packets have distinct hashes.
Packet == [seq : Int, timed : BOOLEAN, start : Int, npts : Nat, copy : Nat]

\* end_unix: a packet without a rate or without samples has no end.
End(p) == IF p.timed /\ p.npts > 0 THEN p.start + p.npts ELSE -1

ASSUME PacketsAssumption == Packets \subseteq Packet /\ None \notin Packets
ASSUME BoundsAssumption ==
  /\ Tolerance \in Nat /\ SeqModulus \in Nat \ {0} /\ MaxZeros \in Nat
  /\ MaxCalls \in Nat /\ MaxFaults \in Nat

\* A row of the index: a record of packet pkt or a synthetic span of zeros, at
\* samples[offset .. offset + npts - 1] and raw_blob[rawAt]; "blank" is the
\* row a resize leaves when the write after it fails.
Row == [kind : {"record", "zeros", "blank"}, pkt : Packets \cup {None},
        start : Int, npts : Nat, offset : Nat, rawAt : Nat]
Blank == [kind |-> "blank", pkt |-> None, start |-> 0, npts |-> 0, offset |-> 0, rawAt |-> 0]

GapKinds == {"sequence_gap", "time_gap", "time_overlap"}
GapRow == [kind : GapKinds \cup {"blank"}, pkt : Packets \cup {None}]
BlankGap == [kind |-> "blank", pkt |-> None]

VARIABLES
  samples,    \* per sample: the packet it belongs to, or None for a zero
  raw,        \* raw_blob: the packets appended to it, None for unwritten bytes
  index,      \* the rolling record index
  gaps,       \* the gaps table
  lastSeq, lastStart, lastEnd,  \* group attributes last_seq, last_start, last_end
  cache,      \* _sha256_cache of the file
  seeded,     \* the stream is in _seeded
  step,       \* where the writer is in insert_packet(), "idle" outside
  pkt,        \* the packet being inserted
  attempt,    \* 1, or 2 while a failed write is retried
  offset,     \* sample_offset of the span being appended
  rawAt,      \* raw_offset of the record being appended
  calls,      \* number of insert_packet() calls so far
  faults,     \* number of HDF5 errors so far
  answered,   \* history: packets reported as inserted or as duplicates
  failed,     \* history: packets whose insert_packet() raised (quarantined)
  torn        \* history: an error interrupted the update of the last_ attributes

arrays  == <<samples, raw, index>>
attrs   == <<lastSeq, lastStart, lastEnd>>
memory  == <<cache, seeded>>
history == <<calls, faults, answered, failed, torn>>
vars == <<arrays, gaps, attrs, memory, step, pkt, attempt, offset, rawAt, history>>

Init ==
  /\ samples = << >> /\ raw = << >> /\ index = << >> /\ gaps = << >>
  /\ lastSeq = -1 /\ lastStart = -1 /\ lastEnd = -1
  /\ cache = {} /\ seeded = FALSE
  /\ step = "idle" /\ pkt = None /\ attempt = 0 /\ offset = 0 /\ rawAt = 0
  /\ calls = 0 /\ faults = 0 /\ answered = {} /\ failed = {} /\ torn = FALSE

\* Packets whose hash a record row of the index holds.
Indexed == {index[i].pkt : i \in {j \in 1 .. Len(index) : index[j].kind = "record"}}

-----------------------------------------------------------------------------
(* insert_packet() and _write_packet(). *)

\* insert_packet() answers, and the writer is free for the next packet.
Return == step' = "idle" /\ pkt' = None /\ attempt' = 0 /\ offset' = 0 /\ rawAt' = 0

Insert(p) ==
  /\ step = "idle"
  /\ calls < MaxCalls
  /\ calls' = calls + 1
  /\ IF p \in cache
     THEN /\ answered' = answered \cup {p}
          /\ UNCHANGED <<step, pkt, attempt>>
     ELSE /\ step' = "opening" /\ pkt' = p /\ attempt' = 1
          /\ UNCHANGED answered
  /\ UNCHANGED <<arrays, gaps, attrs, memory, offset, rawAt, faults, failed, torn>>

\* Mutation of OpenForWrite: the hash is remembered before the packet is stored.
OpenRemembering(seed) ==
  /\ step = "opening"
  /\ seeded' = TRUE
  /\ IF pkt \in cache \cup seed
     THEN /\ Return
          /\ answered' = answered \cup {pkt}
          /\ UNCHANGED cache
     ELSE /\ step' = "seqgap"
          /\ cache' = cache \cup seed \cup {pkt}
          /\ UNCHANGED <<pkt, attempt, offset, rawAt, answered>>
  /\ UNCHANGED <<arrays, gaps, attrs, calls, failed, torn>>

\* _open_for_write(), the group, its arrays, and the first look at the index
\* since the process started; then the duplicate check.  Hashes that cannot be
\* read are passed over, which counts as an HDF5 error here.
OpenForWrite(seed) ==
  /\ step = "opening"
  /\ cache' = IF seeded THEN cache ELSE cache \cup seed
  /\ seeded' = TRUE
  /\ IF pkt \in cache'
     THEN Return /\ answered' = answered \cup {pkt}
     ELSE step' = "seqgap" /\ UNCHANGED <<pkt, attempt, offset, rawAt, answered>>
  /\ UNCHANGED <<arrays, gaps, attrs, calls, failed, torn>>

\* Mutation of Open: the cache is not seeded from the index.
OpenUnseeded == OpenForWrite({}) /\ UNCHANGED faults

Open == OpenForWrite(Indexed) /\ UNCHANGED faults

OpenUnread ==
  /\ faults < MaxFaults
  /\ ~seeded
  /\ OpenForWrite({})
  /\ faults' = faults + 1

SequenceBroken == lastSeq >= 0 /\ pkt.seq # (lastSeq + 1) % SeqModulus

Delta == pkt.start - lastEnd
TimeBroken ==
  /\ lastSeq >= 0 /\ pkt.timed /\ lastEnd > 0
  /\ Delta > Tolerance \/ -Delta > Tolerance

Gap(kind) == gaps' = Append(gaps, [kind |-> kind, pkt |-> pkt])

SequenceGap ==
  /\ step = "seqgap"
  /\ IF SequenceBroken THEN Gap("sequence_gap") ELSE UNCHANGED gaps
  /\ step' = "timegap"
  /\ UNCHANGED <<arrays, attrs, memory, pkt, attempt, offset, rawAt, history>>

TimeGap ==
  /\ step = "timegap"
  /\ IF TimeBroken
     THEN /\ Gap(IF Delta > 0 THEN "time_gap" ELSE "time_overlap")
          /\ step' = IF Delta > Tolerance THEN "zerosamples" ELSE "samples"
     ELSE UNCHANGED gaps /\ step' = "samples"
  /\ UNCHANGED <<arrays, attrs, memory, pkt, attempt, offset, rawAt, history>>

Extended(array, value, n) == array \o [i \in 1 .. n |-> value]

\* _write_zero_gap(): the zeros ...
ZeroSamples ==
  /\ step = "zerosamples"
  /\ Delta <= MaxZeros
  /\ samples' = Extended(samples, None, Delta)
  /\ offset' = Len(samples)
  /\ step' = "zerorow"
  /\ UNCHANGED <<raw, index, gaps, attrs, memory, pkt, attempt, rawAt, history>>

\* ... and the row that describes them.
ZeroRow ==
  /\ step = "zerorow"
  /\ index' = Append(index, [kind |-> "zeros", pkt |-> None, start |-> lastEnd,
                             npts |-> Delta, offset |-> offset, rawAt |-> 0])
  /\ step' = "samples"
  /\ UNCHANGED <<samples, raw, gaps, attrs, memory, pkt, attempt, offset, rawAt, history>>

\* Mutation of RecordSamples: the offset is taken after the resize.
RecordSamplesLateOffset ==
  /\ step = "samples"
  /\ samples' = Extended(samples, pkt, pkt.npts)
  /\ offset' = Len(samples')
  /\ step' = "raw"
  /\ UNCHANGED <<raw, index, gaps, attrs, memory, pkt, attempt, rawAt, history>>

\* _append_record(): the samples, the raw bytes, the row.
RecordSamples ==
  /\ step = "samples"
  /\ samples' = Extended(samples, pkt, pkt.npts)
  /\ offset' = Len(samples)
  /\ step' = "raw"
  /\ UNCHANGED <<raw, index, gaps, attrs, memory, pkt, attempt, rawAt, history>>

RecordRaw ==
  /\ step = "raw"
  /\ raw' = Append(raw, pkt)
  /\ rawAt' = Len(raw)
  /\ step' = "row"
  /\ UNCHANGED <<samples, index, gaps, attrs, memory, pkt, attempt, offset, history>>

RecordRow ==
  /\ step = "row"
  /\ index' = Append(index, [kind |-> "record", pkt |-> pkt, start |-> pkt.start,
                             npts |-> pkt.npts, offset |-> offset, rawAt |-> rawAt])
  /\ step' = "attrs"
  /\ UNCHANGED <<samples, raw, gaps, attrs, memory, pkt, attempt, offset, rawAt, history>>

\* The first n of the attributes last_seq, last_start, last_end are set.
SetAttrs(n) ==
  /\ lastSeq' = IF n >= 1 THEN pkt.seq ELSE lastSeq
  /\ lastStart' = IF n >= 2 THEN pkt.start ELSE lastStart
  /\ lastEnd' = IF n >= 3 THEN End(pkt) ELSE lastEnd

\* Mutation of UpdateAttrs: a late packet becomes the last one as well.
UpdateAttrsAlways ==
  /\ step = "attrs"
  /\ SetAttrs(3)
  /\ step' = "flush"
  /\ UNCHANGED <<arrays, gaps, memory, pkt, attempt, offset, rawAt, history>>

\* Only a packet that starts later than all before it becomes the last one.
UpdateAttrs ==
  /\ step = "attrs"
  /\ SetAttrs(IF pkt.start > lastStart THEN 3 ELSE 0)
  /\ step' = "flush"
  /\ UNCHANGED <<arrays, gaps, memory, pkt, attempt, offset, rawAt, history>>

\* flush() and close(), and only then is the hash remembered.
FlushAndClose ==
  /\ step = "flush"
  /\ cache' = cache \cup {pkt}
  /\ answered' = answered \cup {pkt}
  /\ Return
  /\ UNCHANGED <<arrays, gaps, attrs, seeded, calls, faults, failed, torn>>

Write ==
  \/ Open \/ OpenUnread \/ SequenceGap \/ TimeGap \/ ZeroSamples \/ ZeroRow
  \/ RecordSamples \/ RecordRaw \/ RecordRow \/ UpdateAttrs \/ FlushAndClose

-----------------------------------------------------------------------------
(* Errors and restarts. *)

\* What a failing step may leave behind: nothing, a resized array with the
\* fill value in it, or some of the attributes.
Residue ==
  \/ (step = "attrs" => pkt.start <= lastStart) /\ UNCHANGED <<arrays, gaps, attrs, torn>>
  \/ /\ (step = "seqgap" /\ SequenceBroken) \/ (step = "timegap" /\ TimeBroken)
     /\ gaps' = Append(gaps, BlankGap)
     /\ UNCHANGED <<arrays, attrs, torn>>
  \/ /\ step = "zerosamples" /\ Delta <= MaxZeros
     /\ samples' = Extended(samples, None, Delta)
     /\ UNCHANGED <<raw, index, gaps, attrs, torn>>
  \/ /\ step = "samples" /\ samples' = Extended(samples, None, pkt.npts)
     /\ UNCHANGED <<raw, index, gaps, attrs, torn>>
  \/ /\ step = "raw" /\ raw' = Append(raw, None)
     /\ UNCHANGED <<samples, index, gaps, attrs, torn>>
  \/ /\ step \in {"zerorow", "row"} /\ index' = Append(index, Blank)
     /\ UNCHANGED <<samples, raw, gaps, attrs, torn>>
  \/ /\ step = "attrs" /\ pkt.start > lastStart
     /\ \E n \in 0 .. 2 : SetAttrs(n)
     /\ torn' = TRUE
     /\ UNCHANGED <<arrays, gaps>>

\* Mutation of RetryOrRaise: a failing write is tried a third time.
RetryTwice ==
  IF attempt < 3
  THEN /\ step' = "opening" /\ attempt' = attempt + 1
       /\ UNCHANGED <<pkt, offset, rawAt, failed>>
  ELSE Return /\ failed' = failed \cup {pkt}

\* The exception: one more attempt, or the caller gets it and quarantines.
RetryOrRaise ==
  IF attempt = 1
  THEN /\ step' = "opening" /\ attempt' = 2
       /\ UNCHANGED <<pkt, offset, rawAt, failed>>
  ELSE Return /\ failed' = failed \cup {pkt}

\* An HDF5 call raises.
WriteFails ==
  /\ step # "idle"
  /\ faults < MaxFaults
  /\ faults' = faults + 1
  /\ Residue
  /\ RetryOrRaise
  /\ UNCHANGED <<memory, calls, answered>>

\* Mutation of ZerosTooLong: the packet is stored behind an unfilled gap.
ZerosSkipped ==
  /\ step = "zerosamples"
  /\ Delta > MaxZeros
  /\ step' = "samples"
  /\ UNCHANGED <<arrays, gaps, attrs, memory, pkt, attempt, offset, rawAt, history>>

\* np.zeros() raises MemoryError for a long gap, on every attempt.
ZerosTooLong ==
  /\ step = "zerosamples"
  /\ Delta > MaxZeros
  /\ RetryOrRaise
  /\ UNCHANGED <<arrays, gaps, attrs, memory, calls, faults, answered, torn>>

\* The receiver is restarted between two packets: its memory is empty.
Restart ==
  /\ step = "idle"
  /\ cache' = {} /\ seeded' = FALSE
  /\ UNCHANGED <<arrays, gaps, attrs, step, pkt, attempt, offset, rawAt, history>>

Next ==
  \/ \E p \in Packets : Insert(p)
  \/ Write \/ WriteFails \/ ZerosTooLong \/ Restart

Spec == Init /\ [][Next]_vars

-----------------------------------------------------------------------------
(* Properties. *)

ArraysOK ==
  /\ samples \in Seq(Packets \cup {None})
  /\ raw \in Seq(Packets \cup {None})
  /\ index \in Seq(Row)
  /\ Indexed \subseteq Packets
  /\ gaps \in Seq(GapRow)

AttrsOK == lastSeq \in Int /\ lastStart \in Int /\ lastEnd \in Int

CallOK ==
  /\ step \in {"idle", "opening", "seqgap", "timegap", "zerosamples", "zerorow",
               "samples", "raw", "row", "attrs", "flush"}
  /\ step # "idle" => pkt \in Packets /\ attempt \in {1, 2}
  /\ step \in {"zerosamples", "zerorow"} => Delta > Tolerance
  /\ attempt \in 0 .. 2
  /\ offset \in Nat /\ rawAt \in Nat
  /\ cache \subseteq Packets /\ seeded \in BOOLEAN

HistoryOK ==
  /\ calls \in 0 .. MaxCalls /\ faults \in 0 .. MaxFaults
  /\ answered \subseteq Packets /\ failed \subseteq Packets /\ torn \in BOOLEAN

TypeOK == ArraysOK /\ AttrsOK /\ CallOK /\ HistoryOK

\* row's samples and bytes are there and are its own.
OwnData(row) ==
  /\ row.offset + row.npts <= Len(samples)
  /\ \A i \in row.offset + 1 .. row.offset + row.npts : samples[i] = row.pkt
  /\ row.kind = "record" => row.rawAt < Len(raw) /\ raw[row.rawAt + 1] = row.pkt

\* A row of the index never points at missing samples or at another packet's:
\* not while a record is being appended (the portal reads without a lock), not
\* behind the leftovers of failed writes.
RowsReadOwnData == \A i \in 1 .. Len(index) : index[i].kind # "blank" => OwnData(index[i])

\* insert_packet() never reports a packet as inserted or as a duplicate that
\* the file does not hold: not when an earlier write of it failed, not when it
\* is retransmitted after a restart.  The sender will not send it again.
AnsweredIsStored == answered \cup cache \subseteq Indexed

\* The rows and gap entries that packet p caused.
RecordsOf(p) == {i \in 1 .. Len(index) : index[i].kind = "record" /\ index[i].pkt = p}
GapsOf(p, kinds) == {i \in 1 .. Len(gaps) : gaps[i].pkt = p /\ gaps[i].kind \in kinds}

\* Unless a write of it fails, a packet is stored once and leaves at most one
\* gap entry of a kind, however often it is sent and the receiver restarted:
\* "retransmits after a receiver restart are still recognised and neither
\* re-stored nor flagged as gaps" (comment in _write_packet).
StoredAndFlaggedOnce ==
  faults = 0 => \A p \in Packets : p \notin failed /\ (pkt = p => attempt = 1) =>
    /\ Cardinality(RecordsOf(p)) <= 1
    /\ Cardinality(GapsOf(p, {"sequence_gap"})) <= 1
    /\ Cardinality(GapsOf(p, {"time_gap", "time_overlap"})) <= 1

Covered(t) ==
  \E i \in 1 .. Len(index) :
    index[i].kind # "blank" /\ index[i].start <= t /\ t < index[i].start + index[i].npts

\* Index row i is the first record with a time.
FirstTimed(i) ==
  /\ index[i].kind = "record" /\ index[i].pkt.timed
  /\ \A j \in 1 .. i - 1 : index[j].kind = "record" => ~index[j].pkt.timed

\* A packet ObsPy read, with a number, a rate and samples; and one stored with
\* the fallback header, which never becomes the last one.
Regular(p) == p.timed /\ p.npts > 0 /\ p.start >= 0 /\ p.seq >= 0
Fallback(p) == ~p.timed /\ p.start = -1

\* From the first stored packet to the end of the last, there is no hole longer
\* than the tolerance: real samples or zeros, with failing writes, retries,
\* late packets and restarts.  An interrupted update of the last_ attributes
\* breaks this, and so does a stored packet whose sequence number is not a
\* number or that has no end: it turns the time check off for the next one.
NoHole ==
  (\A p \in Indexed : Regular(p) \/ Fallback(p)) /\ ~torn =>
    \A i \in 1 .. Len(index) : FirstTimed(i) =>
      \A t \in index[i].start .. lastEnd - 1 - Tolerance :
        \E u \in t .. t + Tolerance : Covered(u)

\* The last_ attributes, which gap detection compares with, are those of one
\* stored packet and, unless a write failed, of the one with the latest start.
LastIsOneStored ==
  /\ ~torn /\ lastStart >= 0 =>
       \E p \in Indexed : lastSeq = p.seq /\ lastStart = p.start /\ lastEnd = End(p)
  /\ faults = 0 /\ step = "idle" => \A p \in Indexed : p.start <= lastStart

\* insert_packet()'s retry must not store a packet a second time.
StoredAtMostOnce == \A p \in Packets : Cardinality(RecordsOf(p)) <= 1

\* Without any HDF5 error, one packet with an odd start time costs at most that
\* packet: it must not stall the stream (comment in insert_packet: "so a single
\* transient fault no longer permanently stalls the device's stream").
NotStalled == faults = 0 => Cardinality(failed) <= 1
=============================================================================
