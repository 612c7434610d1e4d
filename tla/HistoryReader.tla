---------------------------- MODULE HistoryReader ----------------------------
(***************************************************************************)
(* The portal's waveform reader (app/data_reader.py): a query reads the     *)
(* files of a device one after the other, each file stream by stream, under *)
(* a budget of records, and thins every trace to a number of points.  The   *)
(* receiver appends to the files meanwhile: they are opened without a lock. *)
(*                                                                         *)
(* A stream's group holds the rolling index, in order of arrival, and, in   *)
(* files older than it, one dataset per record, in order of their names.    *)
(* Sample values come from one signal, sampled once per unit of time; the   *)
(* decoding of records and the merging of their traces are ObsPy's.         *)
(***************************************************************************)
EXTENDS Integers, Sequences, FiniteSets, SequencesExt

CONSTANTS
  Paths,        \* the files of the device, its own first: _device_file_set()
  Streams,      \* the keys of the groups of a file, in the order of h5py
  ComponentOf,  \* the component of each stream
  Signal,       \* the values measured, by time
  Contents,     \* what the files may hold when the query comes
  Arriving,     \* the records that may arrive while it is answered
  Windows,      \* the pairs of a start and an end asked for
  Limits,       \* values of max_query_records
  MaxPoints,    \* max_points
  LeastPoints,  \* minmax_downsample() raises max_points to this
  MaxAppends    \* bound: records arriving

Files == {Paths[i] : i \in DOMAIN Paths}
StreamSet == {Streams[i] : i \in DOMAIN Streams}
Components == {ComponentOf[s] : s \in StreamSet}
Parts == {"index", "legacy"}
\* A query names the components it asks for; none means all.
Requests == {{c} : c \in Components} \cup {{}}
\* A record has npts samples from start on; end_unix is that of the last one, or
\* -1 if the receiver could not tell (Untimed).
Untimed == -1
Span(r) == r.start .. (r.start + r.npts - 1)
Record ==
  {r \in [start : Nat, npts : Nat \ {0}, end : Int] :
     r.end \in {Untimed, r.start + r.npts - 1} /\ Span(r) \subseteq DOMAIN Signal}

ASSUME PathsAssumption ==
  /\ Paths \in Seq(Files) /\ Paths # << >> /\ IsInjective(Paths)
  /\ Streams \in Seq(StreamSet) /\ IsInjective(Streams)
ASSUME WindowsAssumption == \A w \in Windows : w[1] \in Nat /\ w[2] \in Nat /\ w[1] < w[2]
ASSUME LimitsAssumption ==
  /\ Limits \subseteq Nat \ {0} /\ MaxAppends \in Nat
  /\ MaxPoints \in Nat /\ LeastPoints \in Nat /\ LeastPoints >= 2
ASSUME SignalAssumption == \A t \in DOMAIN Signal : Signal[t] \in Int
ASSUME RecordsAssumption ==
  Arriving \subseteq Record /\ Contents \subseteq [Files -> [StreamSet -> [Parts -> Seq(Record)]]]

VARIABLES
  disk,     \* per file, stream and part: its records
  appends,  \* number of records that have arrived
  query     \* the query: its parameters, the files to read and what was read

readerVars == <<disk, appends, query>>
\* A record's place identifies it.
Place == [file : Files, stream : StreamSet, part : Parts, i : Nat \ {0}]
At(place) == disk[place.file][place.stream][place.part][place.i]
\* The places of all records of some streams of some files.
Held(files, streams) ==
  UNION {[file : {at[1]}, stream : {at[2]}, part : {at[3]},
          i : DOMAIN disk[at[1]][at[2]][at[3]]] : at \in files \X streams \X Parts}

\* The elements of a finite set, those before an element in front of it.
InOrder(before) ==
  [n \in 1 .. Cardinality(DOMAIN before) |->
     CHOOSE p \in DOMAIN before : Cardinality(before[p]) = n - 1]

NoQuery == [at |-> "idle", components |-> {}, window |-> <<0, 1>>, limit |-> 1, todo |-> << >>,
            got |-> << >>, truncated |-> FALSE, skipped |-> FALSE, due |-> {}, trace |-> << >>]
ReaderInit == disk \in Contents /\ appends = 0 /\ query = NoQuery
-----------------------------------------------------------------------------
(* Reading a file.                                                          *)

Take(seq, n) == SubSeq(seq, 1, IF n < Len(seq) THEN n ELSE Len(seq))
Overlaps(r, w) == r.end = Untimed \/ (r.end >= w[1] /\ r.start <= w[2])
Asked(s, components) == components = {} \/ ComponentOf[s] \in components

\* argsort(kind="stable") of the index by start_unix; then the datasets, by name.
Earlier(p, q) ==
  IF p.part # q.part THEN p.part = "index"
  ELSE IF p.part = "legacy" \/ At(p).start = At(q).start THEN p.i < q.i
  ELSE At(p).start < At(q).start

\* _iter_stream_records(): the records of the index that overlap with the window,
\* earliest first, then those of the older datasets, no more than limit together.
StreamRecords(f, s, w, limit) ==
  LET found == {p \in Held({f}, {s}) : Overlaps(At(p), w)}
  IN Take(InOrder([p \in found |-> {q \in found : Earlier(q, p)}]), limit)

\* The streams in turn, each with what is left of the limit.
FileRecords(f, components, w, limit) ==
  LET upTo[n \in 0 .. Len(Streams)] ==
        IF n = 0 THEN << >>
        ELSE IF ~Asked(Streams[n], components) THEN upTo[n - 1]
        ELSE upTo[n - 1] \o StreamRecords(f, Streams[n], w, limit - Len(upTo[n - 1]))
  IN upTo[Len(Streams)]
-----------------------------------------------------------------------------
(* Thinning a trace: a sequence of points, in order of time.                *)

\* Mutation of Extremes: the least value always comes first.
ExtremesLowFirst(points) ==
  LET low == CHOOSE i \in DOMAIN points : \A j \in DOMAIN points : points[i].y <= points[j].y
      high == CHOOSE i \in DOMAIN points : \A j \in DOMAIN points : points[i].y >= points[j].y
  IN <<points[low], points[high]>>

\* One pair per bucket, the extremes in the order in which they occur.
Extremes(points) ==
  LET low == CHOOSE i \in DOMAIN points : \A j \in DOMAIN points :
               points[i].y < points[j].y \/ (points[i].y = points[j].y /\ i <= j)
      high == CHOOSE i \in DOMAIN points : \A j \in DOMAIN points :
               points[i].y > points[j].y \/ (points[i].y = points[j].y /\ i <= j)
  IN IF low <= high THEN <<points[low], points[high]>> ELSE <<points[high], points[low]>>

\* minmax_downsample()
Ceiling(a, b) == (a + b - 1) \div b
Downsample(points) ==
  LET most == IF MaxPoints < LeastPoints THEN LeastPoints ELSE MaxPoints
      size == Ceiling(Len(points), most \div 2)
      count == Ceiling(Len(points), size)
      pair == [k \in 1 .. count |-> Extremes(SubSeq(points, (k - 1) * size + 1,
                                              IF k < count THEN k * size ELSE Len(points)))]
  IN IF Len(points) <= MaxPoints THEN points
     ELSE [n \in 1 .. 2 * count |-> pair[(n + 1) \div 2][2 - (n % 2)]]

\* Stream.merge(): the samples of all records of a stream, with the values of gaps
\* interpolated between their borders and cut to the integer type of the samples.
Samples(places, s) == UNION {Span(At(p)) : p \in {q \in places : q.stream = s}}
TowardZero(a, d) == IF a >= 0 THEN a \div d ELSE -((-a) \div d)
Value(times, t) ==
  IF t \in times THEN Signal[t]
  ELSE LET before == Max({u \in times : u < t})
           behind == Min({u \in times : u > t})
       IN TowardZero(Signal[before] * (behind - t) + Signal[behind] * (t - before),
                     behind - before)
\* ... and what of the merged trace lies in the window.
Points(places, s, w) ==
  LET times == Samples(places, s)
      first == Max({w[1], Min(times)})
      last == Min({w[2], Max(times)})
  IN IF times = {} THEN << >>
     ELSE [n \in 1 .. last - first + 1 |->
             [t |-> first + n - 1, y |-> Value(times, first + n - 1)]]
ByTime(points) ==
  LET order == InOrder([i \in DOMAIN points |->
        {j \in DOMAIN points : points[j].t < points[i].t \/ (points[j].t = points[i].t /\ j < i)}])
  IN [n \in DOMAIN points |-> points[order[n]]]
-----------------------------------------------------------------------------
(* GET /api/waveform and read_waveform_multi()                              *)

\* The records a query is about, as a history of its beginning.
Meets(r, w) == r.end = Untimed \/ Span(r) \cap (w[1] .. w[2]) # {}
Stored(files, w, components) ==
  {p \in Held(files, StreamSet) : Asked(p.stream, components) /\ Meets(At(p), w)}

Ask(components, w, limit) ==
  /\ query.at = "idle"
  /\ query' = [NoQuery EXCEPT !.at = "reading", !.components = components, !.window = w,
                 !.limit = limit, !.todo = Paths, !.due = Stored(Files, w, components),
                 !.trace = [s \in StreamSet |-> << >>]]
  /\ UNCHANGED <<disk, appends>>

\* Mutation of ReadFile: the last file alone says whether the answer is truncated.
ReadFileForgetting ==
  LET f == Head(query.todo)
      left == IF Len(query.got) < query.limit THEN query.limit - Len(query.got) ELSE 0
      budget == IF left = 0 THEN 1 ELSE left
      part == FileRecords(f, query.components, query.window, budget)
  IN /\ query.at = "reading" /\ query.todo # << >>
     /\ query' = [query EXCEPT
          !.todo = Tail(@), !.got = @ \o part, !.truncated = Len(part) >= budget,
          !.trace = [s \in StreamSet |->
                       @[s] \o Downsample(Points(ToSet(part), s, query.window))]]
     /\ UNCHANGED <<disk, appends>>

\* Each file is asked for what is left of the budget, for one record at least; the
\* points of its traces are added to those of the files before.
ReadFile ==
  LET f == Head(query.todo)
      left == IF Len(query.got) < query.limit THEN query.limit - Len(query.got) ELSE 0
      budget == IF left = 0 THEN 1 ELSE left
      part == FileRecords(f, query.components, query.window, budget)
  IN /\ query.at = "reading" /\ query.todo # << >>
     /\ query' = [query EXCEPT
          !.todo = Tail(@), !.got = @ \o part, !.truncated = @ \/ Len(part) >= budget,
          !.trace = [s \in StreamSet |->
                       @[s] \o Downsample(Points(ToSet(part), s, query.window))]]
     /\ UNCHANGED <<disk, appends>>

\* A file that cannot be opened or decoded is passed over.
SkipFile ==
  /\ query.at = "reading" /\ query.todo # << >> /\ Len(Paths) > 1
  /\ query' = [query EXCEPT !.todo = Tail(@), !.skipped = TRUE]
  /\ UNCHANGED <<disk, appends>>

\* The traces of several files are sorted and thinned together.
Answer ==
  /\ query.at = "reading" /\ query.todo = << >>
  /\ query' = [query EXCEPT !.at = "answered",
       !.trace = IF Len(Paths) = 1 THEN @ ELSE [s \in StreamSet |-> Downsample(ByTime(@[s]))]]
  /\ UNCHANGED <<disk, appends>>

\* export_mseed_bytes() reads the device's own file only.
Export(components, w, limit) ==
  LET f == Paths[1]
      got == FileRecords(f, components, w, limit)
  IN /\ query.at = "idle"
     /\ query' = [NoQuery EXCEPT !.at = "exported", !.components = components, !.window = w,
                    !.limit = limit, !.got = got, !.truncated = Len(got) >= limit,
                    !.due = Stored({f}, w, components)]
     /\ UNCHANGED <<disk, appends>>

AskAgain ==
  /\ query.at \in {"answered", "exported"}
  /\ query' = NoQuery
  /\ UNCHANGED <<disk, appends>>

\* The receiver appends a record to a stream's index.
AppendRecord(f, s, r) ==
  /\ appends < MaxAppends /\ query.at = "reading"
  /\ appends' = appends + 1
  /\ disk' = [disk EXCEPT ![f][s]["index"] = Append(@, r)]
  /\ UNCHANGED query

ReaderNext ==
  \/ \E c \in Requests, w \in Windows, limit \in Limits : Ask(c, w, limit) \/ Export(c, w, limit)
  \/ ReadFile \/ SkipFile \/ Answer \/ AskAgain
  \/ \E f \in Files, s \in StreamSet, r \in Arriving : AppendRecord(f, s, r)

ReaderSpec == ReaderInit /\ [][ReaderNext]_readerVars
-----------------------------------------------------------------------------
(* Properties.                                                              *)

\* What a user gets is all there is, unless he is told: an answer or an export that
\* is not marked as truncated holds every record that overlaps with the window and
\* was stored when the query came, in whichever file of the device (an export: its
\* own one) and layout, if no file was passed over.  No record is counted twice or
\* lies outside, and the budget is exceeded by less than one record per file.
AnswerComplete ==
  query.at \in {"answered", "exported"} =>
    /\ query.truncated \/ query.skipped \/ query.due \subseteq ToSet(query.got)
    /\ IsInjective(query.got)
    /\ \A p \in ToSet(query.got) : Asked(p.stream, query.components) /\ Meets(At(p), query.window)
    /\ Len(query.got) < query.limit + Len(Paths)

\* Thinning, once per file and once for all, loses no peak and invents none: each
\* trace shows no less than the range of the samples read in the window, and no more
\* than that of all samples read, in order of time, and keeps its bound.
EnvelopeKept ==
  query.at = "answered" => \A s \in StreamSet :
    LET trace == query.trace[s]
        read == Samples(ToSet(query.got), s)
        shown == {trace[i].y : i \in DOMAIN trace}
        inside == {Signal[t] : t \in {u \in read : query.window[1] <= u /\ u <= query.window[2]}}
        within(V, W) == \A v \in V : \E low, high \in W : low <= v /\ v <= high
    IN /\ within(inside, shown) /\ within(shown, {Signal[t] : t \in read})
       /\ \A i, j \in DOMAIN trace : i < j => trace[i].t <= trace[j].t
       /\ Len(trace) <= IF MaxPoints < LeastPoints THEN LeastPoints ELSE MaxPoints
=============================================================================
