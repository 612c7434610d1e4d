------------------------------ MODULE Receiver ------------------------------
(***************************************************************************)
(* The connections of the miniSEED receiver (MSeedRequestHandler,          *)
(* mseed_tcp_server/server.py, with mseed.py): a bounded number of clients, *)
(* each with a buffer into which recv() puts chunks of any size and from    *)
(* which _process_buffer() cuts records; resynchronisation after bytes that *)
(* are no record; the overflow cut; idle timeouts; and the hand-over to     *)
(* submit().  What submit() promises is WritePipeline's.                    *)
(*                                                                         *)
(* A byte of a stream is what a scan would find at its position: nothing,   *)
(* or a plausible fixed header, of one of the kinds in Starts.  A buffer is *)
(* always a span of its connection's stream.                                *)
(***************************************************************************)
EXTENDS Integers, Sequences, FiniteSets, SequencesExt

CONSTANTS
  Clients,       \* TCP connections
  Streams,       \* the byte streams each client may send
  Starts,        \* kinds of plausible headers
  RecordLength,  \* the length in blockette 1000; 0 if it is missing or invalid
  Needed,        \* bytes get_record_length() has to see before it decides
  Parses,        \* the kinds ObsPy can decode
  HeaderSize,    \* 48
  RecvSize,      \* config.server.recv_size
  MaxClients,    \* config.server.max_clients
  IdleTimeouts,  \* recv timeouts in a row that reach idle_timeout_sec; 0: never
  Limits,        \* settings [buffer, scan] of max_buffer_bytes, resync_scan_limit
  None           \* no header starts at this byte

Byte == Starts \cup {None}

ASSUME ConstantsAssumption ==
  /\ None \notin Starts /\ Parses \subseteq Starts
  /\ RecordLength \in [Starts -> Nat] /\ Needed \in [Starts -> Nat]
  /\ \A k \in Starts : Needed[k] >= HeaderSize
  /\ \A k \in Parses : RecordLength[k] >= Needed[k]
  /\ HeaderSize \in Nat \ {0, 1} /\ RecvSize \in Nat \ {0}
  /\ MaxClients \in Nat \ {0} /\ IdleTimeouts \in Nat
  /\ Limits \subseteq [buffer : Nat \ {0}, scan : Nat]
  /\ \A c \in Clients : Streams[c] \subseteq Seq(Byte)

VARIABLES
  limits,    \* the settings in force
  stream,    \* what each client's peer sends
  conn,      \* where each connection thread is
  from, to,  \* each connection's buffer holds bytes from + 1 .. to of its stream
  silent,    \* recv timeouts since the last byte
  gone,      \* the peer has vanished without closing the connection
  slots,     \* value of client_semaphore
  stopping,  \* the pipeline refuses packets
  taken,     \* history: what left each buffer, in order, as spans with a fate
  overflown  \* history: connections whose buffer exceeded max_buffer_bytes

settings == <<limits, stream>>
buffers  == <<from, to>>
vars == <<settings, conn, buffers, silent, gone, slots, stopping, taken, overflown>>

Init ==
  /\ limits \in Limits
  /\ stream \in {f \in [Clients -> UNION {Streams[c] : c \in Clients}] :
                   \A c \in Clients : f[c] \in Streams[c]}
  /\ conn = [c \in Clients |-> "away"]
  /\ from = [c \in Clients |-> 0] /\ to = [c \in Clients |-> 0]
  /\ silent = [c \in Clients |-> 0]
  /\ gone = [c \in Clients |-> FALSE]
  /\ slots = MaxClients
  /\ stopping = FALSE
  /\ taken = [c \in Clients |-> << >>]
  /\ overflown = {}

\* The connection has a slot: setup() has returned and finish() was not called.
Served(c) == conn[c] \in {"receiving", "overflowing", "processing", "submitting"}

Size(c) == to[c] - from[c]

\* is_plausible_record_start() at byte p + 1 of the stream.
Plausible(c, p) == p + HeaderSize <= to[c] /\ stream[c][p + 1] # None

\* find_next_record_start() in the buffer from byte p + 1: it starts one further.
StartsBehind(c, p) == {q \in p + 1 .. p + limits.scan : Plausible(c, q)}

\* buffer[:n] is quarantined or made a packet; what stays is a second slice of
\* the code, buffer[n:] or buffer[-n:].
Take(c, n, fate) ==
  taken' = IF n = 0 THEN taken
           ELSE [taken EXCEPT ![c] =
                   Append(@, [fate |-> fate, from |-> from[c], to |-> from[c] + n])]
Drop(c, n) == from' = [from EXCEPT ![c] = @ + n]
Keep(c, n) == from' = [from EXCEPT ![c] = to[c] - n]

Goto(c, place) == conn' = [conn EXCEPT ![c] = place]

-----------------------------------------------------------------------------
(* setup(), finish() and the loop around recv(). *)

\* setup() of an accepted connection.  Its thread may run it after the stop.
Connect(c) ==
  /\ conn[c] = "away"
  /\ slots > 0
  /\ slots' = slots - 1
  /\ Goto(c, "receiving")
  /\ UNCHANGED <<settings, buffers, silent, gone, stopping, taken, overflown>>

\* Mutation of TurnAway: finish() is called for a refused connection as well.
TurnAwayReleasing(c) ==
  /\ conn[c] = "away"
  /\ slots = 0
  /\ slots' = slots + 1
  /\ Goto(c, "refused")
  /\ UNCHANGED <<settings, buffers, silent, gone, stopping, taken, overflown>>

\* Too many clients: setup() raises, and finish() is not called.
TurnAway(c) ==
  /\ conn[c] = "away"
  /\ slots = 0
  /\ Goto(c, "refused")
  /\ UNCHANGED <<settings, buffers, silent, gone, slots, stopping, taken, overflown>>

\* The thread leaves handle(), and its buffer is no more; finish() releases the slot.
End(c, fate) ==
  /\ Take(c, Size(c), fate) /\ Keep(c, 0)
  /\ Goto(c, "ended")
  /\ slots' = slots + 1

\* Mutation of Finish: the slot is kept.
FinishKeepingSlot(c) ==
  /\ Take(c, Size(c), "leftover") /\ Keep(c, 0)
  /\ Goto(c, "ended")
  /\ UNCHANGED slots

\* handle() leaves its loop and quarantines the rest of the buffer, unless
\* quarantine_path() raises: then nothing has it.
Finish(c) ==
  \/ End(c, "leftover")
  \/ Size(c) > 0 /\ End(c, "lost")

\* recv() returns a chunk.
Recv(c) ==
  /\ conn[c] = "receiving" /\ ~gone[c]
  /\ \E n \in 1 .. RecvSize :
       /\ to[c] + n <= Len(stream[c])
       /\ to' = [to EXCEPT ![c] = @ + n]
       /\ Goto(c, IF Size(c) + n > limits.buffer THEN "overflowing" ELSE "processing")
       /\ overflown' = IF Size(c) + n > limits.buffer THEN overflown \cup {c} ELSE overflown
  /\ silent' = [silent EXCEPT ![c] = 0]
  /\ UNCHANGED <<settings, from, gone, slots, stopping, taken>>

\* The peer closes or resets the connection, or the socket fails.
ConnectionEnds(c) ==
  /\ conn[c] = "receiving"
  /\ Finish(c)
  /\ UNCHANGED <<settings, to, silent, gone, stopping, overflown>>

\* Mutation of TimeOut: the time of the last byte is set on every round.
TimeOutForgetful(c) ==
  /\ conn[c] = "receiving"
  /\ IF 1 = IdleTimeouts THEN Finish(c) ELSE UNCHANGED <<conn, from, slots, taken>>
  /\ UNCHANGED <<settings, to, silent, gone, stopping, overflown>>

\* recv() times out: close the connection if it has been silent for too long.
TimeOut(c) ==
  /\ conn[c] = "receiving"
  /\ silent' = [silent EXCEPT ![c] = IF IdleTimeouts = 0 THEN 0 ELSE @ + 1]
  /\ IF silent[c] + 1 = IdleTimeouts THEN Finish(c) ELSE UNCHANGED <<conn, from, slots, taken>>
  /\ UNCHANGED <<settings, to, gone, stopping, overflown>>

\* The buffer is too large: resynchronise, even if a record starts it, or keep
\* no more than could be the beginning of a header.
Overflow(c) ==
  /\ conn[c] = "overflowing"
  /\ LET found == StartsBehind(c, from[c])
         start == Min(found) - from[c]
         keep  == IF Size(c) >= HeaderSize - 1 THEN HeaderSize - 1 ELSE Size(c)
     IN  \/ found # {} /\ Take(c, start, "garbage") /\ Drop(c, start)
         \/ found = {} /\ Take(c, Size(c) - keep, "garbage") /\ Keep(c, keep)
  /\ Goto(c, "processing")
  /\ UNCHANGED <<settings, to, silent, gone, slots, stopping, overflown>>

-----------------------------------------------------------------------------
(* _process_buffer(), one round of its loop at a time. *)

Kind(c) == stream[c][from[c] + 1]

\* get_record_length() can tell the length of the record that starts the buffer.
Headed(c) == Plausible(c, from[c]) /\ Size(c) >= Needed[Kind(c)]

\* The record that starts the buffer is complete.
Complete(c) == Headed(c) /\ RecordLength[Kind(c)] # 0 /\ Size(c) >= RecordLength[Kind(c)]

BadPrefix(c) == Size(c) >= HeaderSize /\ ~Plausible(c, from[c])
BadHeader(c) == Headed(c) /\ RecordLength[Kind(c)] = 0

\* Not enough bytes for a header, for its length, or for the record.
Wait(c) ==
  /\ conn[c] = "processing"
  /\ \/ Size(c) < HeaderSize
     \/ Plausible(c, from[c]) /\ ~Headed(c)
     \/ Headed(c) /\ RecordLength[Kind(c)] > Size(c)
  /\ Goto(c, "receiving")
  /\ UNCHANGED <<settings, buffers, silent, gone, slots, stopping, taken, overflown>>

\* No header starts the buffer: cut to the next one.
Resync(c) ==
  /\ conn[c] = "processing" /\ BadPrefix(c)
  /\ LET found == StartsBehind(c, from[c])
         start == Min(found) - from[c]
     IN  found # {} /\ Take(c, start, "garbage") /\ Drop(c, start)
  /\ UNCHANGED <<settings, conn, to, silent, gone, slots, stopping, overflown>>

\* Mutation of NoStart: one byte too few is kept.
NoStartShort(c) ==
  /\ conn[c] = "processing" /\ BadPrefix(c) /\ StartsBehind(c, from[c]) = {}
  /\ IF Size(c) > HeaderSize
     THEN Take(c, Size(c) - (HeaderSize - 2), "garbage") /\ Keep(c, HeaderSize - 2)
     ELSE UNCHANGED <<from, taken>>
  /\ Goto(c, "receiving")
  /\ UNCHANGED <<settings, to, silent, gone, slots, stopping, overflown>>

\* Mutation of NoStart: buffer[-48:] stays, of which buffer[:-47] has a byte.
NoStartTwice(c) ==
  /\ conn[c] = "processing" /\ BadPrefix(c) /\ StartsBehind(c, from[c]) = {}
  /\ IF Size(c) > HeaderSize
     THEN Take(c, Size(c) - (HeaderSize - 1), "garbage") /\ Keep(c, HeaderSize)
     ELSE UNCHANGED <<from, taken>>
  /\ Goto(c, "receiving")
  /\ UNCHANGED <<settings, to, silent, gone, slots, stopping, overflown>>

\* Mutation of NoStart: the buffer is kept.
NoStartKeeping(c) ==
  /\ conn[c] = "processing" /\ BadPrefix(c) /\ StartsBehind(c, from[c]) = {}
  /\ Goto(c, "receiving")
  /\ UNCHANGED <<settings, buffers, silent, gone, slots, stopping, taken, overflown>>

\* There is none: keep what could be the beginning of a header.
NoStart(c) ==
  /\ conn[c] = "processing" /\ BadPrefix(c) /\ StartsBehind(c, from[c]) = {}
  /\ IF Size(c) > HeaderSize
     THEN Take(c, Size(c) - (HeaderSize - 1), "garbage") /\ Keep(c, HeaderSize - 1)
     ELSE UNCHANGED <<from, taken>>
  /\ Goto(c, "receiving")
  /\ UNCHANGED <<settings, to, silent, gone, slots, stopping, overflown>>

\* A header without a valid length: the search starts at buffer[1:], and there
\* one byte further.
DropHeader(c) ==
  /\ conn[c] = "processing" /\ BadHeader(c)
  /\ LET found == StartsBehind(c, from[c] + 1)
         drop  == IF found = {} THEN 1 ELSE Min(found) - from[c]
     IN  Take(c, drop, "garbage") /\ Drop(c, drop)
  /\ UNCHANGED <<settings, conn, to, silent, gone, slots, stopping, overflown>>

\* ObsPy cannot decode the record: all of it is quarantined.
DropRecord(c) ==
  /\ conn[c] = "processing" /\ Complete(c) /\ Kind(c) \notin Parses
  /\ Take(c, RecordLength[Kind(c)], "undecodable") /\ Drop(c, RecordLength[Kind(c)])
  /\ UNCHANGED <<settings, conn, to, silent, gone, slots, stopping, overflown>>

\* The next step of the thread quarantines bytes: "if not data" is false.
Quarantines(c) ==
  \/ conn[c] = "overflowing" /\ (StartsBehind(c, from[c]) # {} \/ Size(c) > HeaderSize - 1)
  \/ /\ conn[c] = "processing"
     /\ \/ BadPrefix(c) /\ (StartsBehind(c, from[c]) # {} \/ Size(c) > HeaderSize)
        \/ BadHeader(c)
        \/ Complete(c) /\ Kind(c) \notin Parses

\* quarantine_path() raises, as when its directory cannot be made, and nothing
\* catches it: the thread leaves handle(), and its whole buffer is lost.
QuarantineRaises(c) ==
  /\ Quarantines(c)
  /\ End(c, "lost")
  /\ UNCHANGED <<settings, to, silent, gone, stopping, overflown>>

\* submit() finds the pipeline running, and puts the packet or waits for room.
Submit(c) ==
  /\ conn[c] = "processing" /\ Complete(c) /\ Kind(c) \in Parses
  /\ ~stopping
  /\ Goto(c, "submitting")
  /\ UNCHANGED <<settings, buffers, silent, gone, slots, stopping, taken, overflown>>

\* submit() returns True, if the shard's worker makes room ...
Submitted(c) ==
  /\ conn[c] = "submitting"
  /\ Take(c, RecordLength[Kind(c)], "submitted") /\ Drop(c, RecordLength[Kind(c)])
  /\ Goto(c, "processing")
  /\ UNCHANGED <<settings, to, silent, gone, slots, stopping, overflown>>

\* ... or False, at its first or a later test of `stopping`: the packet is gone.
SubmitRefused(c) ==
  /\ stopping
  /\ \/ conn[c] = "processing" /\ Complete(c) /\ Kind(c) \in Parses
     \/ conn[c] = "submitting"
  /\ Take(c, RecordLength[Kind(c)], "refused") /\ Drop(c, RecordLength[Kind(c)])
  /\ Goto(c, "receiving")
  /\ UNCHANGED <<settings, to, silent, gone, slots, stopping, overflown>>

Process(c) ==
  \/ Overflow(c) \/ Wait(c) \/ Resync(c) \/ NoStart(c) \/ DropHeader(c) \/ DropRecord(c)
  \/ QuarantineRaises(c) \/ Submit(c) \/ SubmitRefused(c)

-----------------------------------------------------------------------------
(* The world. *)

\* The peer or the network disappears without FIN or RST.
Vanish(c) ==
  /\ Served(c) /\ ~gone[c]
  /\ gone' = [gone EXCEPT ![c] = TRUE]
  /\ UNCHANGED <<settings, conn, buffers, silent, slots, stopping, taken, overflown>>

\* The main thread enters close().
Stop ==
  /\ ~stopping
  /\ stopping' = TRUE
  /\ UNCHANGED <<settings, conn, buffers, silent, gone, slots, taken, overflown>>

Next ==
  \/ \E c \in Clients : \/ Connect(c) \/ TurnAway(c) \/ Recv(c) \/ ConnectionEnds(c)
                        \/ TimeOut(c) \/ Process(c) \/ Submitted(c) \/ Vanish(c)
  \/ Stop

Spec == Init /\ [][Next]_vars

\* Connection threads run, recv() times out when nothing arrives, and submit()
\* looks at `stopping` every second.  Nothing makes submit() return True, for the
\* shard's worker may be dead, nor peers send, close or come back.
Fairness == \A c \in Clients : WF_vars(Process(c)) /\ WF_vars(TimeOut(c))

FairSpec == Spec /\ Fairness

-----------------------------------------------------------------------------
(* Properties. *)

Fates == {"submitted", "refused", "undecodable", "garbage", "leftover", "lost"}

TypeOK ==
  /\ limits \in Limits
  /\ \A c \in Clients : stream[c] \in Streams[c]
  /\ conn \in [Clients -> {"away", "refused", "receiving", "overflowing", "processing",
                           "submitting", "ended"}]
  /\ from \in [Clients -> Nat] /\ to \in [Clients -> Nat]
  /\ \A c \in Clients : from[c] <= to[c] /\ to[c] <= Len(stream[c])
  /\ silent \in [Clients -> 0 .. IdleTimeouts]
  /\ gone \in [Clients -> BOOLEAN] /\ stopping \in BOOLEAN
  /\ slots \in 0 .. MaxClients
  /\ taken \in [Clients -> Seq([fate : Fates, from : Nat, to : Nat])]
  /\ overflown \subseteq Clients

\* Each connection that has passed setup() holds one slot, a refused one none,
\* and every way out of handle() gives it back.
SlotsAccounted == slots + Cardinality({c \in Clients : Served(c)}) = MaxClients

\* No received byte disappears between two slices or is used twice: whatever
\* leaves a buffer is handed to submit() or quarantined exactly once and in order,
\* over resynchronisation, overflow, bad headers and every end of a connection.
\* Bytes are lost only where quarantining raises, and then with the connection.
BytesAccounted ==
  \A c \in Clients :
    LET n == Len(taken[c])
    IN  /\ \A i \in 1 .. n :
             /\ taken[c][i].from = IF i = 1 THEN 0 ELSE taken[c][i - 1].to
             /\ taken[c][i].fate \in {"leftover", "lost"} => i = n /\ conn[c] = "ended"
        /\ from[c] = IF n = 0 THEN 0 ELSE taken[c][n].to
        /\ conn[c] = "ended" => from[c] = to[c]

\* The records in the first n bytes of a stream, found with all of them at hand
\* and without a buffer: go to the next header; if it has no valid length, on by
\* one byte, else behind its record.
Heads(s, n, p) == {q \in p .. n - HeaderSize : s[q + 1] # None}
RecordsFrom(s, n) ==
  LET records[p \in 0 .. n] ==
        IF Heads(s, n, p) = {} THEN << >>
        ELSE LET q == Min(Heads(s, n, p))
                 k == s[q + 1]
             IN  IF q + Needed[k] > n \/ q + RecordLength[k] > n THEN << >>
                 ELSE IF RecordLength[k] = 0 THEN records[q + 1]
                 ELSE (IF k \in Parses THEN <<q>> ELSE << >>) \o records[q + RecordLength[k]]
  IN  records
Decodable(s, n) == RecordsFrom(s, n)[0]

\* Where the records began that were handed to submit(), in their order.
Handed(spans) ==
  LET upTo[n \in 0 .. Len(spans)] ==
        IF n = 0 THEN << >>
        ELSE IF spans[n].fate \in {"submitted", "refused"} THEN Append(upTo[n - 1], spans[n].from)
        ELSE upTo[n - 1]
  IN  upTo[Len(spans)]
Submissions(c) == Handed(taken[c])

\* No header starts right behind one without a valid length, where DropHeader
\* would find it only if no other one is in the buffer.
NoNeighbours(s) ==
  \A i \in 1 .. Len(s) - 1 : s[i] # None /\ s[i + 1] # None => RecordLength[s[i]] # 0

Refused(c) == \E i \in 1 .. Len(taken[c]) : taken[c][i].fate = "refused"
Lost(c) == \E i \in 1 .. Len(taken[c]) : taken[c][i].fate = "lost"

\* "One recv() is not one packet": however the stream is cut into chunks, the
\* receiver submits the records a reader of the whole stream would find, in
\* their order, none cut in two or missed at a border; and unless a shutdown
\* refuses one or the quarantine raises, it has submitted every complete one.
ChunksDoNotMatter ==
  \A c \in Clients :
    /\ conn[c] \in {"receiving", "ended"} /\ c \notin overflown
    /\ limits.scan >= limits.buffer /\ NoNeighbours(stream[c])
    => LET records == Decodable(stream[c], to[c])
       IN  IsPrefix(Submissions(c), records) /\ (~Refused(c) /\ ~Lost(c) => Submissions(c) = records)

\* n bytes that _process_buffer() may leave in the buffer: no more than a header,
\* or less than some header or record needs.
MayRemain(n) ==
  n <= HeaderSize \/ \E k \in Starts : n < Needed[k] \/ n < RecordLength[k]

\* Until a shutdown refuses a packet, a connection waits with less than one record
\* in its buffer; and if max_buffer_bytes, as configured, holds the longest record
\* and a chunk, the overflow never cuts off a byte of a record.
BufferBounded ==
  \A c \in Clients : ~Refused(c) =>
    /\ conn[c] = "receiving" => MayRemain(Size(c))
    /\ c \in overflown => MayRemain(limits.buffer - RecvSize + 1)

\* After a parse error, too, the receiver searches the next header: no decodable
\* record disappears in a span that was quarantined as undecodable.
UndecodableResyncs ==
  \A c \in Clients : \A i \in 1 .. Len(taken[c]) : taken[c][i].fate = "undecodable" =>
    \A q \in taken[c][i].from + 1 .. taken[c][i].to - 1 :
      LET k == stream[c][q + 1] IN k \in Parses => q + RecordLength[k] > to[c]

\* A half-open connection, "looping here forever", is closed and its slot freed,
\* unless it waits in submit() for room in its shard, and that for ever.
HalfOpenReaped ==
  \A c \in Clients : gone[c] /\ Served(c) ~> ~Served(c) \/ [](conn[c] = "submitting")
=============================================================================
