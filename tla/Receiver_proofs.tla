--------------------------- MODULE Receiver_proofs ---------------------------
(***************************************************************************)
(* Proofs about Receiver, for every number of clients and slots, every      *)
(* stream and every cut of it into chunks.                                  *)
(*                                                                         *)
(* The first invariant, ReceiverInv, is about the buffers.  The second,     *)
(* WalkInv, is about what they hold: at every moment the records of the     *)
(* stream are those handed on followed by those from the buffer on, for     *)
(* however many bytes are still to come.                                    *)
(***************************************************************************)
EXTENDS Receiver, TLAPS, FiniteSetTheorems, SequenceTheorems, WellFoundedInduction

\* A set of naturals has a least element, and Min is one.
LEMMA LeastOfNaturals ==
  ASSUME NEW S \in SUBSET Nat, S # {}
  PROVE  Min(S) \in S /\ \A y \in S : Min(S) <= y
<1>1. IsWellFoundedOn(OpToRel(<, Nat), Nat)
  BY NatLessThanWellFounded
<1>2. PICK x \in S : \A y \in S : ~(<<y, x>> \in OpToRel(<, Nat))
  BY <1>1, WFMin
<1>3. \A y \in S : x <= y
  <2> SUFFICES ASSUME NEW y \in S PROVE x <= y
    OBVIOUS
  <2>1. ~(<<y, x>> \in OpToRel(<, Nat))
    BY <1>2
  <2>2. ~(y < x)
    BY <2>1 DEF OpToRel
  <2>3. QED
    BY <2>2
<1>4. QED
  BY <1>3 DEF Min

Span == [fate : Fates, from : Nat, to : Nat]

\* A record that is being submitted is complete and decodable.
SubmitComplete ==
  \A c \in Clients : conn[c] = "submitting" => Complete(c) /\ Kind(c) \in Parses

\* TimeOut closes a connection when its count reaches the limit.
SilentBelow ==
  \A c \in Clients : conn[c] # "ended" => silent[c] = 0 \/ silent[c] < IdleTimeouts

\* The fates of what a connection leaves behind.
Ends == {"leftover", "lost"}

-----------------------------------------------------------------------------
(* What leaves a buffer. *)

\* The buffer's size is a natural number.
LEMMA SizeType == ASSUME TypeOK, NEW c \in Clients PROVE Size(c) \in Nat
<1>1. from[c] \in Nat /\ to[c] \in Nat /\ from[c] <= to[c]
  BY DEF TypeOK
<1>2. QED
  BY <1>1 DEF Size

\* The two slices of a step agree: what is taken is what does not stay.
Leave(c, n, fate) == Take(c, n, fate) /\ Drop(c, n)

\* The last n bytes stay if the others are dropped.
LEMMA KeepDrops ==
  ASSUME TypeOK, NEW c \in Clients, NEW n \in Nat, NEW fate,
         Take(c, Size(c) - n, fate), Keep(c, n)
  PROVE  Leave(c, Size(c) - n, fate)
<1>1. from[c] \in Nat /\ to[c] \in Nat
  BY DEF TypeOK
<1>2. from[c] + (Size(c) - n) = to[c] - n
  BY <1>1 DEF Size
<1>3. Drop(c, Size(c) - n)
  BY <1>2 DEF Keep, Drop
<1>4. QED
  BY <1>3 DEF Leave

\* A step without a slice is one of no bytes.
LEMMA NothingLeaves ==
  ASSUME TypeOK, NEW c \in Clients, NEW fate, UNCHANGED <<from, taken>>
  PROVE  Leave(c, 0, fate)
<1>1. from[c] + 0 = from[c] /\ from = [from EXCEPT ![c] = from[c]]
  BY DEF TypeOK
<1>2. Drop(c, 0)
  BY <1>1 DEF Drop
<1>3. Take(c, 0, fate)
  BY DEF Take
<1>4. QED
  BY <1>2, <1>3 DEF Leave

\* At most n bytes of the buffer leave it, with a fate.
Cut(c, n, fate) == n \in 0 .. Size(c) /\ fate \in Fates /\ Leave(c, n, fate)

\* What Leave does to a buffer that holds the bytes.
LEMMA CutEffect ==
  ASSUME TypeOK, NEW c \in Clients, NEW n, NEW fate, Cut(c, n, fate)
  PROVE  /\ from' \in [Clients -> Nat]
         /\ from'[c] = from[c] + n /\ from'[c] <= to[c]
         /\ taken' \in [Clients -> Seq(Span)]
         /\ n = 0 => taken'[c] = taken[c]
         /\ n # 0 => taken'[c] =
              Append(taken[c], [fate |-> fate, from |-> from[c], to |-> from[c] + n])
         /\ \A d \in Clients \ {c} : from'[d] = from[d] /\ taken'[d] = taken[d]
<1>1. n \in Nat /\ n <= Size(c) /\ fate \in Fates /\ Leave(c, n, fate)
  BY SizeType DEF Cut
<1>2. from[c] \in Nat /\ to[c] \in Nat /\ from \in [Clients -> Nat]
  BY DEF TypeOK
<1>3. taken \in [Clients -> Seq(Span)]
  BY DEF TypeOK, Span
<1>4. from' = [from EXCEPT ![c] = from[c] + n]
  BY <1>1 DEF Leave, Drop
<1>5. from' \in [Clients -> Nat] /\ from'[c] = from[c] + n
  BY <1>1, <1>2, <1>4
<1>6. from'[c] <= to[c]
  BY <1>1, <1>2, <1>5 DEF Size
<1>7. [fate |-> fate, from |-> from[c], to |-> from[c] + n] \in Span
  BY <1>1, <1>2 DEF Span
<1>8. taken' = IF n = 0 THEN taken
               ELSE [taken EXCEPT ![c] =
                 Append(taken[c], [fate |-> fate, from |-> from[c], to |-> from[c] + n])]
  BY <1>1 DEF Leave, Take
<1>9. Append(taken[c], [fate |-> fate, from |-> from[c], to |-> from[c] + n]) \in Seq(Span)
  BY <1>3, <1>7
<1>10. taken' \in [Clients -> Seq(Span)]
  BY <1>3, <1>8, <1>9
<1>11. QED
  BY <1>2, <1>3, <1>4, <1>5, <1>6, <1>8, <1>10

\* The next header behind byte p + 1 lies in the buffer, before its last header's
\* worth of bytes.
LEMMA StartsBehindFit ==
  ASSUME TypeOK, NEW c \in Clients, NEW p \in Nat, StartsBehind(c, p) # {}
  PROVE  /\ Min(StartsBehind(c, p)) \in Nat
         /\ p < Min(StartsBehind(c, p))
         /\ Min(StartsBehind(c, p)) <= to[c]
<1> DEFINE S == StartsBehind(c, p)
<1>1. limits.scan \in Nat /\ HeaderSize \in Nat /\ to[c] \in Nat
  BY ConstantsAssumption DEF TypeOK
<1>2. S \subseteq Nat
  BY <1>1 DEF StartsBehind
<1>3. Min(S) \in S
  BY <1>2, LeastOfNaturals
<1>4. \A q \in S : q \in Nat /\ p < q /\ q <= to[c]
  BY <1>1 DEF StartsBehind, Plausible
<1>5. QED
  BY <1>3, <1>4

\* A plausible header at the start of the buffer is of some kind.
LEMMA KindType ==
  ASSUME TypeOK, NEW c \in Clients, Plausible(c, from[c])
  PROVE  /\ Kind(c) \in Starts
         /\ RecordLength[Kind(c)] \in Nat
         /\ Needed[Kind(c)] \in Nat /\ Needed[Kind(c)] >= HeaderSize
<1>1. from[c] \in Nat /\ to[c] \in Nat /\ to[c] <= Len(stream[c]) /\ HeaderSize \in Nat \ {0}
  BY ConstantsAssumption DEF TypeOK
<1>2. stream[c] \in Seq(Byte)
  BY ConstantsAssumption DEF TypeOK
<1>3. from[c] + 1 \in 1 .. Len(stream[c])
  BY <1>1, <1>2 DEF Plausible
<1>4. Kind(c) \in Byte /\ Kind(c) # None
  BY <1>2, <1>3 DEF Plausible, Kind
<1>5. Kind(c) \in Starts
  BY <1>4 DEF Byte
<1>6. QED
  BY <1>5, ConstantsAssumption

\* A complete record fits into the buffer, and is not empty.
LEMMA CompleteFits ==
  ASSUME TypeOK, NEW c \in Clients, Complete(c)
  PROVE  RecordLength[Kind(c)] \in 1 .. Size(c)
<1>1. Plausible(c, from[c]) /\ RecordLength[Kind(c)] # 0 /\ Size(c) >= RecordLength[Kind(c)]
  BY DEF Complete, Headed
<1>2. QED
  BY <1>1, KindType, SizeType

\* The cuts of the overflow and of resynchronisation are cuts of the buffer.
LEMMA OverflowCuts ==
  ASSUME TypeOK, NEW c \in Clients, Overflow(c)
  PROVE  \E n : Cut(c, n, "garbage")
<1> DEFINE found == StartsBehind(c, from[c])
           start == Min(found) - from[c]
           keep  == IF Size(c) >= HeaderSize - 1 THEN HeaderSize - 1 ELSE Size(c)
<1>1. \/ found # {} /\ Take(c, start, "garbage") /\ Drop(c, start)
      \/ found = {} /\ Take(c, Size(c) - keep, "garbage") /\ Keep(c, keep)
  BY DEF Overflow
<1>2. from[c] \in Nat /\ to[c] \in Nat /\ HeaderSize \in Nat \ {0, 1} /\ Size(c) \in Nat
  BY ConstantsAssumption, SizeType DEF TypeOK
<1>3. CASE found # {}
  <2>1. Min(found) \in Nat /\ from[c] < Min(found) /\ Min(found) <= to[c]
    BY <1>2, <1>3, StartsBehindFit
  <2>2. start \in 0 .. Size(c)
    BY <1>2, <2>1 DEF Size
  <2>3. Leave(c, start, "garbage")
    BY <1>1, <1>3 DEF Leave
  <2>4. QED
    BY <2>2, <2>3 DEF Cut, Fates
<1>4. CASE found = {}
  <2>1. keep \in Nat /\ Size(c) - keep \in 0 .. Size(c)
    BY <1>2
  <2>2. Take(c, Size(c) - keep, "garbage") /\ Keep(c, keep)
    BY <1>1, <1>4
  <2> HIDE DEF keep
  <2>3. Leave(c, Size(c) - keep, "garbage")
    BY <2>1, <2>2, KeepDrops
  <2>4. QED
    BY <2>1, <2>3 DEF Cut, Fates
<1>5. QED
  BY <1>3, <1>4

LEMMA ResyncCuts ==
  ASSUME TypeOK, NEW c \in Clients, Resync(c)
  PROVE  \E n : Cut(c, n, "garbage")
<1> DEFINE found == StartsBehind(c, from[c])
<1>1. found # {} /\ Leave(c, Min(found) - from[c], "garbage")
  BY DEF Resync, Leave
<1>2. from[c] \in Nat /\ to[c] \in Nat
  BY DEF TypeOK
<1>3. Min(found) \in Nat /\ from[c] < Min(found) /\ Min(found) <= to[c]
  BY <1>1, <1>2, StartsBehindFit
<1>4. Min(found) - from[c] \in 0 .. Size(c)
  BY <1>2, <1>3 DEF Size
<1>5. QED
  BY <1>1, <1>4 DEF Cut, Fates

LEMMA NoStartLeaves ==
  ASSUME TypeOK, NEW c \in Clients, NoStart(c)
  PROVE  Leave(c, IF Size(c) > HeaderSize THEN Size(c) - (HeaderSize - 1) ELSE 0, "garbage")
<1>1. CASE Size(c) > HeaderSize
  <2>1. Take(c, Size(c) - (HeaderSize - 1), "garbage") /\ Keep(c, HeaderSize - 1)
    BY <1>1 DEF NoStart
  <2>2. HeaderSize - 1 \in Nat
    BY ConstantsAssumption
  <2>3. QED
    BY <1>1, <2>1, <2>2, KeepDrops
<1>2. CASE ~(Size(c) > HeaderSize)
  BY <1>2, NothingLeaves DEF NoStart
<1>3. QED
  BY <1>1, <1>2

LEMMA NoStartCuts ==
  ASSUME TypeOK, NEW c \in Clients, NoStart(c)
  PROVE  \E n : /\ Cut(c, n, "garbage")
                /\ Size(c) - n <= HeaderSize
<1> DEFINE n == IF Size(c) > HeaderSize THEN Size(c) - (HeaderSize - 1) ELSE 0
<1>1. Leave(c, n, "garbage")
  BY NoStartLeaves
<1>2. Size(c) \in Nat /\ HeaderSize \in Nat \ {0, 1}
  BY ConstantsAssumption, SizeType
<1>3. n \in 0 .. Size(c) /\ Size(c) - n <= HeaderSize
  BY <1>2
<1>4. QED
  BY <1>1, <1>3 DEF Cut, Fates

LEMMA DropHeaderCuts ==
  ASSUME TypeOK, NEW c \in Clients, DropHeader(c)
  PROVE  \E n : Cut(c, n, "garbage")
<1> DEFINE found == StartsBehind(c, from[c] + 1)
           n == IF found = {} THEN 1 ELSE Min(found) - from[c]
<1>1. Leave(c, n, "garbage")
  BY DEF DropHeader, Leave
<1>2. from[c] \in Nat /\ to[c] \in Nat /\ from[c] + 1 \in Nat
  BY DEF TypeOK
<1>3. Plausible(c, from[c]) /\ HeaderSize \in Nat \ {0, 1}
  BY ConstantsAssumption DEF DropHeader, BadHeader, Headed
<1>4. 1 \in 0 .. Size(c)
  BY <1>2, <1>3 DEF Plausible, Size
<1>5. CASE found = {}
  BY <1>1, <1>4, <1>5 DEF Cut, Fates
<1>6. CASE found # {}
  <2>1. Min(found) \in Nat /\ from[c] + 1 < Min(found) /\ Min(found) <= to[c]
    BY <1>2, <1>6, StartsBehindFit
  <2>2. n = Min(found) - from[c]
    BY <1>6
  <2>3. n \in 0 .. Size(c)
    BY <1>2, <2>1, <2>2 DEF Size
  <2>4. QED
    BY <1>1, <2>3 DEF Cut, Fates
<1>7. QED
  BY <1>5, <1>6

\* So are whole records, however they end, and the rest of a closed connection.
LEMMA RecordCuts ==
  ASSUME TypeOK, SubmitComplete, NEW c \in Clients,
         NEW fate \in {"undecodable", "submitted", "refused"},
         \/ fate = "undecodable" /\ DropRecord(c)
         \/ fate = "submitted" /\ Submitted(c)
         \/ fate = "refused" /\ SubmitRefused(c)
  PROVE  Cut(c, RecordLength[Kind(c)], fate) /\ RecordLength[Kind(c)] # 0
<1>1. Complete(c) /\ Leave(c, RecordLength[Kind(c)], fate)
  BY DEF DropRecord, Submitted, SubmitRefused, SubmitComplete, Leave
<1>2. QED
  BY <1>1, CompleteFits DEF Cut, Fates

LEMMA EndCuts ==
  ASSUME TypeOK, NEW c \in Clients, NEW fate \in Ends, End(c, fate)
  PROVE  Cut(c, Size(c), fate) /\ from'[c] = to[c]
<1>1. Take(c, Size(c), fate) /\ Keep(c, 0) /\ Size(c) \in Nat
  BY SizeType DEF End
<1>2. Size(c) - 0 = Size(c)
  BY <1>1
<1>3. Leave(c, Size(c), fate)
  BY <1>1, <1>2, KeepDrops
<1>4. Cut(c, Size(c), fate)
  BY <1>1, <1>3 DEF Cut, Fates, Ends
<1>5. from'[c] = from[c] + Size(c)
  BY <1>4, CutEffect
<1>6. QED
  BY <1>4, <1>5 DEF TypeOK, Size

LEMMA FinishEnds ==
  ASSUME NEW c, Finish(c) \/ QuarantineRaises(c)
  PROVE  \E fate \in Ends : End(c, fate)
BY DEF Finish, QuarantineRaises, Ends

\* Only a buffer with bytes in it can be lost.
LEMMA QuarantinesSome ==
  ASSUME TypeOK, NEW c \in Clients, Quarantines(c)
  PROVE  /\ Size(c) > 0
         /\ conn[c] \in {"overflowing", "processing"}
<1>1. /\ Size(c) \in Nat /\ from[c] \in Nat /\ to[c] \in Nat /\ Size(c) = to[c] - from[c]
      /\ HeaderSize \in Nat \ {0, 1}
  BY ConstantsAssumption, SizeType DEF TypeOK, Size
<1>2. CASE StartsBehind(c, from[c]) # {}
  <2>1. from[c] < Min(StartsBehind(c, from[c])) /\ Min(StartsBehind(c, from[c])) <= to[c]
    BY <1>1, <1>2, StartsBehindFit
  <2>2. Min(StartsBehind(c, from[c])) \in Nat
    BY <1>1, <1>2, StartsBehindFit
  <2>3. QED
    BY <1>1, <2>1, <2>2 DEF Quarantines
<1>3. CASE BadPrefix(c) \/ Size(c) > HeaderSize - 1
  BY <1>1, <1>3 DEF Quarantines, BadPrefix
<1>4. CASE Plausible(c, from[c])
  BY <1>1, <1>4 DEF Quarantines, Plausible
<1>5. QED
  BY <1>2, <1>3, <1>4 DEF Quarantines, BadHeader, Complete, Headed

-----------------------------------------------------------------------------
(* Types. *)

\* A cut of a connection's step: one that ends it is its last.
StepCut(c, n, fate) ==
  Cut(c, n, fate) /\ to' = to /\ conn[c] # "ended" /\ (fate \in Ends => conn'[c] = "ended")

\* A step cuts one buffer and receives nothing, or leaves all histories alone.
LEMMA BuffersStep ==
  ASSUME TypeOK, SubmitComplete, [Next]_vars
  PROVE  \/ \E c \in Clients : \E n, fate : StepCut(c, n, fate)
         \/ UNCHANGED <<from, taken>>
<1>1. ASSUME NEW c \in Clients, Finish(c) \/ QuarantineRaises(c), to' = to, conn[c] # "ended"
      PROVE  \E n, fate : StepCut(c, n, fate)
  <2>1. PICK fate \in Ends : End(c, fate)
    BY <1>1, FinishEnds
  <2>2. conn'[c] = "ended"
    BY <2>1 DEF End, Goto, TypeOK
  <2>3. QED
    BY <1>1, <2>1, <2>2, EndCuts DEF StepCut
<1>2. ASSUME NEW c \in Clients,
             ConnectionEnds(c) \/ TimeOut(c) \/ QuarantineRaises(c)
      PROVE  \/ \E n, fate : StepCut(c, n, fate)
             \/ UNCHANGED <<from, taken>>
  <2>1. to' = to /\ conn[c] # "ended"
    BY <1>2, QuarantinesSome DEF ConnectionEnds, TimeOut, QuarantineRaises
  <2>2. Finish(c) \/ QuarantineRaises(c) \/ UNCHANGED <<from, taken>>
    BY <1>2 DEF ConnectionEnds, TimeOut
  <2>3. QED
    BY <1>1, <2>1, <2>2
<1>3. ASSUME NEW c \in Clients,
             \/ Overflow(c) \/ Resync(c) \/ NoStart(c) \/ DropHeader(c) \/ DropRecord(c)
             \/ Submitted(c) \/ SubmitRefused(c)
      PROVE  \E n, fate : StepCut(c, n, fate)
  <2>1. \E n : \E fate \in Fates \ Ends : Cut(c, n, fate)
    <3>1. \A fate : fate \in {"garbage", "undecodable", "submitted", "refused"} => fate \in Fates \ Ends
      BY DEF Fates, Ends
    <3>2. QED
      BY <1>3, <3>1, OverflowCuts, ResyncCuts, NoStartCuts, DropHeaderCuts, RecordCuts
  <2>2. to' = to /\ conn[c] # "ended"
    BY <1>3 DEF Overflow, Resync, NoStart, DropHeader, DropRecord, Submitted, SubmitRefused
  <2>3. QED
    BY <2>1, <2>2 DEF StepCut
<1>4. ASSUME NEW c \in Clients,
             Connect(c) \/ TurnAway(c) \/ Recv(c) \/ Wait(c) \/ Submit(c) \/ Vanish(c)
      PROVE  UNCHANGED <<from, taken>>
  BY <1>4 DEF Connect, TurnAway, Recv, Wait, Submit, Vanish, buffers
<1>5. Stop \/ UNCHANGED vars => UNCHANGED <<from, taken>>
  BY DEF Stop, vars, buffers
<1>6. QED
  BY <1>2, <1>3, <1>4, <1>5 DEF Next, Process

\* Received bytes are the stream's, and stay.
LEMMA ReceivedStep ==
  ASSUME TypeOK, [Next]_vars
  PROVE  /\ stream' = stream /\ limits' = limits
         /\ to' \in [Clients -> Nat]
         /\ \A c \in Clients : to[c] <= to'[c] /\ to'[c] <= Len(stream[c])
<1> USE DEF TypeOK
<1>1. ASSUME NEW c \in Clients, Recv(c)
      PROVE  /\ stream' = stream /\ limits' = limits
             /\ to' \in [Clients -> Nat]
             /\ \A d \in Clients : to[d] <= to'[d] /\ to'[d] <= Len(stream[d])
  <2>1. PICK n \in 1 .. RecvSize : to[c] + n <= Len(stream[c]) /\ to' = [to EXCEPT ![c] = @ + n]
    BY <1>1 DEF Recv
  <2>2. stream' = stream /\ limits' = limits
    BY <1>1 DEF Recv, settings
  <2>3. n \in Nat
    BY <2>1, ConstantsAssumption
  <2>4. QED
    BY <2>1, <2>2, <2>3
<1>2. ASSUME NEW c \in Clients,
             \/ Connect(c) \/ TurnAway(c) \/ ConnectionEnds(c) \/ TimeOut(c) \/ Vanish(c)
             \/ Overflow(c) \/ Wait(c) \/ Resync(c) \/ NoStart(c) \/ DropHeader(c)
             \/ DropRecord(c) \/ QuarantineRaises(c) \/ Submit(c) \/ Submitted(c) \/ SubmitRefused(c)
      PROVE  to' = to /\ stream' = stream /\ limits' = limits
  BY <1>2 DEF Connect, TurnAway, ConnectionEnds, TimeOut, Vanish, Overflow, Wait, Resync,
              NoStart, DropHeader, DropRecord, QuarantineRaises, Submit, Submitted, SubmitRefused,
              settings, buffers
<1>3. Stop \/ UNCHANGED vars => to' = to /\ stream' = stream /\ limits' = limits
  BY DEF Stop, vars, settings, buffers
<1>4. ASSUME to' = to, stream' = stream, limits' = limits
      PROVE  /\ to' \in [Clients -> Nat]
             /\ \A c \in Clients : to[c] <= to'[c] /\ to'[c] <= Len(stream[c])
  BY <1>4
<1>5. QED
  BY <1>1, <1>2, <1>3, <1>4 DEF Next, Process

Places == {"away", "refused", "receiving", "overflowing", "processing", "submitting", "ended"}

\* Each action moves its own connection only, and to a place.
LEMMA PlacesStep ==
  ASSUME TypeOK, [Next]_vars
  PROVE  /\ conn' \in [Clients -> Places]
         /\ overflown' \subseteq Clients
         /\ gone' \in [Clients -> BOOLEAN] /\ stopping' \in BOOLEAN
<1>1. /\ conn \in [Clients -> Places] /\ overflown \subseteq Clients
      /\ gone \in [Clients -> BOOLEAN] /\ stopping \in BOOLEAN
  BY DEF TypeOK, Places
<1>2. ASSUME NEW c \in Clients,
             \/ Connect(c) \/ TurnAway(c) \/ Recv(c) \/ ConnectionEnds(c) \/ TimeOut(c)
             \/ Vanish(c) \/ Overflow(c) \/ Wait(c) \/ Resync(c) \/ NoStart(c)
             \/ DropHeader(c) \/ DropRecord(c) \/ Submit(c) \/ Submitted(c)
             \/ SubmitRefused(c) \/ QuarantineRaises(c)
      PROVE  conn' = conn \/ \E place \in Places : conn' = [conn EXCEPT ![c] = place]
  BY <1>2 DEF Connect, TurnAway, Recv, ConnectionEnds, TimeOut, Vanish, Overflow, Wait,
              Resync, NoStart, DropHeader, DropRecord, Submit, Submitted, SubmitRefused,
              QuarantineRaises, Finish, End, Goto, Places
<1>3. ASSUME NEW c \in Clients,
             \/ Connect(c) \/ TurnAway(c) \/ ConnectionEnds(c) \/ TimeOut(c)
             \/ Overflow(c) \/ Wait(c) \/ Resync(c) \/ NoStart(c)
             \/ DropHeader(c) \/ DropRecord(c) \/ Submit(c) \/ Submitted(c)
             \/ SubmitRefused(c) \/ QuarantineRaises(c)
      PROVE  UNCHANGED <<gone, stopping, overflown>>
  BY <1>3 DEF Connect, TurnAway, ConnectionEnds, TimeOut, Overflow, Wait,
              Resync, NoStart, DropHeader, DropRecord, QuarantineRaises, Submit, Submitted,
              SubmitRefused
<1>4. ASSUME NEW c \in Clients, Recv(c)
      PROVE  UNCHANGED <<gone, stopping>> /\ overflown' \subseteq Clients
  BY <1>1, <1>4 DEF Recv
<1>5. ASSUME NEW c \in Clients, Vanish(c)
      PROVE  UNCHANGED <<stopping, overflown>> /\ gone' \in [Clients -> BOOLEAN]
  BY <1>1, <1>5 DEF Vanish
<1>6. Stop => UNCHANGED <<conn, gone, overflown>> /\ stopping' \in BOOLEAN
  BY DEF Stop
<1>7. UNCHANGED vars => UNCHANGED <<conn, gone, stopping, overflown>>
  BY DEF vars
<1>8. conn' \in [Clients -> Places]
  BY <1>1, <1>2, <1>6, <1>7 DEF Next, Process
<1>9. QED
  BY <1>1, <1>3, <1>4, <1>5, <1>6, <1>7, <1>8 DEF Next, Process

\* Nothing comes after the end of a connection.
LEMMA EndedStays ==
  ASSUME TypeOK, [Next]_vars, NEW d \in Clients, conn[d] = "ended"
  PROVE  conn'[d] = "ended"
<1>1. ASSUME NEW c \in Clients,
             \/ Connect(c) \/ TurnAway(c) \/ Recv(c) \/ ConnectionEnds(c) \/ TimeOut(c)
             \/ Overflow(c) \/ Wait(c) \/ NoStart(c) \/ QuarantineRaises(c)
             \/ Submit(c) \/ Submitted(c) \/ SubmitRefused(c)
      PROVE  /\ conn[c] # "ended"
             /\ conn' = conn \/ \E place : Goto(c, place)
  <2>1. conn[c] # "ended"
    BY <1>1, QuarantinesSome DEF Connect, TurnAway, Recv, ConnectionEnds, TimeOut, Overflow,
          Wait, NoStart, QuarantineRaises, Submit, Submitted, SubmitRefused
  <2>2. conn' = conn \/ \E place : Goto(c, place)
    BY <1>1 DEF Connect, TurnAway, Recv, ConnectionEnds, TimeOut, Overflow, Wait, NoStart,
          QuarantineRaises, Submit, Submitted, SubmitRefused, Finish, End
  <2>3. QED
    BY <2>1, <2>2
<1>2. ASSUME NEW c \in Clients, Resync(c) \/ DropHeader(c) \/ DropRecord(c) \/ Vanish(c)
      PROVE  conn' = conn
  BY <1>2 DEF Resync, DropHeader, DropRecord, Vanish
<1>3. Stop \/ UNCHANGED vars => conn' = conn
  BY DEF Stop, vars
<1>4. ASSUME NEW c \in Clients, conn[c] # "ended", NEW place, Goto(c, place)
      PROVE  conn'[d] = conn[d]
  BY <1>4 DEF Goto, TypeOK
<1>5. QED
  BY <1>1, <1>2, <1>3, <1>4 DEF Next, Process

\* The count of timeouts stays below its limit while the connection is open.
LEMMA SilentStep ==
  ASSUME TypeOK, SilentBelow, [Next]_vars
  PROVE  silent' \in [Clients -> 0 .. IdleTimeouts] /\ SilentBelow'
<1>1. silent \in [Clients -> 0 .. IdleTimeouts] /\ IdleTimeouts \in Nat
  BY ConstantsAssumption DEF TypeOK
<1>2. \A d \in Clients : conn'[d] # "ended" => silent[d] = 0 \/ silent[d] < IdleTimeouts
  BY EndedStays DEF SilentBelow
<1>3. ASSUME NEW c \in Clients, Recv(c)
      PROVE  silent' \in [Clients -> 0 .. IdleTimeouts] /\ SilentBelow'
  BY <1>1, <1>2, <1>3 DEF Recv, SilentBelow
<1>4. ASSUME NEW c \in Clients, TimeOut(c)
      PROVE  silent' \in [Clients -> 0 .. IdleTimeouts] /\ SilentBelow'
  <2>1. silent' = [silent EXCEPT ![c] = IF IdleTimeouts = 0 THEN 0 ELSE silent[c] + 1]
    BY <1>4 DEF TimeOut
  <2>2. silent[c] \in Nat /\ (silent[c] = 0 \/ silent[c] < IdleTimeouts)
    BY <1>1, <1>4 DEF SilentBelow, TimeOut
  <2>3. silent'[c] \in 0 .. IdleTimeouts /\ \A d \in Clients \ {c} : silent'[d] = silent[d]
    BY <1>1, <2>1, <2>2
  <2>4. conn'[c] # "ended" => silent'[c] = 0 \/ silent'[c] < IdleTimeouts
    <3>1. CASE silent[c] + 1 = IdleTimeouts
      <4>1. PICK fate \in Ends : End(c, fate)
        BY <1>4, <3>1, FinishEnds DEF TimeOut
      <4>2. conn'[c] = "ended"
        BY <4>1 DEF End, Goto, TypeOK
      <4>3. QED
        BY <4>2
    <3>2. CASE silent[c] + 1 # IdleTimeouts
      BY <1>1, <2>1, <2>2, <3>2
    <3>3. QED
      BY <3>1, <3>2
  <2>5. silent' \in [Clients -> 0 .. IdleTimeouts]
    BY <1>1, <2>1, <2>3
  <2>6. QED
    BY <1>2, <2>3, <2>4, <2>5 DEF SilentBelow
<1>5. ASSUME NEW c \in Clients,
             \/ Connect(c) \/ TurnAway(c) \/ ConnectionEnds(c) \/ Vanish(c)
             \/ Overflow(c) \/ Wait(c) \/ Resync(c) \/ NoStart(c) \/ DropHeader(c)
             \/ DropRecord(c) \/ QuarantineRaises(c) \/ Submit(c) \/ Submitted(c)
             \/ SubmitRefused(c)
      PROVE  UNCHANGED silent
  BY <1>5 DEF Connect, TurnAway, ConnectionEnds, Vanish, Overflow, Wait, Resync, NoStart,
              DropHeader, DropRecord, QuarantineRaises, Submit, Submitted, SubmitRefused
<1>6. Stop \/ UNCHANGED vars => UNCHANGED silent
  BY DEF Stop, vars
<1>7. UNCHANGED silent => silent' \in [Clients -> 0 .. IdleTimeouts] /\ SilentBelow'
  BY <1>1, <1>2 DEF SilentBelow
<1>8. QED
  BY <1>3, <1>4, <1>5, <1>6, <1>7 DEF Next, Process

-----------------------------------------------------------------------------
(* Slots. *)

ServedClients == {c \in Clients : Served(c)}

\* The served connections are finitely many although the clients need not be.
SlotsInv == IsFiniteSet(ServedClients) /\ SlotsAccounted

\* A connection that ends gives its slot back.
LEMMA FinishSlots ==
  ASSUME TypeOK, SlotsInv, NEW c \in Clients, Served(c), Finish(c) \/ QuarantineRaises(c)
  PROVE  SlotsInv' /\ slots' \in Nat
<1>1. slots' = slots + 1 /\ conn' = [conn EXCEPT ![c] = "ended"]
  BY FinishEnds DEF End, Goto
<1>2. c \in ServedClients /\ ServedClients' = ServedClients \ {c}
  BY <1>1 DEF ServedClients, Served, TypeOK
<1>3. IsFiniteSet(ServedClients) /\ slots + Cardinality(ServedClients) = MaxClients
  BY DEF SlotsInv, SlotsAccounted, ServedClients
<1>4. /\ IsFiniteSet(ServedClients \ {c})
      /\ Cardinality(ServedClients \ {c}) = Cardinality(ServedClients) - 1
  BY <1>2, <1>3, FS_RemoveElement
<1>5. slots \in Nat /\ MaxClients \in Nat /\ Cardinality(ServedClients) \in Nat
  BY <1>3, ConstantsAssumption, FS_CardinalityType DEF TypeOK
<1>6. slots' + Cardinality(ServedClients)' = MaxClients
  BY <1>1, <1>2, <1>3, <1>4, <1>5
<1>7. IsFiniteSet(ServedClients)'
  BY <1>2, <1>4
<1>8. slots' \in Nat
  BY <1>1, <1>5
<1>9. SlotsAccounted'
  BY <1>6 DEF SlotsAccounted, ServedClients
<1>10. QED
  BY <1>7, <1>8, <1>9 DEF SlotsInv

\* A connection that passes setup() takes one.
LEMMA ConnectSlots ==
  ASSUME TypeOK, SlotsInv, NEW c \in Clients, Connect(c)
  PROVE  SlotsInv' /\ slots' \in Nat
<1>1. slots > 0 /\ slots' = slots - 1 /\ conn[c] = "away" /\ conn' = [conn EXCEPT ![c] = "receiving"]
  BY DEF Connect, Goto
<1>2. c \notin ServedClients /\ ServedClients' = ServedClients \cup {c}
  BY <1>1 DEF ServedClients, Served, TypeOK
<1>3. IsFiniteSet(ServedClients) /\ slots + Cardinality(ServedClients) = MaxClients
  BY DEF SlotsInv, SlotsAccounted, ServedClients
<1>4. /\ IsFiniteSet(ServedClients \cup {c})
      /\ Cardinality(ServedClients \cup {c}) = Cardinality(ServedClients) + 1
  BY <1>2, <1>3, FS_AddElement
<1>5. slots \in Nat /\ MaxClients \in Nat /\ Cardinality(ServedClients) \in Nat
  BY <1>3, ConstantsAssumption, FS_CardinalityType DEF TypeOK
<1>6. slots' + Cardinality(ServedClients)' = MaxClients
  BY <1>1, <1>2, <1>3, <1>4, <1>5
<1>7. IsFiniteSet(ServedClients)'
  BY <1>2, <1>4
<1>8. slots' \in Nat
  BY <1>1, <1>5
<1>9. SlotsAccounted'
  BY <1>6 DEF SlotsAccounted, ServedClients
<1>10. QED
  BY <1>7, <1>8, <1>9 DEF SlotsInv

\* Every other step leaves the slots and who is served alone.
LEMMA SlotsStep ==
  ASSUME TypeOK, SlotsInv, [Next]_vars
  PROVE  SlotsInv' /\ slots' \in 0 .. MaxClients
<1>1. ASSUME NEW c \in Clients, ConnectionEnds(c)
      PROVE  SlotsInv' /\ slots' \in Nat
  BY <1>1, FinishSlots DEF ConnectionEnds, Served
<1>2. ASSUME NEW c \in Clients, TimeOut(c)
      PROVE  \/ SlotsInv' /\ slots' \in Nat
             \/ UNCHANGED <<conn, slots>>
  BY <1>2, FinishSlots DEF TimeOut, Served
<1>11. ASSUME NEW c \in Clients, QuarantineRaises(c)
       PROVE  SlotsInv' /\ slots' \in Nat
  <2>1. Quarantines(c)
    BY <1>11 DEF QuarantineRaises
  <2>2. Served(c)
    BY <2>1, QuarantinesSome DEF Served
  <2>3. QED
    BY <1>11, <2>2, FinishSlots
<1>3. ASSUME NEW c \in Clients,
             \/ TurnAway(c) \/ Recv(c) \/ Vanish(c) \/ Overflow(c) \/ Wait(c) \/ Resync(c)
             \/ NoStart(c) \/ DropHeader(c) \/ DropRecord(c) \/ Submit(c) \/ Submitted(c)
             \/ SubmitRefused(c)
      PROVE  slots' = slots /\ ServedClients' = ServedClients
  <2>1. slots' = slots
    BY <1>3 DEF TurnAway, Recv, Vanish, Overflow, Wait, Resync, NoStart, DropHeader,
                DropRecord, Submit, Submitted, SubmitRefused
  <2>2. \/ conn' = conn
        \/ /\ conn[c] = "away" /\ conn' = [conn EXCEPT ![c] = "refused"]
        \/ /\ conn[c] \in {"receiving", "overflowing", "processing", "submitting"}
           /\ \E place \in {"receiving", "overflowing", "processing", "submitting"} :
                conn' = [conn EXCEPT ![c] = place]
    BY <1>3 DEF TurnAway, Recv, Vanish, Overflow, Wait, Resync, NoStart, DropHeader,
                DropRecord, Submit, Submitted, SubmitRefused, Goto
  <2>3. conn \in [Clients -> Places]
    BY DEF TypeOK, Places
  <2>4. \A d \in Clients : Served(d)' <=> Served(d)
    BY <2>2, <2>3 DEF Served
  <2>5. QED
    BY <2>1, <2>4 DEF ServedClients
<1>4. Stop \/ UNCHANGED vars => UNCHANGED <<conn, slots>>
  BY DEF Stop, vars
<1>5. UNCHANGED <<conn, slots>> => slots' = slots /\ ServedClients' = ServedClients
  BY DEF ServedClients, Served
<1>6. ASSUME slots' = slots, ServedClients' = ServedClients
      PROVE  SlotsInv' /\ slots' \in Nat
  <2>1. slots + Cardinality(ServedClients) = MaxClients /\ IsFiniteSet(ServedClients)
    BY DEF SlotsInv, SlotsAccounted, ServedClients
  <2>2. slots' + Cardinality(ServedClients)' = MaxClients /\ IsFiniteSet(ServedClients)'
    BY <1>6, <2>1
  <2>3. slots' \in Nat
    BY <1>6 DEF TypeOK
  <2>4. SlotsAccounted'
    BY <2>2 DEF SlotsAccounted, ServedClients
  <2>5. QED
    BY <2>2, <2>3, <2>4 DEF SlotsInv
<1>7. SlotsInv' /\ slots' \in Nat
  BY <1>1, <1>2, <1>3, <1>4, <1>5, <1>6, <1>11, ConnectSlots DEF Next, Process
<1>8. Cardinality(ServedClients)' \in Nat
  BY <1>7, FS_CardinalityType DEF SlotsInv
<1>9. slots' + Cardinality(ServedClients)' = MaxClients
  BY <1>7 DEF SlotsInv, SlotsAccounted, ServedClients
<1>10. QED
  BY <1>7, <1>8, <1>9, ConstantsAssumption

-----------------------------------------------------------------------------
(* Bytes. *)

\* What left a connection's buffer, in order, without a gap or an overlap.
Contiguous(c) ==
  LET n == Len(taken[c])
  IN  /\ \A i \in 1 .. n : taken[c][i].from = IF i = 1 THEN 0 ELSE taken[c][i - 1].to
      /\ from[c] = IF n = 0 THEN 0 ELSE taken[c][n].to

\* A connection that is not served has an empty buffer.
IdleEmpty == \A c \in Clients : conn[c] \in {"away", "refused", "ended"} => from[c] = to[c]

\* What a connection leaves behind is the last that leaves its buffer.
EndsLast ==
  \A c \in Clients : \A i \in 1 .. Len(taken[c]) :
    taken[c][i].fate \in Ends => i = Len(taken[c]) /\ conn[c] = "ended"

LEMMA BytesParts ==
  (\A c \in Clients : Contiguous(c)) /\ IdleEmpty /\ EndsLast => BytesAccounted
BY DEF BytesAccounted, Contiguous, IdleEmpty, EndsLast, Ends

\* A cut of n bytes continues the spans where they end.
LEMMA CutContiguous ==
  ASSUME TypeOK, NEW c \in Clients, NEW n, NEW fate, Cut(c, n, fate), Contiguous(c)
  PROVE  Contiguous(c)'
<1>1. /\ from'[c] = from[c] + n
      /\ n = 0 => taken'[c] = taken[c]
      /\ n # 0 => taken'[c] =
           Append(taken[c], [fate |-> fate, from |-> from[c], to |-> from[c] + n])
  BY CutEffect
<1>2. taken[c] \in Seq(Span) /\ from[c] \in Nat /\ n \in Nat
  <2>1. taken[c] \in Seq(Span)
    BY DEF TypeOK, Span
  <2>2. from[c] \in Nat
    BY DEF TypeOK
  <2>3. n \in Nat
    BY SizeType DEF Cut
  <2>4. QED
    BY <2>1, <2>2, <2>3
<1>3. CASE n = 0
  BY <1>1, <1>2, <1>3 DEF Contiguous
<1>4. CASE n # 0
  <2> DEFINE span == [fate |-> fate, from |-> from[c], to |-> from[c] + n]
             m == Len(taken[c])
  <2>1. taken'[c] = Append(taken[c], span) /\ span \in Span
    BY <1>1, <1>2, <1>4 DEF Span, Cut
  <2>2. m \in Nat /\ Len(taken'[c]) = m + 1
    BY <1>2, <2>1
  <2>3. taken'[c][m + 1] = span /\ \A i \in 1 .. m : taken'[c][i] = taken[c][i]
    BY <1>2, <2>1
  <2>4. ASSUME NEW i \in 1 .. m + 1
        PROVE  taken'[c][i].from = IF i = 1 THEN 0 ELSE taken'[c][i - 1].to
    <3>1. CASE i \in 1 .. m
      <4>1. taken[c][i].from = IF i = 1 THEN 0 ELSE taken[c][i - 1].to
        BY <3>1 DEF Contiguous
      <4>2. i # 1 => i - 1 \in 1 .. m
        BY <2>2, <3>1
      <4>3. QED
        BY <2>3, <3>1, <4>1, <4>2
    <3>2. CASE i = m + 1
      <4>1. taken'[c][i].from = from[c]
        BY <2>3, <3>2
      <4>2. from[c] = IF m = 0 THEN 0 ELSE taken[c][m].to
        BY DEF Contiguous
      <4>3. m # 0 => m \in 1 .. m
        BY <2>2
      <4>4. QED
        BY <2>2, <2>3, <3>2, <4>1, <4>2, <4>3
    <3>3. QED
      BY <2>2, <3>1, <3>2
  <2>5. from'[c] = taken'[c][m + 1].to
    BY <1>1, <2>3
  <2>6. QED
    BY <2>2, <2>4, <2>5 DEF Contiguous
<1>5. QED
  BY <1>3, <1>4

\* A connection that is not cut keeps its spans.
LEMMA ContiguousStep ==
  ASSUME TypeOK, SubmitComplete, [Next]_vars, \A c \in Clients : Contiguous(c)
  PROVE  \A c \in Clients : Contiguous(c)'
<1>1. ASSUME NEW d \in Clients, from'[d] = from[d], taken'[d] = taken[d]
      PROVE  Contiguous(d)'
  BY <1>1 DEF Contiguous
<1>2. ASSUME NEW c \in Clients, NEW n, NEW fate, Cut(c, n, fate), NEW d \in Clients
      PROVE  Contiguous(d)'
  <2>1. CASE d = c
    BY <1>2, <2>1, CutContiguous
  <2>2. CASE d # c
    BY <1>1, <1>2, <2>2, CutEffect
  <2>3. QED
    BY <2>1, <2>2
<1>3. QED
  BY <1>1, <1>2, BuffersStep DEF StepCut

LEMMA EndsLastStep ==
  ASSUME TypeOK, SubmitComplete, [Next]_vars, EndsLast
  PROVE  EndsLast'
<1> SUFFICES ASSUME NEW d \in Clients, NEW i \in 1 .. Len(taken'[d]), taken'[d][i].fate \in Ends
             PROVE  i = Len(taken'[d]) /\ conn'[d] = "ended"
  BY DEF EndsLast
<1>1. CASE taken'[d] = taken[d]
  BY <1>1, EndedStays DEF EndsLast
<1>2. ASSUME NEW c \in Clients, NEW n, NEW fate, StepCut(c, n, fate), taken'[d] # taken[d]
      PROVE  i = Len(taken'[d]) /\ conn'[d] = "ended"
  <2> DEFINE span == [fate |-> fate, from |-> from[d], to |-> from[d] + n]
  <2>1. d = c /\ taken'[d] = Append(taken[d], span)
    BY <1>2, CutEffect DEF StepCut
  <2>2. taken[d] \in Seq(Span)
    BY DEF TypeOK, Span
  <2>3. /\ Len(taken'[d]) = Len(taken[d]) + 1 /\ taken'[d][Len(taken[d]) + 1] = span
        /\ \A k \in 1 .. Len(taken[d]) : taken'[d][k] = taken[d][k]
    BY <2>1, <2>2
  <2>4. \A k \in 1 .. Len(taken[d]) : taken[d][k].fate \notin Ends
    BY <1>2, <2>1 DEF StepCut, EndsLast
  <2>5. i = Len(taken[d]) + 1
    BY <2>2, <2>3, <2>4
  <2>6. fate \in Ends
    BY <2>3, <2>5
  <2>7. QED
    BY <1>2, <2>1, <2>3, <2>5, <2>6 DEF StepCut
<1>3. QED
  BY <1>1, <1>2, BuffersStep

\* A connection starts and ends with an empty buffer.
LEMMA IdleStep ==
  ASSUME TypeOK, SubmitComplete, IdleEmpty, [Next]_vars
  PROVE  IdleEmpty'
<1>1. ASSUME NEW c \in Clients, Finish(c) \/ QuarantineRaises(c), to' = to
      PROVE  IdleEmpty'
  <2>0. PICK fate \in Ends : End(c, fate)
    BY <1>1, FinishEnds
  <2>1. from'[c] = to[c] /\ \A d \in Clients \ {c} : from'[d] = from[d]
    BY <2>0, EndCuts, CutEffect
  <2>2. conn' = [conn EXCEPT ![c] = "ended"]
    BY <2>0 DEF End, Goto
  <2>3. QED
    BY <1>1, <2>1, <2>2 DEF IdleEmpty, TypeOK
<1>2. ASSUME NEW c \in Clients, NEW place \in Places \ {"away", "refused", "ended"},
             conn' = [conn EXCEPT ![c] = place],
             \A d \in Clients \ {c} : from'[d] = from[d] /\ to'[d] = to[d]
      PROVE  IdleEmpty'
  BY <1>2 DEF IdleEmpty, TypeOK
<1>3. ASSUME NEW c \in Clients,
             Connect(c) \/ Recv(c) \/ Wait(c) \/ Submit(c)
      PROVE  IdleEmpty'
  <2>1. \A d \in Clients \ {c} : from'[d] = from[d] /\ to'[d] = to[d]
    BY <1>3 DEF Connect, Recv, Wait, Submit, buffers, TypeOK
  <2>2. \E place \in Places \ {"away", "refused", "ended"} : conn' = [conn EXCEPT ![c] = place]
    BY <1>3 DEF Connect, Recv, Wait, Submit, Goto, Places
  <2>3. QED
    BY <1>2, <2>1, <2>2
<1>4. ASSUME NEW c \in Clients,
             \/ Overflow(c) \/ Resync(c) \/ NoStart(c) \/ DropHeader(c) \/ DropRecord(c)
             \/ Submitted(c) \/ SubmitRefused(c)
      PROVE  IdleEmpty'
  <2>1. \E n, fate : Cut(c, n, fate)
    BY <1>4, OverflowCuts, ResyncCuts, NoStartCuts, DropHeaderCuts, RecordCuts
  <2>2. \A d \in Clients \ {c} : from'[d] = from[d]
    BY <2>1, CutEffect
  <2>3. /\ to' = to /\ conn[c] \in Places \ {"away", "refused", "ended"}
        /\ \/ conn' = conn
           \/ \E place \in Places \ {"away", "refused", "ended"} :
                conn' = [conn EXCEPT ![c] = place]
    BY <1>4 DEF Overflow, Resync, NoStart, DropHeader, DropRecord, Submitted, SubmitRefused,
                Goto, Places
  <2>4. conn' = conn => conn' = [conn EXCEPT ![c] = conn[c]]
    BY DEF TypeOK
  <2>5. QED
    BY <1>2, <2>2, <2>3, <2>4
<1>5. UNCHANGED <<conn, from, to>> => IdleEmpty'
  BY DEF IdleEmpty
<1>6. ASSUME NEW c \in Clients, TimeOut(c)
      PROVE  IdleEmpty'
  BY <1>1, <1>5, <1>6 DEF TimeOut
<1>7. ASSUME NEW c \in Clients, ConnectionEnds(c) \/ QuarantineRaises(c)
      PROVE  IdleEmpty'
  BY <1>1, <1>7 DEF ConnectionEnds, QuarantineRaises
<1>8. ASSUME NEW c \in Clients, Vanish(c)
      PROVE  IdleEmpty'
  BY <1>5, <1>8 DEF Vanish, buffers
<1>9. ASSUME NEW c \in Clients, TurnAway(c)
      PROVE  IdleEmpty'
  BY <1>9 DEF TurnAway, Goto, buffers, IdleEmpty, TypeOK
<1>10. Stop \/ UNCHANGED vars => IdleEmpty'
  BY <1>5 DEF Stop, vars, buffers
<1>11. QED
  BY <1>3, <1>4, <1>6, <1>7, <1>8, <1>9, <1>10 DEF Next, Process

-----------------------------------------------------------------------------
(* The record being submitted, and the size of a waiting buffer. *)

\* A connection inside submit() is there because it found a record, and its buffer
\* is left alone meanwhile.
LEMMA SubmittingStep ==
  ASSUME TypeOK, [Next]_vars, NEW d \in Clients, conn'[d] = "submitting"
  PROVE  /\ conn[d] = "submitting" \/ (Complete(d) /\ Kind(d) \in Parses)
         /\ from'[d] = from[d] /\ to'[d] = to[d]
<1> DEFINE Claim == /\ conn[d] = "submitting" \/ (Complete(d) /\ Kind(d) \in Parses)
                    /\ from'[d] = from[d] /\ to'[d] = to[d]
<1>0. conn \in [Clients -> Places] /\ from \in [Clients -> Nat] /\ to \in [Clients -> Nat]
  BY DEF TypeOK, Places
<1>1. ASSUME NEW c \in Clients, Submit(c)
      PROVE  Claim
  <2>1. /\ Complete(c) /\ Kind(c) \in Parses
        /\ conn' = [conn EXCEPT ![c] = "submitting"] /\ UNCHANGED <<from, to>>
    BY <1>1 DEF Submit, Goto, buffers
  <2>2. CASE c = d
    BY <2>1, <2>2
  <2>3. CASE c # d
    BY <1>0, <2>1, <2>3
  <2>4. QED
    BY <2>2, <2>3
<1>2. ASSUME NEW c \in Clients,
             \/ Connect(c) \/ TurnAway(c) \/ Recv(c) \/ Wait(c) \/ Vanish(c)
      PROVE  conn[d] = "submitting" /\ from'[d] = from[d] /\ to'[d] = to[d]
  BY <1>0, <1>2 DEF Connect, TurnAway, Recv, Wait, Vanish, Goto, buffers
<1>3. ASSUME NEW c \in Clients,
             \/ ConnectionEnds(c) \/ TimeOut(c) \/ Overflow(c) \/ Resync(c) \/ NoStart(c)
             \/ DropHeader(c) \/ DropRecord(c) \/ QuarantineRaises(c) \/ Submitted(c) \/ SubmitRefused(c)
      PROVE  conn[d] = "submitting" /\ from'[d] = from[d] /\ to'[d] = to[d]
  BY <1>0, <1>3 DEF ConnectionEnds, TimeOut, Overflow, Resync, NoStart, DropHeader, DropRecord,
              QuarantineRaises, Submitted, SubmitRefused, Finish, End, Goto, Drop, Keep
<1>4. Stop \/ UNCHANGED vars => conn' = conn /\ from' = from /\ to' = to
  BY DEF Stop, vars, buffers
<1>5. (Stop \/ UNCHANGED vars) => Claim
  BY <1>4
<1>6. \A c \in Clients :
        \/ Connect(c) \/ TurnAway(c) \/ Recv(c) \/ Wait(c) \/ Vanish(c)
        \/ ConnectionEnds(c) \/ TimeOut(c) \/ Overflow(c) \/ Resync(c) \/ NoStart(c)
        \/ DropHeader(c) \/ DropRecord(c) \/ QuarantineRaises(c) \/ Submitted(c) \/ SubmitRefused(c)
        => Claim
  BY <1>2, <1>3
<1> HIDE DEF Claim
<1>7. Claim
  BY <1>1, <1>5, <1>6 DEF Next, Process
<1>8. QED
  BY <1>7 DEF Claim

LEMMA SubmitCompleteStep ==
  ASSUME TypeOK, SubmitComplete, [Next]_vars
  PROVE  SubmitComplete'
<1> SUFFICES ASSUME NEW d \in Clients, conn'[d] = "submitting"
             PROVE  Complete(d)' /\ (Kind(d) \in Parses)'
  BY DEF SubmitComplete
<1>1. Complete(d) /\ Kind(d) \in Parses
  BY SubmittingStep DEF SubmitComplete
<1>2. from'[d] = from[d] /\ to'[d] = to[d] /\ stream'[d] = stream[d]
  BY SubmittingStep, ReceivedStep
<1>3. QED
  BY <1>1, <1>2 DEF Complete, Headed, Plausible, Kind, Size

\* Once refused, always refused.
LEMMA RefusedStays ==
  ASSUME TypeOK, SubmitComplete, [Next]_vars, NEW d \in Clients, Refused(d)
  PROVE  Refused(d)'
<1>1. CASE taken'[d] = taken[d]
  BY <1>1 DEF Refused
<1>2. ASSUME NEW c \in Clients, NEW n, NEW fate, Cut(c, n, fate), taken'[d] # taken[d]
      PROVE  Refused(d)'
  <2>1. d = c /\ taken'[d] =
          Append(taken[d], [fate |-> fate, from |-> from[d], to |-> from[d] + n])
    BY <1>2, CutEffect
  <2>2. taken[d] \in Seq(Span)
    BY DEF TypeOK, Span
  <2>3. PICK i \in 1 .. Len(taken[d]) : taken[d][i].fate = "refused"
    BY DEF Refused
  <2>4. i \in 1 .. Len(taken'[d]) /\ taken'[d][i] = taken[d][i]
    BY <2>1, <2>2, <2>3
  <2>5. QED
    BY <2>3, <2>4 DEF Refused
<1>3. QED
  BY <1>1, <1>2, BuffersStep DEF StepCut

LEMMA RefusalIsRemembered ==
  ASSUME TypeOK, SubmitComplete, NEW c \in Clients, SubmitRefused(c)
  PROVE  Refused(c)'
<1> DEFINE n == RecordLength[Kind(c)]
           span == [fate |-> "refused", from |-> from[c], to |-> from[c] + n]
<1>1. taken'[c] = Append(taken[c], span)
  BY RecordCuts, CutEffect
<1>2. taken[c] \in Seq(Span)
  BY DEF TypeOK, Span
<1>3. Len(taken[c]) + 1 \in 1 .. Len(taken'[c]) /\ taken'[c][Len(taken[c]) + 1] = span
  BY <1>1, <1>2
<1>4. QED
  BY <1>3 DEF Refused

\* What may remain in a buffer may also be less.
LEMMA MayRemainLess ==
  ASSUME NEW n \in Int, NEW m \in Int, m <= n, MayRemain(n)
  PROVE  MayRemain(m)
<1>1. HeaderSize \in Nat /\ \A k \in Starts : Needed[k] \in Nat /\ RecordLength[k] \in Nat
  BY ConstantsAssumption
<1>2. QED
  BY <1>1 DEF MayRemain

\* Each return to recv() leaves less than a record.
LEMMA WaitRemains ==
  ASSUME TypeOK, NEW c \in Clients, Wait(c)
  PROVE  MayRemain(Size(c)) /\ Size(c)' = Size(c)
<1>1. HeaderSize \in Nat /\ Size(c) \in Nat
  BY ConstantsAssumption, SizeType
<1>2. Size(c)' = Size(c)
  BY DEF Wait, buffers, Size
<1>3. CASE Size(c) < HeaderSize
  <2>1. Size(c) <= HeaderSize
    BY <1>1, <1>3
  <2>2. QED
    BY <1>2, <2>1 DEF MayRemain
<1>4. CASE Plausible(c, from[c]) /\ ~Headed(c)
  <2>1. Kind(c) \in Starts /\ Needed[Kind(c)] \in Nat
    BY <1>4, KindType
  <2>2. Size(c) < Needed[Kind(c)]
    BY <1>1, <1>4, <2>1 DEF Headed
  <2>3. MayRemain(Size(c))
    BY <2>1, <2>2 DEF MayRemain
  <2>4. QED
    BY <1>2, <2>3
<1>5. CASE Headed(c) /\ RecordLength[Kind(c)] > Size(c)
  <2>1. Kind(c) \in Starts /\ RecordLength[Kind(c)] \in Nat
    BY <1>5, KindType DEF Headed
  <2>2. Size(c) < RecordLength[Kind(c)]
    BY <1>1, <1>5, <2>1
  <2>3. MayRemain(Size(c))
    BY <2>1, <2>2 DEF MayRemain
  <2>4. QED
    BY <1>2, <2>3
<1>6. QED
  BY <1>2, <1>3, <1>4, <1>5 DEF Wait

LEMMA WaitingStep ==
  ASSUME TypeOK, SubmitComplete, IdleEmpty, BufferBounded, [Next]_vars,
         NEW d \in Clients, conn'[d] = "receiving", ~Refused(d)'
  PROVE  MayRemain(Size(d)')
<1>1. conn[d] = "receiving" => MayRemain(Size(d))
  BY RefusedStays DEF BufferBounded
<1>2. ASSUME conn[d] = "receiving", from'[d] = from[d], to'[d] = to[d]
      PROVE  MayRemain(Size(d)')
  BY <1>1, <1>2 DEF Size
<1>3. ASSUME NEW c \in Clients, Connect(c)
      PROVE  MayRemain(Size(d)')
  <2>1. CASE c = d
    <3>1. conn[d] = "away" /\ from'[d] = from[d] /\ to'[d] = to[d]
      BY <1>3, <2>1 DEF Connect, buffers
    <3>2. Size(d)' = 0
      BY <3>1 DEF IdleEmpty, Size, TypeOK
    <3>3. QED
      BY <3>2, ConstantsAssumption DEF MayRemain
  <2>2. CASE c # d
    BY <1>2, <1>3, <2>2 DEF Connect, Goto, buffers, TypeOK
  <2>3. QED
    BY <2>1, <2>2
<1>4. ASSUME NEW c \in Clients, Wait(c)
      PROVE  MayRemain(Size(d)')
  <2>1. CASE c = d
    BY <1>4, <2>1, WaitRemains
  <2>2. CASE c # d
    BY <1>2, <1>4, <2>2 DEF Wait, Goto, buffers, TypeOK
  <2>3. QED
    BY <2>1, <2>2
<1>5. ASSUME NEW c \in Clients, NoStart(c)
      PROVE  MayRemain(Size(d)')
  <2>1. CASE c = d
    <3>1. PICK n : Cut(c, n, "garbage") /\ Size(c) - n <= HeaderSize
      BY <1>5, NoStartCuts
    <3>2. from'[c] = from[c] + n
      BY <3>1, CutEffect
    <3>3. to' = to
      BY <1>5 DEF NoStart
    <3>4. n \in Nat
      BY <3>1, SizeType DEF Cut
    <3>5. Size(c)' = Size(c) - n
      BY <3>2, <3>3, <3>4 DEF Size, TypeOK
    <3>6. QED
      BY <2>1, <3>1, <3>5 DEF MayRemain
  <2>2. CASE c # d
    BY <1>2, <1>5, <2>2 DEF NoStart, Goto, Keep, TypeOK
  <2>3. QED
    BY <2>1, <2>2
<1>6. ASSUME NEW c \in Clients, SubmitRefused(c)
      PROVE  MayRemain(Size(d)')
  <2>1. c # d
    BY <1>6, RefusalIsRemembered
  <2>2. QED
    BY <1>2, <1>6, <2>1 DEF SubmitRefused, Goto, Drop, TypeOK
<1>7. ASSUME NEW c \in Clients, TurnAway(c) \/ Recv(c) \/ Submit(c) \/ Vanish(c)
      PROVE  conn[d] = "receiving" /\ from'[d] = from[d] /\ to'[d] = to[d]
  BY <1>7 DEF TurnAway, Recv, Submit, Vanish, Goto, buffers, TypeOK
<1>8. ASSUME NEW c \in Clients,
             \/ ConnectionEnds(c) \/ TimeOut(c) \/ Overflow(c) \/ Resync(c)
             \/ DropHeader(c) \/ DropRecord(c) \/ QuarantineRaises(c) \/ Submitted(c)
      PROVE  conn[d] = "receiving" /\ from'[d] = from[d] /\ to'[d] = to[d]
  BY <1>8 DEF ConnectionEnds, TimeOut, Overflow, Resync, DropHeader, DropRecord, Submitted,
              QuarantineRaises, Finish, End, Goto, Drop, Keep, TypeOK
<1>9. Stop \/ UNCHANGED vars => conn' = conn /\ from' = from /\ to' = to
  BY DEF Stop, vars, buffers
<1>10. QED
  BY <1>2, <1>3, <1>4, <1>5, <1>6, <1>7, <1>8, <1>9 DEF Next, Process

\* A buffer overflows only when what remained in it and a chunk exceed the limit.
LEMMA OverflownStep ==
  ASSUME TypeOK, BufferBounded, [Next]_vars, NEW d \in Clients, d \in overflown', ~Refused(d)
  PROVE  MayRemain(limits.buffer - RecvSize + 1)
<1>1. ASSUME NEW c \in Clients, Recv(c), d \notin overflown
      PROVE  MayRemain(limits.buffer - RecvSize + 1)
  <2>1. PICK n \in 1 .. RecvSize :
          overflown' = IF Size(c) + n > limits.buffer THEN overflown \cup {c} ELSE overflown
    BY <1>1 DEF Recv
  <2>2. c = d /\ Size(c) + n > limits.buffer
    BY <1>1, <2>1
  <2>3. MayRemain(Size(d))
    BY <1>1, <2>2 DEF Recv, BufferBounded
  <2>4. Size(d) \in Nat /\ limits.buffer \in Nat /\ RecvSize \in Nat
    BY SizeType, ConstantsAssumption DEF TypeOK
  <2>5. limits.buffer - RecvSize + 1 <= Size(d) /\ limits.buffer - RecvSize + 1 \in Int
    BY <2>1, <2>2, <2>4
  <2>6. QED
    BY <2>3, <2>4, <2>5, MayRemainLess
<1>2. d \in overflown => MayRemain(limits.buffer - RecvSize + 1)
  BY DEF BufferBounded
<1>3. ASSUME NEW c \in Clients,
             \/ Connect(c) \/ TurnAway(c) \/ ConnectionEnds(c) \/ TimeOut(c)
             \/ Vanish(c) \/ Overflow(c) \/ Wait(c) \/ Resync(c) \/ NoStart(c)
             \/ DropHeader(c) \/ DropRecord(c) \/ Submit(c) \/ Submitted(c)
             \/ SubmitRefused(c) \/ QuarantineRaises(c)
      PROVE  overflown' = overflown
  BY <1>3 DEF Connect, TurnAway, ConnectionEnds, TimeOut, Vanish, Overflow, Wait,
              Resync, NoStart, DropHeader, DropRecord, QuarantineRaises, Submit, Submitted, SubmitRefused
<1>4. Stop \/ UNCHANGED vars => overflown' = overflown
  BY DEF Stop, vars
<1>5. QED
  BY <1>1, <1>2, <1>3, <1>4 DEF Next, Process

-----------------------------------------------------------------------------
(* The inductive invariant. *)

ReceiverInv ==
  /\ TypeOK
  /\ SubmitComplete
  /\ SilentBelow
  /\ SlotsInv
  /\ \A c \in Clients : Contiguous(c)
  /\ EndsLast
  /\ IdleEmpty
  /\ BufferBounded

LEMMA InitReceiverInv == Init => ReceiverInv
<1> SUFFICES ASSUME Init PROVE ReceiverInv
  OBVIOUS
<1> USE ConstantsAssumption
<1>1. /\ limits \in Limits /\ \A c \in Clients : stream[c] \in Streams[c]
      /\ conn = [c \in Clients |-> "away"]
      /\ from = [c \in Clients |-> 0] /\ to = [c \in Clients |-> 0]
      /\ silent = [c \in Clients |-> 0] /\ gone = [c \in Clients |-> FALSE]
      /\ slots = MaxClients /\ stopping = FALSE
      /\ taken = [c \in Clients |-> << >>] /\ overflown = {}
  BY DEF Init
<1>2. \A c \in Clients : stream[c] \in Seq(Byte)
  BY <1>1
<1>3. \A c \in Clients : from[c] <= to[c] /\ to[c] <= Len(stream[c])
  BY <1>1, <1>2
<1>4. taken \in [Clients -> Seq([fate : Fates, from : Nat, to : Nat])]
  BY <1>1
<1>5. silent \in [Clients -> 0 .. IdleTimeouts] /\ slots \in 0 .. MaxClients
  BY <1>1
<1>6. TypeOK
  BY <1>1, <1>3, <1>4, <1>5 DEF TypeOK
<1>7. ServedClients = {}
  BY <1>1 DEF ServedClients, Served
<1>8. SlotsInv
  <2>1. IsFiniteSet(ServedClients) /\ Cardinality(ServedClients) = 0
    BY <1>7, FS_EmptySet
  <2>2. slots + Cardinality(ServedClients) = MaxClients
    BY <1>1, <2>1
  <2>3. SlotsAccounted
    BY <2>2 DEF SlotsAccounted, ServedClients
  <2>4. QED
    BY <2>1, <2>3 DEF SlotsInv
<1>9. \A c \in Clients : Contiguous(c)
  BY <1>1 DEF Contiguous
<1>10. SubmitComplete /\ SilentBelow /\ IdleEmpty /\ EndsLast
  BY <1>1 DEF SubmitComplete, SilentBelow, IdleEmpty, EndsLast
<1>11. BufferBounded
  BY <1>1 DEF BufferBounded
<1>12. QED
  BY <1>6, <1>8, <1>9, <1>10, <1>11 DEF ReceiverInv

LEMMA TypeStep ==
  ASSUME TypeOK, SubmitComplete, SilentBelow, SlotsInv, [Next]_vars
  PROVE  TypeOK'
<1>1. /\ from' \in [Clients -> Nat]
      /\ taken' \in [Clients -> Seq([fate : Fates, from : Nat, to : Nat])]
      /\ \A c \in Clients : from'[c] <= to'[c]
  <2>1. ASSUME NEW c \in Clients, NEW n, NEW fate, Cut(c, n, fate), to' = to
        PROVE  /\ from' \in [Clients -> Nat]
               /\ taken' \in [Clients -> Seq([fate : Fates, from : Nat, to : Nat])]
               /\ \A d \in Clients : from'[d] <= to'[d]
    <3>1. from' \in [Clients -> Nat] /\ taken' \in [Clients -> Seq(Span)]
      BY <2>1, CutEffect
    <3>2. from'[c] <= to[c] /\ \A d \in Clients \ {c} : from'[d] = from[d]
      BY <2>1, CutEffect
    <3>3. \A d \in Clients : from[d] <= to[d]
      BY DEF TypeOK
    <3>4. QED
      BY <2>1, <3>1, <3>2, <3>3 DEF Span
  <2>2. ASSUME UNCHANGED <<from, taken>>
        PROVE  /\ from' \in [Clients -> Nat]
               /\ taken' \in [Clients -> Seq([fate : Fates, from : Nat, to : Nat])]
               /\ \A d \in Clients : from'[d] <= to'[d]
    <3>1. \A d \in Clients : from[d] \in Nat /\ to[d] \in Nat /\ to'[d] \in Nat
      BY ReceivedStep DEF TypeOK
    <3>2. \A d \in Clients : from[d] <= to[d] /\ to[d] <= to'[d]
      BY ReceivedStep DEF TypeOK
    <3>3. \A d \in Clients : from'[d] <= to'[d]
      BY <2>2, <3>1, <3>2
    <3>4. QED
      BY <2>2, <3>3 DEF TypeOK
  <2>3. QED
    BY <2>1, <2>2, BuffersStep DEF StepCut
<1>2. /\ limits' \in Limits /\ \A c \in Clients : stream'[c] \in Streams[c]
      /\ to' \in [Clients -> Nat] /\ \A c \in Clients : to'[c] <= Len(stream'[c])
  BY ReceivedStep DEF TypeOK
<1>3. /\ conn' \in [Clients -> Places] /\ overflown' \subseteq Clients
      /\ gone' \in [Clients -> BOOLEAN] /\ stopping' \in BOOLEAN
  BY PlacesStep
<1>4. silent' \in [Clients -> 0 .. IdleTimeouts]
  BY SilentStep
<1>5. slots' \in 0 .. MaxClients
  BY SlotsStep
<1>6. QED
  BY <1>1, <1>2, <1>3, <1>4, <1>5 DEF TypeOK, Places

LEMMA BoundedStep ==
  ASSUME TypeOK, SubmitComplete, IdleEmpty, BufferBounded, [Next]_vars
  PROVE  BufferBounded'
<1> SUFFICES ASSUME NEW d \in Clients, ~Refused(d)'
             PROVE  /\ conn'[d] = "receiving" => MayRemain(Size(d)')
                    /\ d \in overflown' => MayRemain(limits'.buffer - RecvSize + 1)
  BY DEF BufferBounded, MayRemain
<1>1. conn'[d] = "receiving" => MayRemain(Size(d)')
  BY WaitingStep
<1>2. ~Refused(d) /\ limits' = limits
  BY RefusedStays, ReceivedStep
<1>3. d \in overflown' => MayRemain(limits'.buffer - RecvSize + 1)
  BY <1>2, OverflownStep
<1>4. QED
  BY <1>1, <1>3

LEMMA NextReceiverInv == ReceiverInv /\ [Next]_vars => ReceiverInv'
<1> SUFFICES ASSUME ReceiverInv, [Next]_vars PROVE ReceiverInv'
  OBVIOUS
<1>1. /\ TypeOK /\ SubmitComplete /\ SilentBelow /\ SlotsInv /\ IdleEmpty /\ BufferBounded
      /\ EndsLast /\ \A c \in Clients : Contiguous(c)
  BY DEF ReceiverInv
<1>2. TypeOK' /\ SubmitComplete'
  BY <1>1, TypeStep, SubmitCompleteStep
<1>3. SilentBelow' /\ SlotsInv'
  BY <1>1, SilentStep, SlotsStep
<1>4. (\A c \in Clients : Contiguous(c))' /\ IdleEmpty' /\ EndsLast'
  BY <1>1, ContiguousStep, IdleStep, EndsLastStep
<1>5. BufferBounded'
  BY <1>1, BoundedStep
<1>6. QED
  BY <1>2, <1>3, <1>4, <1>5 DEF ReceiverInv

\* The inductive invariant holds in every state of every run of the receiver.
THEOREM ReceiverCorrect == Spec => []ReceiverInv
<1>1. Init => ReceiverInv
  BY InitReceiverInv
<1>2. ReceiverInv /\ [Next]_vars => ReceiverInv'
  BY NextReceiverInv
<1>3. QED
  BY <1>1, <1>2, PTL DEF Spec

\* The receiver's variables keep their types; no buffer reaches behind its stream.
THEOREM TypeCorrect == Spec => []TypeOK
<1>1. ReceiverInv => TypeOK
  BY DEF ReceiverInv
<1>2. QED
  BY <1>1, ReceiverCorrect, PTL

\* setup() and finish() keep the semaphore at max_clients less the connections
\* between them, whatever ends a connection.
THEOREM SlotsCorrect == Spec => []SlotsAccounted
<1>1. ReceiverInv => SlotsAccounted
  BY DEF ReceiverInv, SlotsInv
<1>2. QED
  BY <1>1, ReceiverCorrect, PTL

\* At every cut the slice that is quarantined or submitted and the slice that is kept
\* meet: every byte leaves a buffer once, in order and with a fate, a closed connection
\* has none left, and what a raising quarantine loses is the last of its connection.
THEOREM BytesCorrect == Spec => []BytesAccounted
<1>1. ReceiverInv => BytesAccounted
  BY BytesParts DEF ReceiverInv
<1>2. QED
  BY <1>1, ReceiverCorrect, PTL

\* A waiting connection holds less than a record, so that only records longer than
\* max_buffer_bytes less a chunk can overflow it.
THEOREM BufferCorrect == Spec => []BufferBounded
<1>1. ReceiverInv => BufferBounded
  BY DEF ReceiverInv
<1>2. QED
  BY <1>1, ReceiverCorrect, PTL

-----------------------------------------------------------------------------
(* The records of a stream. *)

\* Induction from n + 1 down.
LEMMA Downward ==
  ASSUME NEW n \in Nat, NEW S, n + 1 \in S, \A p \in 0 .. n : p + 1 \in S => p \in S
  PROVE  \A p \in 0 .. n + 1 : p \in S
<1> DEFINE lost == {d \in Nat : d <= n + 1 /\ n + 1 - d \notin S}
<1>1. lost = {}
  <2> SUFFICES ASSUME lost # {} PROVE FALSE
    OBVIOUS
  <2>1. lost \in SUBSET Nat
    OBVIOUS
  <2>2. \A d \in Nat : d <= n + 1 => (d \in lost <=> n + 1 - d \notin S)
    OBVIOUS
  <2>3. \A d \in lost : d <= n + 1
    OBVIOUS
  <2> HIDE DEF lost
  <2> DEFINE d == Min(lost)
  <2>4. d \in lost /\ \A e \in lost : d <= e
    BY <2>1, LeastOfNaturals
  <2> HIDE DEF d
  <2>5. d \in Nat /\ d <= n + 1 /\ n + 1 - d \notin S
    BY <2>1, <2>2, <2>3, <2>4
  <2>6. d # 0
    BY <2>5
  <2>7. d - 1 \in Nat /\ d - 1 <= n + 1 /\ d - 1 \notin lost
    BY <2>4, <2>5, <2>6
  <2>8. n + 1 - (d - 1) \in S
    BY <2>2, <2>7
  <2>9. n + 1 - d \in 0 .. n /\ (n + 1 - d) + 1 = n + 1 - (d - 1)
    BY <2>5, <2>6
  <2>10. QED
    BY <2>5, <2>8, <2>9
<1>2. ASSUME NEW p \in 0 .. n + 1 PROVE p \in S
  <2>1. n + 1 - p \in Nat /\ n + 1 - p <= n + 1 /\ n + 1 - (n + 1 - p) = p
    OBVIOUS
  <2>2. QED
    BY <1>1, <2>1
<1>3. QED
  BY <1>2

\* The records from p on, if h has those from any later byte on.
Following(s, n, h, p) ==
  IF Heads(s, n, p) = {} THEN << >>
  ELSE LET q == Min(Heads(s, n, p))
           k == s[q + 1]
       IN  IF q + Needed[k] > n \/ q + RecordLength[k] > n THEN << >>
           ELSE IF RecordLength[k] = 0 THEN h[q + 1]
           ELSE (IF k \in Parses THEN <<q>> ELSE << >>) \o h[q + RecordLength[k]]

\* The next header is one that has room, and of some kind.
LEMMA NextHead ==
  ASSUME NEW s \in Seq(Byte), NEW n \in 0 .. Len(s), NEW p \in 0 .. n, Heads(s, n, p) # {}
  PROVE  LET q == Min(Heads(s, n, p))
         IN  /\ q \in Nat /\ p <= q /\ q + HeaderSize <= n /\ q + 1 <= n
             /\ s[q + 1] \in Starts /\ s[q + 1] # None
             /\ \A i \in Heads(s, n, p) : q <= i
<1> DEFINE H == Heads(s, n, p)
           q == Min(H)
<1>1. n \in Nat /\ p \in Nat /\ HeaderSize \in Nat \ {0, 1} /\ Len(s) \in Nat /\ n <= Len(s)
  BY ConstantsAssumption
<1>2. H \in SUBSET Nat /\ H # {}
  BY <1>1 DEF Heads
<1>3. q \in H /\ \A i \in H : q <= i
  <2> HIDE DEF H
  <2>1. QED
    BY <1>2, LeastOfNaturals
<1>4. q \in Nat /\ p <= q /\ q + HeaderSize <= n /\ s[q + 1] # None
  <2>1. \A i \in H : i \in Nat /\ p <= i /\ i + HeaderSize <= n /\ s[i + 1] # None
    BY <1>1 DEF Heads
  <2> HIDE DEF H, q
  <2>2. QED
    BY <1>3, <2>1
<1> HIDE DEF H, q
<1>5. q + 1 \in 1 .. Len(s) /\ q + 1 <= n
  BY <1>1, <1>4
<1>6. s[q + 1] \in Byte
  BY <1>5
<1>7. s[q + 1] \in Starts
  BY <1>4, <1>6 DEF Byte
<1>8. QED
  BY <1>3, <1>4, <1>5, <1>7 DEF H, q

\* Following() uses h behind p only, and only up to n.
LEMMA FollowingLater ==
  ASSUME NEW s \in Seq(Byte), NEW n \in 0 .. Len(s), NEW p \in 0 .. n, NEW h,
         \A x \in p + 1 .. n : h[x] \in Seq(Nat)
  PROVE  /\ Following(s, n, h, p) \in Seq(Nat)
         /\ \A g : (\A x \in p + 1 .. n : g[x] = h[x]) => Following(s, n, g, p) = Following(s, n, h, p)
<1>1. CASE Heads(s, n, p) = {}
  BY <1>1 DEF Following
<1>2. CASE Heads(s, n, p) # {}
  <2> DEFINE q == Min(Heads(s, n, p))
             k == s[q + 1]
             none == q + Needed[k] > n \/ q + RecordLength[k] > n
             own == IF k \in Parses THEN <<q>> ELSE << >>
  <2>1. q \in Nat /\ p <= q /\ q + 1 <= n /\ k \in Starts
    BY <1>2, NextHead
  <2>2. \A g : Following(s, n, g, p) =
          IF none THEN << >> ELSE IF RecordLength[k] = 0 THEN g[q + 1] ELSE own \o g[q + RecordLength[k]]
    BY <1>2 DEF Following
  <2>3. RecordLength[k] \in Nat /\ n \in Nat /\ p \in Nat
    BY <2>1, ConstantsAssumption
  <2>4. own \in Seq(Nat)
    <3>1. <<q>> \in Seq(Nat) /\ << >> \in Seq(Nat)
      BY <2>1
    <3>2. QED
      BY <3>1
  <2> HIDE DEF q, k, own
  <2>5. CASE none
    <3> HIDE DEF none
    <3>1. \A g : Following(s, n, g, p) = << >>
      BY <2>2, <2>5
    <3>2. << >> \in Seq(Nat)
      OBVIOUS
    <3>3. QED
      BY <3>1, <3>2
  <2>6. CASE ~none /\ RecordLength[k] = 0
    <3>1. q + 1 \in p + 1 .. n
      BY <2>1, <2>3
    <3> HIDE DEF none
    <3>2. QED
      BY <2>2, <2>6, <3>1
  <2>7. CASE ~none /\ RecordLength[k] # 0
    <3>1. q + RecordLength[k] \in p + 1 .. n
      BY <2>1, <2>3, <2>7
    <3> HIDE DEF none
    <3>2. \A g : Following(s, n, g, p) = own \o g[q + RecordLength[k]]
      BY <2>2, <2>7
    <3> DEFINE x == q + RecordLength[k]
    <3> HIDE DEF x
    <3>3. own \o h[q + RecordLength[k]] \in Seq(Nat)
      <4>1. h[q + RecordLength[k]] \in Seq(Nat)
        BY <3>1
      <4>2. QED
        BY <2>4, <4>1, ConcatProperties
    <3>4. QED
      BY <3>1, <3>2, <3>3
  <2>8. QED
    BY <2>5, <2>6, <2>7
<1>3. QED
  BY <1>1, <1>2

\* The recursive definition has a solution, built from the last byte back to the first.
RecordsOf(s, n, h, first) ==
  \A p \in 0 .. n : first <= p => h[p] = Following(s, n, h, p) /\ h[p] \in Seq(Nat)

LEMMA RecordsEarlier ==
  ASSUME NEW s \in Seq(Byte), NEW n \in 0 .. Len(s), NEW p \in 0 .. n, NEW h,
         RecordsOf(s, n, h, p + 1)
  PROVE  \E g : RecordsOf(s, n, g, p)
<1> DEFINE g == [x \in 0 .. n |-> IF x = p THEN Following(s, n, h, p) ELSE h[x]]
<1>1. n \in Nat /\ p \in Nat
  OBVIOUS
<1>2. g[p] = Following(s, n, h, p) /\ \A x \in 0 .. n : x # p => g[x] = h[x]
  OBVIOUS
<1> HIDE DEF g
<1>3. \A x \in p + 1 .. n : g[x] = h[x] /\ h[x] \in Seq(Nat) /\ h[x] = Following(s, n, h, x)
  BY <1>1, <1>2 DEF RecordsOf
<1>4. ASSUME NEW x \in 0 .. n, p <= x PROVE Following(s, n, g, x) = Following(s, n, h, x) /\ Following(s, n, h, x) \in Seq(Nat)
  <2>1. \A y \in x + 1 .. n : y \in p + 1 .. n
    BY <1>1, <1>4
  <2>2. \A y \in x + 1 .. n : g[y] = h[y] /\ h[y] \in Seq(Nat)
    BY <1>3, <2>1
  <2>3. QED
    BY <2>2, FollowingLater
<1>5. ASSUME NEW x \in 0 .. n, p <= x PROVE g[x] = Following(s, n, g, x) /\ g[x] \in Seq(Nat)
  <2>1. CASE x = p
    BY <1>2, <1>4, <2>1
  <2>2. CASE x # p
    <3>1. x \in p + 1 .. n
      BY <1>1, <1>5, <2>2
    <3>2. QED
      BY <1>3, <1>4, <1>5, <3>1
  <2>3. QED
    BY <2>1, <2>2
<1>6. QED
  BY <1>5 DEF RecordsOf

LEMMA RecordsExist ==
  ASSUME NEW s \in Seq(Byte), NEW n \in 0 .. Len(s)
  PROVE  \E h : RecordsOf(s, n, h, 0)
<1> DEFINE S == {p \in 0 .. n + 1 : \E h : RecordsOf(s, n, h, p)}
<1>1. n \in Nat
  OBVIOUS
<1>2. n + 1 \in S
  <2>1. RecordsOf(s, n, << >>, n + 1)
    BY <1>1 DEF RecordsOf
  <2>2. QED
    BY <1>1, <2>1
<1>3. \A p \in 0 .. n : p + 1 \in S => p \in S
  BY <1>1, RecordsEarlier
<1>4. \A p \in S : \E h : RecordsOf(s, n, h, p)
  OBVIOUS
<1> HIDE DEF S
<1>5. 0 \in S
  BY <1>1, <1>2, <1>3, Downward
<1>6. QED
  BY <1>4, <1>5

\* Whatever solves it is made of sequences.
LEMMA RecordsType ==
  ASSUME NEW s \in Seq(Byte), NEW n \in 0 .. Len(s), NEW h,
         \A p \in 0 .. n : h[p] = Following(s, n, h, p)
  PROVE  RecordsOf(s, n, h, 0)
<1> DEFINE S == {p \in 0 .. n + 1 : \A x \in 0 .. n : p <= x => h[x] \in Seq(Nat)}
<1>1. n \in Nat
  OBVIOUS
<1>2. n + 1 \in S
  BY <1>1
<1>3. ASSUME NEW p \in 0 .. n, p + 1 \in S PROVE p \in S
  <2>1. \A x \in 0 .. n : p <= x => x = p \/ p + 1 <= x
    BY <1>1
  <2>2. \A x \in p + 1 .. n : h[x] \in Seq(Nat)
    BY <1>1, <1>3
  <2>3. h[p] \in Seq(Nat)
    BY <2>2, FollowingLater
  <2>4. p \in 0 .. n + 1
    BY <1>1
  <2>5. QED
    BY <1>3, <2>1, <2>3, <2>4
<1>4. \A p \in S : \A x \in 0 .. n : p <= x => h[x] \in Seq(Nat)
  OBVIOUS
<1> HIDE DEF S
<1>5. 0 \in S
  BY <1>1, <1>2, <1>3, Downward
<1>6. QED
  BY <1>4, <1>5 DEF RecordsOf

\* Hence what RecordsFrom chooses is one.
LEMMA RecordsFromSteps ==
  ASSUME NEW s \in Seq(Byte), NEW n \in 0 .. Len(s)
  PROVE  RecordsOf(s, n, RecordsFrom(s, n), 0)
<1> DEFINE Right(h) ==
      h = [p \in 0 .. n |->
             IF Heads(s, n, p) = {} THEN << >>
             ELSE LET q == Min(Heads(s, n, p))
                      k == s[q + 1]
                  IN  IF q + Needed[k] > n \/ q + RecordLength[k] > n THEN << >>
                      ELSE IF RecordLength[k] = 0 THEN h[q + 1]
                      ELSE (IF k \in Parses THEN <<q>> ELSE << >>) \o h[q + RecordLength[k]]]
<1>1. PICK h : RecordsOf(s, n, h, 0)
  BY RecordsExist
<1> DEFINE f == [p \in 0 .. n |-> h[p]]
<1>2. n \in Nat /\ \A p \in 0 .. n : 0 <= p
  OBVIOUS
<1>3. \A p \in 0 .. n : f[p] = h[p]
  OBVIOUS
<1>4. f = [p \in 0 .. n |-> f[p]]
  OBVIOUS
<1> HIDE DEF f
<1>5. ASSUME NEW p \in 0 .. n PROVE f[p] = Following(s, n, f, p)
  <2>1. h[p] = Following(s, n, h, p)
    BY <1>1, <1>2 DEF RecordsOf
  <2>2. \A x \in p + 1 .. n : x \in 0 .. n
    BY <1>2
  <2>3. \A x \in p + 1 .. n : h[x] \in Seq(Nat) /\ f[x] = h[x]
    BY <1>1, <1>2, <1>3, <2>2 DEF RecordsOf
  <2>4. QED
    BY <1>3, <2>1, <2>3, FollowingLater
<1>6. \A g : Right(g) <=> g = [p \in 0 .. n |-> Following(s, n, g, p)]
  BY DEF Following
<1>7. Right(f)
  <2>1. f = [p \in 0 .. n |-> Following(s, n, f, p)]
    BY <1>4, <1>5
  <2> HIDE DEF Right
  <2>2. QED
    BY <1>6, <2>1
<1> DEFINE c == CHOOSE g : Right(g)
<1>8. Right(c)
  BY <1>7
<1>9. RecordsFrom(s, n) = c
  BY DEF RecordsFrom
<1> HIDE DEF c
<1>10. \A p \in 0 .. n : c[p] = Following(s, n, c, p)
  <2>1. c = [p \in 0 .. n |-> Following(s, n, c, p)]
    <3> HIDE DEF Right
    <3>1. QED
      BY <1>6, <1>8
  <2> HIDE DEF Right
  <2>2. QED
    BY <2>1, Zenon
<1> HIDE DEF Right
<1>11. QED
  BY <1>9, <1>10, RecordsType

\* The records from p on: none, if no header follows ...
LEMMA NoHeadNoRecord ==
  ASSUME NEW s \in Seq(Byte), NEW n \in 0 .. Len(s), NEW p \in 0 .. n, Heads(s, n, p) = {}
  PROVE  RecordsFrom(s, n)[p] = << >>
<1>1. RecordsFrom(s, n)[p] = Following(s, n, RecordsFrom(s, n), p)
  BY RecordsFromSteps DEF RecordsOf
<1>2. QED
  BY <1>1 DEF Following

\* ... those from a later byte on, if no header starts in between ...
LEMMA RecordsSkip ==
  ASSUME NEW s \in Seq(Byte), NEW n \in 0 .. Len(s), NEW p \in 0 .. n, NEW q \in p .. n,
         \A i \in p .. q - 1 : i + HeaderSize <= n => s[i + 1] = None
  PROVE  RecordsFrom(s, n)[p] = RecordsFrom(s, n)[q]
<1>1. n \in Nat /\ p \in Nat /\ q \in Nat /\ p <= q /\ q \in 0 .. n /\ HeaderSize \in Nat
  BY ConstantsAssumption
<1>2. Heads(s, n, p) = Heads(s, n, q)
  <2>1. ASSUME NEW i \in Heads(s, n, p) PROVE i \in Heads(s, n, q)
    <3>1. i \in p .. n - HeaderSize /\ s[i + 1] # None
      BY <2>1 DEF Heads
    <3>2. i + HeaderSize <= n /\ i \in Int
      BY <1>1, <3>1
    <3>3. ~(i \in p .. q - 1)
      BY <3>1, <3>2
    <3>4. i \in q .. n - HeaderSize
      BY <1>1, <3>1, <3>3
    <3>5. QED
      BY <3>1, <3>4 DEF Heads
  <2>2. ASSUME NEW i \in Heads(s, n, q) PROVE i \in Heads(s, n, p)
    BY <1>1, <2>2 DEF Heads
  <2>3. QED
    BY <2>1, <2>2
<1>3. Following(s, n, RecordsFrom(s, n), p) = Following(s, n, RecordsFrom(s, n), q)
  BY <1>2 DEF Following
<1>4. RecordsFrom(s, n)[p] = Following(s, n, RecordsFrom(s, n), p)
      /\ RecordsFrom(s, n)[q] = Following(s, n, RecordsFrom(s, n), q)
  BY <1>1, RecordsFromSteps DEF RecordsOf
<1>5. QED
  BY <1>3, <1>4

\* ... and at a header what its length says.
LEMMA RecordsAtHead ==
  ASSUME NEW s \in Seq(Byte), NEW n \in 0 .. Len(s), NEW p \in 0 .. n,
         p + HeaderSize <= n, s[p + 1] # None
  PROVE  LET k == s[p + 1]
             fits == p + Needed[k] <= n /\ p + RecordLength[k] <= n
         IN  /\ k \in Starts
             /\ ~fits => RecordsFrom(s, n)[p] = << >>
             /\ fits /\ RecordLength[k] = 0 => RecordsFrom(s, n)[p] = RecordsFrom(s, n)[p + 1]
             /\ fits /\ RecordLength[k] # 0 =>
                  RecordsFrom(s, n)[p] =
                    (IF k \in Parses THEN <<p>> ELSE << >>) \o RecordsFrom(s, n)[p + RecordLength[k]]
<1>1. n \in Nat /\ p \in Nat /\ HeaderSize \in Nat
  BY ConstantsAssumption
<1>2. p \in Heads(s, n, p) /\ \A i \in Heads(s, n, p) : p <= i /\ i \in Nat
  BY <1>1 DEF Heads
<1>3. Heads(s, n, p) # {}
  BY <1>2
<1>4. Min(Heads(s, n, p)) = p
  <2>1. Min(Heads(s, n, p)) \in Nat /\ p <= Min(Heads(s, n, p)) /\ Min(Heads(s, n, p)) <= p
    BY <1>2, <1>3, NextHead
  <2>2. QED
    BY <1>1, <2>1
<1>5. s[p + 1] \in Starts
  BY <1>3, <1>4, NextHead
<1> DEFINE k == s[p + 1]
           h == RecordsFrom(s, n)
<1>6. h[p] = IF p + Needed[k] > n \/ p + RecordLength[k] > n THEN << >>
             ELSE IF RecordLength[k] = 0 THEN h[p + 1]
             ELSE (IF k \in Parses THEN <<p>> ELSE << >>) \o h[p + RecordLength[k]]
  <2>1. h[p] = Following(s, n, h, p)
    BY <1>1, RecordsFromSteps DEF RecordsOf
  <2> HIDE DEF h
  <2>2. QED
    BY <1>3, <1>4, <2>1 DEF Following
<1>7. Needed[k] \in Nat /\ RecordLength[k] \in Nat
  BY <1>5, ConstantsAssumption
<1> HIDE DEF k, h
<1>8. p + Needed[k] > n \/ p + RecordLength[k] > n <=> ~(p + Needed[k] <= n /\ p + RecordLength[k] <= n)
  BY <1>1, <1>7
<1>9. QED
  BY <1>5, <1>6, <1>8 DEF k, h

\* Induction from 0 up to n.
LEMMA Upward ==
  ASSUME NEW n \in Nat, NEW S, 0 \in S, \A m \in 1 .. n : m - 1 \in S => m \in S
  PROVE  \A m \in 0 .. n : m \in S
<1> DEFINE lost == {m \in Nat : m <= n /\ m \notin S}
<1>1. lost = {}
  <2> SUFFICES ASSUME lost # {} PROVE FALSE
    OBVIOUS
  <2>1. lost \in SUBSET Nat /\ \A m \in lost : m <= n /\ m \notin S
    OBVIOUS
  <2>2. \A m \in Nat : m <= n => m \in lost \/ m \in S
    OBVIOUS
  <2> HIDE DEF lost
  <2> DEFINE m == Min(lost)
  <2>3. m \in lost /\ \A e \in lost : m <= e
    BY <2>1, LeastOfNaturals
  <2> HIDE DEF m
  <2>4. m \in Nat /\ m <= n /\ m \notin S /\ m # 0
    BY <2>1, <2>3
  <2>5. m \in 1 .. n /\ m - 1 \in Nat /\ m - 1 <= n /\ ~(m <= m - 1)
    BY <2>4
  <2>6. m - 1 \in S
    BY <2>2, <2>3, <2>5
  <2>7. QED
    BY <2>4, <2>5, <2>6
<1>2. QED
  BY <1>1

\* What has been handed on after each of the first last spans.
HandedTo(h, spans, last) ==
  /\ h[0] = << >>
  /\ \A n \in 1 .. last :
       h[n] = IF spans[n].fate \in {"submitted", "refused"} THEN Append(h[n - 1], spans[n].from)
              ELSE h[n - 1]

\* There is one, built from the first span on ...
LEMMA HandedExists ==
  ASSUME NEW spans, NEW last \in Nat
  PROVE  \E h : HandedTo(h, spans, last)
<1> DEFINE S == {m \in 0 .. last : \E h : HandedTo(h, spans, m)}
<1>1. 0 \in S
  <2> DEFINE h == [n \in {0} |-> << >>]
  <2>1. h[0] = << >> /\ 1 .. 0 = {}
    OBVIOUS
  <2> HIDE DEF h
  <2>2. HandedTo(h, spans, 0)
    BY <2>1 DEF HandedTo
  <2>3. QED
    BY <2>2
<1>2. ASSUME NEW m \in 1 .. last, m - 1 \in S PROVE m \in S
  <2>1. PICK h : HandedTo(h, spans, m - 1)
    BY <1>2
  <2> DEFINE next == IF spans[m].fate \in {"submitted", "refused"} THEN Append(h[m - 1], spans[m].from)
                     ELSE h[m - 1]
             g == [n \in 0 .. m |-> IF n = m THEN next ELSE h[n]]
  <2>2. m \in Nat /\ m # 0 /\ \A n \in 1 .. m - 1 : n \in 0 .. m /\ n # m /\ n - 1 \in 0 .. m /\ n - 1 # m
    OBVIOUS
  <2>3. g[m] = next /\ \A n \in 0 .. m : n # m => g[n] = h[n]
    BY <2>2
  <2>4. m - 1 \in 0 .. m /\ m - 1 # m /\ 0 \in 0 .. m
    BY <2>2
  <2> HIDE DEF g
  <2>5. g[m] = IF spans[m].fate \in {"submitted", "refused"} THEN Append(g[m - 1], spans[m].from)
               ELSE g[m - 1]
    BY <2>3, <2>4
  <2> HIDE DEF next
  <2>6. ASSUME NEW n \in 1 .. m - 1
        PROVE  g[n] = IF spans[n].fate \in {"submitted", "refused"} THEN Append(g[n - 1], spans[n].from)
                      ELSE g[n - 1]
    <3>1. g[n] = h[n] /\ g[n - 1] = h[n - 1]
      BY <2>2, <2>3
    <3>2. QED
      BY <2>1, <3>1 DEF HandedTo
  <2>7. \A n \in 1 .. m : n = m \/ n \in 1 .. m - 1
    BY <2>2
  <2>8. g[0] = << >>
    BY <2>1, <2>2, <2>3, <2>4 DEF HandedTo
  <2>9. HandedTo(g, spans, m)
    <3>1. ASSUME NEW n \in 1 .. m
          PROVE  g[n] = IF spans[n].fate \in {"submitted", "refused"} THEN Append(g[n - 1], spans[n].from)
                        ELSE g[n - 1]
      <4>1. CASE n = m
        BY <2>5, <4>1
      <4>2. CASE n \in 1 .. m - 1
        BY <2>6, <4>2
      <4>3. QED
        BY <2>7, <4>1, <4>2
    <3>2. QED
      BY <2>8, <3>1 DEF HandedTo
  <2>10. QED
    BY <2>9
<1>3. \A m \in S : \E h : HandedTo(h, spans, m)
  OBVIOUS
<1> HIDE DEF S
<1>4. last \in S
  BY <1>1, <1>2, Upward
<1>5. QED
  BY <1>3, <1>4

\* ... and Handed is its last value.
LEMMA HandedSteps ==
  ASSUME NEW spans \in Seq(Span)
  PROVE  \E h : HandedTo(h, spans, Len(spans)) /\ Handed(spans) = h[Len(spans)]
<1> DEFINE Right(h) ==
      h = [n \in 0 .. Len(spans) |->
             IF n = 0 THEN << >>
             ELSE IF spans[n].fate \in {"submitted", "refused"} THEN Append(h[n - 1], spans[n].from)
             ELSE h[n - 1]]
<1>0. Len(spans) \in Nat
  OBVIOUS
<1>1. PICK h : HandedTo(h, spans, Len(spans))
  BY <1>0, HandedExists
<1> DEFINE f == [n \in 0 .. Len(spans) |-> h[n]]
<1>2. \A n \in 0 .. Len(spans) : f[n] = h[n]
  OBVIOUS
<1>3. f = [n \in 0 .. Len(spans) |-> f[n]]
  OBVIOUS
<1> HIDE DEF f
<1>4. ASSUME NEW n \in 0 .. Len(spans)
      PROVE  f[n] = IF n = 0 THEN << >>
                    ELSE IF spans[n].fate \in {"submitted", "refused"} THEN Append(f[n - 1], spans[n].from)
                    ELSE f[n - 1]
  <2>1. CASE n = 0
    BY <1>1, <1>2, <2>1 DEF HandedTo
  <2>2. CASE n # 0
    <3>1. n \in 1 .. Len(spans) /\ n - 1 \in 0 .. Len(spans)
      BY <1>0, <2>2
    <3>2. f[n] = h[n] /\ f[n - 1] = h[n - 1]
      BY <1>2, <3>1
    <3>3. QED
      BY <1>1, <2>2, <3>1, <3>2 DEF HandedTo
  <2>3. QED
    BY <2>1, <2>2
<1>5. Right(f)
  BY <1>3, <1>4
<1> DEFINE c == CHOOSE g : Right(g)
<1>6. Right(c)
  BY <1>5
<1>7. Handed(spans) = c[Len(spans)]
  BY DEF Handed
<1> HIDE DEF c
<1>8. \A n \in 0 .. Len(spans) :
        c[n] = IF n = 0 THEN << >>
               ELSE IF spans[n].fate \in {"submitted", "refused"} THEN Append(c[n - 1], spans[n].from)
               ELSE c[n - 1]
  BY <1>6, Zenon
<1> HIDE DEF Right
<1>9. 0 \in 0 .. Len(spans) /\ \A n \in 1 .. Len(spans) : n \in 0 .. Len(spans) /\ n # 0
  BY <1>0
<1>10. HandedTo(c, spans, Len(spans))
  BY <1>8, <1>9, Zenon DEF HandedTo
<1>11. QED
  BY <1>7, <1>10

\* One more span.
LEMMA HandedGrows ==
  ASSUME NEW spans \in Seq(Span), NEW span \in Span
  PROVE  Handed(Append(spans, span)) =
           IF span.fate \in {"submitted", "refused"} THEN Append(Handed(spans), span.from) ELSE Handed(spans)
<1> DEFINE n == Len(spans)
           more == Append(spans, span)
<1>1. n \in Nat /\ more \in Seq(Span) /\ Len(more) = n + 1 /\ more[n + 1] = span
      /\ \A i \in 1 .. n : more[i] = spans[i]
  OBVIOUS
<1>2. PICK h : HandedTo(h, spans, n) /\ Handed(spans) = h[n]
  BY HandedSteps
<1> HIDE DEF more
<1>3. PICK g : HandedTo(g, more, n + 1) /\ Handed(more) = g[n + 1]
  BY <1>1, HandedSteps
<1> HIDE DEF n
<1> DEFINE S == {m \in 0 .. n : g[m] = h[m]}
<1>4. 0 \in S
  BY <1>1, <1>2, <1>3 DEF HandedTo
<1>5. ASSUME NEW m \in 1 .. n, m - 1 \in S PROVE m \in S
  <2>1. m \in 1 .. n + 1 /\ m \in 0 .. n /\ g[m - 1] = h[m - 1] /\ more[m] = spans[m]
    BY <1>1, <1>5
  <2>2. g[m] = h[m]
    BY <1>2, <1>3, <2>1 DEF HandedTo
  <2>3. QED
    BY <2>1, <2>2
<1>6. n \in S
  <2>1. n \in 0 .. n
    BY <1>1
  <2> HIDE DEF S
  <2>2. QED
    BY <1>1, <1>4, <1>5, <2>1, Upward
<1>7. g[n] = h[n]
  BY <1>6
<1>8. g[n + 1] = IF span.fate \in {"submitted", "refused"} THEN Append(g[n], span.from) ELSE g[n]
  <2> DEFINE k == n + 1
  <2>1. k \in 1 .. k
    BY <1>1
  <2>2. HandedTo(g, more, k)
    BY <1>3
  <2> HIDE DEF k
  <2>3. g[k] = IF more[k].fate \in {"submitted", "refused"} THEN Append(g[k - 1], more[k].from) ELSE g[k - 1]
    BY <2>1, <2>2 DEF HandedTo
  <2>4. k - 1 = n /\ more[k] = span
    BY <1>1 DEF k
  <2>5. g[k] = IF span.fate \in {"submitted", "refused"} THEN Append(g[n], span.from) ELSE g[n]
    BY <2>3, <2>4
  <2>6. QED
    BY <2>5 DEF k
<1>9. QED
  BY <1>1, <1>2, <1>3, <1>7, <1>8 DEF more, n

LEMMA HandedType ==
  ASSUME NEW spans \in Seq(Span)
  PROVE  Handed(spans) \in Seq(Nat)
<1>1. PICK h : HandedTo(h, spans, Len(spans)) /\ Handed(spans) = h[Len(spans)]
  BY HandedSteps
<1> DEFINE S == {m \in 0 .. Len(spans) : h[m] \in Seq(Nat)}
<1>2. Len(spans) \in Nat
  OBVIOUS
<1>3. 0 \in S
  <2>1. << >> \in Seq(Nat)
    OBVIOUS
  <2>2. h[0] = << >>
    BY <1>1 DEF HandedTo
  <2>3. 0 \in 0 .. Len(spans)
    BY <1>2
  <2>4. QED
    BY <2>1, <2>2, <2>3
<1>4. ASSUME NEW m \in 1 .. Len(spans), m - 1 \in S PROVE m \in S
  <2>1. m \in 0 .. Len(spans) /\ h[m - 1] \in Seq(Nat)
    BY <1>2, <1>4
  <2>2. spans[m].from \in Nat
    <3>1. spans[m] \in Span
      OBVIOUS
    <3>2. QED
      BY <3>1 DEF Span
  <2>3. h[m] = IF spans[m].fate \in {"submitted", "refused"} THEN Append(h[m - 1], spans[m].from)
               ELSE h[m - 1]
    BY <1>1 DEF HandedTo
  <2>4. h[m] \in Seq(Nat)
    BY <2>1, <2>2, <2>3
  <2>5. QED
    BY <2>1, <2>4
<1>5. \A m \in S : h[m] \in Seq(Nat)
  OBVIOUS
<1> HIDE DEF S
<1>6. Len(spans) \in S
  <2>1. Len(spans) \in 0 .. Len(spans)
    BY <1>2
  <2>2. QED
    BY <1>2, <1>3, <1>4, <2>1, Upward
<1>7. QED
  BY <1>1, <1>5, <1>6

LEMMA NoneHanded == Handed(<< >>) = << >>
<1>1. << >> \in Seq(Span) /\ Len(<< >>) = 0
  OBVIOUS
<1>2. QED
  BY <1>1, HandedSteps DEF HandedTo

-----------------------------------------------------------------------------
(* The records that were handed on, and those that the buffer still begins. *)

\* With more bytes to come or none, the records of the stream are those handed on and
\* those from the buffer on.
Reads(s, b, e, spans) ==
  \A n \in e .. Len(s) : Decodable(s, n) = Handed(spans) \o RecordsFrom(s, n)[b]

HadRefused(spans) == \E i \in 1 .. Len(spans) : spans[i].fate = "refused"
HadLost(spans) == \E i \in 1 .. Len(spans) : spans[i].fate = "lost"

\* A connection that waits has no complete record, and one that has ended had none,
\* unless it lost its buffer.
Walk(s, place, b, e, spans) ==
  /\ place # "ended" => Reads(s, b, e, spans)
  /\ place = "receiving" /\ ~HadRefused(spans) => RecordsFrom(s, e)[b] = << >>
  /\ place = "ended" => /\ IsPrefix(Handed(spans), Decodable(s, e))
                        /\ ~HadRefused(spans) /\ ~HadLost(spans) =>
                             Handed(spans) = Decodable(s, e)

\* What ChunksDoNotMatter excludes is fixed, or happens once and for all.
Generous(c) == c \notin overflown /\ limits.scan >= limits.buffer /\ NoNeighbours(stream[c])

WalkInv ==
  \A c \in Clients :
    /\ conn[c] = "overflowing" => c \in overflown
    /\ c \notin overflown => Size(c) <= limits.buffer
    /\ Generous(c) => Walk(stream[c], conn[c], from[c], to[c], taken[c])

\* What TypeOK says of one connection.
LEMMA StreamFacts ==
  ASSUME TypeOK, NEW c \in Clients
  PROVE  /\ stream[c] \in Seq(Byte) /\ from[c] \in Nat /\ to[c] \in Nat
         /\ from[c] <= to[c] /\ to[c] <= Len(stream[c]) /\ Len(stream[c]) \in Nat
         /\ HeaderSize \in Nat \ {0, 1} /\ limits.scan \in Nat /\ limits.buffer \in Nat
         /\ taken[c] \in Seq(Span)
<1>1. stream[c] \in Seq(Byte)
  BY ConstantsAssumption DEF TypeOK
<1>2. limits.scan \in Nat /\ limits.buffer \in Nat
  BY ConstantsAssumption DEF TypeOK
<1>3. from[c] \in Nat /\ to[c] \in Nat /\ from[c] <= to[c] /\ to[c] <= Len(stream[c])
  BY DEF TypeOK
<1>4. taken[c] \in Seq(Span)
  BY DEF TypeOK, Span
<1>5. Len(stream[c]) \in Nat /\ HeaderSize \in Nat \ {0, 1}
  BY <1>1, ConstantsAssumption
<1>6. QED
  BY <1>1, <1>2, <1>3, <1>4, <1>5

LEMMA LaterEnds ==
  ASSUME TypeOK, NEW c \in Clients, NEW m \in to[c] .. Len(stream[c])
  PROVE  /\ m \in 0 .. Len(stream[c]) /\ m \in Nat /\ to[c] <= m
         /\ \A p \in 0 .. to[c] : p \in 0 .. m
BY StreamFacts

\* What a cut adds to the history.
LEMMA CutHistory ==
  ASSUME TypeOK, NEW c \in Clients, NEW n, NEW fate, Cut(c, n, fate),
         fate \in {"submitted", "refused"} => n # 0
  PROVE  /\ Handed(taken'[c]) = IF fate \in {"submitted", "refused"}
                                THEN Append(Handed(taken[c]), from[c]) ELSE Handed(taken[c])
         /\ HadRefused(taken'[c]) <=> HadRefused(taken[c]) \/ fate = "refused"
<1>1. taken[c] \in Seq(Span) /\ from[c] \in Nat
  BY StreamFacts
<1>2. CASE n = 0
  BY <1>2, CutEffect
<1>3. CASE n # 0
  <2> DEFINE span == [fate |-> fate, from |-> from[c], to |-> from[c] + n]
  <2>1. taken'[c] = Append(taken[c], span)
    BY <1>3, CutEffect
  <2>2. span \in Span /\ span.fate = fate /\ span.from = from[c]
    BY <1>1, SizeType DEF Span, Cut
  <2> HIDE DEF span
  <2>3. Handed(taken'[c]) = IF fate \in {"submitted", "refused"}
                            THEN Append(Handed(taken[c]), from[c]) ELSE Handed(taken[c])
    BY <1>1, <2>1, <2>2, HandedGrows
  <2>4. HadRefused(taken'[c]) <=> HadRefused(taken[c]) \/ fate = "refused"
    <3> DEFINE k == Len(taken[c])
    <3>1. /\ k \in Nat /\ Len(Append(taken[c], span)) = k + 1 /\ Append(taken[c], span)[k + 1] = span
          /\ \A i \in 1 .. k : Append(taken[c], span)[i] = taken[c][i]
      BY <1>1, <2>2
    <3> HIDE DEF k
    <3>2. k + 1 \in 1 .. k + 1 /\ \A i \in 1 .. k + 1 : i = k + 1 \/ i \in 1 .. k
      BY <3>1
    <3>3. \A i \in 1 .. k : i \in 1 .. k + 1
      BY <3>1
    <3>4. HadRefused(Append(taken[c], span)) <=> \E i \in 1 .. k + 1 : Append(taken[c], span)[i].fate = "refused"
      BY <3>1 DEF HadRefused
    <3>5. HadRefused(taken[c]) <=> \E i \in 1 .. k : taken[c][i].fate = "refused"
      BY DEF HadRefused, k
    <3>6. QED
      BY <2>1, <2>2, <3>1, <3>2, <3>3, <3>4, <3>5
  <2>5. QED
    BY <2>3, <2>4
<1>4. QED
  BY <1>2, <1>3

\* A buffer that is lost with bytes in it is remembered.
LEMMA LossIsRemembered ==
  ASSUME TypeOK, NEW c \in Clients, NEW n, Cut(c, n, "lost"), n # 0
  PROVE  HadLost(taken'[c])
<1> DEFINE span == [fate |-> "lost", from |-> from[c], to |-> from[c] + n]
<1>1. taken'[c] = Append(taken[c], span) /\ taken[c] \in Seq(Span)
  BY CutEffect, StreamFacts
<1>2. Len(taken[c]) + 1 \in 1 .. Len(taken'[c]) /\ taken'[c][Len(taken[c]) + 1] = span
  BY <1>1
<1>3. QED
  BY <1>2 DEF HadLost

\* Concatenation, in the direction in which the cuts need it.
LEMMA Joins ==
  ASSUME NEW u \in Seq(Nat), NEW v \in Seq(Nat), NEW w \in Seq(Nat)
  PROVE  u \o (v \o w) = (u \o v) \o w
<1>1. (u \o v) \o w = u \o (v \o w)
  BY ConcatAssociative
<1>2. QED
  BY <1>1

LEMMA JoinsOne ==
  ASSUME NEW u \in Seq(Nat), NEW x \in Nat
  PROVE  Append(u, x) = u \o <<x>> /\ u \o << >> = u /\ << >> \o u = u
BY AppendIsConcat, ConcatEmptySeq

Own(c, fate) == IF fate \in {"submitted", "refused"} THEN <<from[c]>> ELSE << >>

\* A cut is right if the records from the buffer on begin with the one it hands on.
LEMMA WalkCut ==
  ASSUME TypeOK, NEW c \in Clients, NEW n, NEW fate, Cut(c, n, fate),
         fate \in {"submitted", "refused"} => n # 0, NEW place,
         Walk(stream[c], conn[c], from[c], to[c], taken[c]), conn[c] # "ended", place # "ended",
         \A m \in to[c] .. Len(stream[c]) :
           RecordsFrom(stream[c], m)[from[c]] = Own(c, fate) \o RecordsFrom(stream[c], m)[from[c] + n],
         place = "receiving" => fate = "refused" \/ RecordsFrom(stream[c], to[c])[from[c] + n] = << >>
  PROVE  Walk(stream[c], place, from'[c], to[c], taken'[c])
<1>1. from'[c] = from[c] + n /\ n \in Nat /\ from[c] + n \in 0 .. to[c]
  <2>1. from'[c] = from[c] + n /\ from'[c] <= to[c]
    BY CutEffect
  <2>2. n \in Nat
    BY SizeType DEF Cut
  <2>3. QED
    BY <2>1, <2>2, StreamFacts
<1> DEFINE s == stream[c]
           old == Handed(taken[c])
           new == Handed(taken'[c])
           own == Own(c, fate)
<1>2. new = old \o own
  <2>1. old \in Seq(Nat) /\ from[c] \in Nat
    BY StreamFacts, HandedType
  <2> HIDE DEF old, new
  <2>2. Append(old, from[c]) = old \o <<from[c]>> /\ old \o << >> = old
    BY <2>1, JoinsOne
  <2>3. QED
    BY <2>2, CutHistory DEF old, new, Own
<1>3. old \in Seq(Nat) /\ own \in Seq(Nat)
  <2>1. <<from[c]>> \in Seq(Nat) /\ << >> \in Seq(Nat)
    BY StreamFacts
  <2>2. QED
    BY <2>1, StreamFacts, HandedType DEF Own
<1>4. ASSUME NEW m \in to[c] .. Len(s) PROVE Decodable(s, m) = new \o RecordsFrom(s, m)[from'[c]]
  <2> DEFINE rest == RecordsFrom(s, m)[from[c] + n]
  <2>1. Decodable(s, m) = old \o RecordsFrom(s, m)[from[c]]
    BY DEF Walk, Reads
  <2>2. RecordsFrom(s, m)[from[c]] = own \o rest
    OBVIOUS
  <2>3. rest \in Seq(Nat)
    <3>1. from[c] + n \in 0 .. m /\ m \in 0 .. Len(s) /\ 0 <= from[c] + n
      BY <1>1, LaterEnds, StreamFacts
    <3>2. QED
      BY <3>1, RecordsFromSteps, StreamFacts DEF RecordsOf
  <2> HIDE DEF rest, new, old, own
  <2>4. old \o (own \o rest) = (old \o own) \o rest
    BY <1>3, <2>3, Joins
  <2>5. QED
    BY <1>1, <1>2, <2>1, <2>2, <2>4 DEF rest
<1>5. Reads(s, from'[c], to[c], taken'[c])
  BY <1>4 DEF Reads
<1>6. place = "receiving" /\ ~HadRefused(taken'[c]) => RecordsFrom(s, to[c])[from'[c]] = << >>
  BY <1>1, CutHistory
<1>7. QED
  BY <1>5, <1>6 DEF Walk

\* A header that has room in the buffer would be found there.
LEMMA NoneThere ==
  ASSUME TypeOK, NEW c \in Clients, NEW p \in Nat, NEW i \in Nat,
         p < i, i <= p + limits.scan, i \notin StartsBehind(c, p), i + HeaderSize <= to[c]
  PROVE  stream[c][i + 1] = None
<1>1. i \in p + 1 .. p + limits.scan
  BY StreamFacts
<1>2. QED
  BY <1>1 DEF StartsBehind, Plausible

\* Before the header that was found there is none.
LEMMA FoundThere ==
  ASSUME TypeOK, NEW c \in Clients, NEW p \in Nat, StartsBehind(c, p) # {}
  PROVE  LET q == Min(StartsBehind(c, p))
         IN  /\ q \in Nat /\ p < q /\ q <= p + limits.scan /\ q + HeaderSize <= to[c]
             /\ \A i \in Nat : p < i /\ i < q => stream[c][i + 1] = None
<1> DEFINE S == StartsBehind(c, p)
           q == Min(S)
<1>1. limits.scan \in Nat /\ HeaderSize \in Nat /\ to[c] \in Nat
  BY StreamFacts
<1>2. S \in SUBSET Nat /\ S # {} /\ \A i \in S : i \in Nat /\ p < i /\ i <= p + limits.scan /\ i + HeaderSize <= to[c]
  BY <1>1 DEF StartsBehind, Plausible
<1> HIDE DEF S
<1>3. q \in S /\ \A i \in S : q <= i
  BY <1>2, LeastOfNaturals
<1>4. q \in Nat /\ p < q /\ q <= p + limits.scan /\ q + HeaderSize <= to[c]
  BY <1>2, <1>3
<1> HIDE DEF q
<1>5. ASSUME NEW i \in Nat, p < i, i < q PROVE stream[c][i + 1] = None
  <2>1. i \notin S /\ i <= p + limits.scan /\ i + HeaderSize <= to[c]
    BY <1>1, <1>3, <1>4, <1>5
  <2>2. QED
    BY <1>5, <2>1, NoneThere DEF S
<1>6. QED
  BY <1>4, <1>5 DEF S, q

\* The records are the same from a byte on before which none starts.
LEMMA SkipInBuffer ==
  ASSUME TypeOK, NEW c \in Clients, NEW p \in 0 .. to[c], NEW q \in 0 .. to[c], p <= q,
         \A i \in Nat : p <= i /\ i < q => stream[c][i + 1] = None,
         NEW m \in to[c] .. Len(stream[c])
  PROVE  RecordsFrom(stream[c], m)[p] = RecordsFrom(stream[c], m)[q]
<1>1. stream[c] \in Seq(Byte) /\ m \in 0 .. Len(stream[c]) /\ p \in 0 .. m /\ q \in p .. m
  BY StreamFacts
<1>2. \A i \in p .. q - 1 : i \in Nat /\ p <= i /\ i < q
  BY StreamFacts
<1>3. \A i \in p .. q - 1 : stream[c][i + 1] = None
  BY <1>2
<1> DEFINE s == stream[c]
<1> HIDE DEF s
<1>4. QED
  BY <1>1, <1>3, RecordsSkip DEF s

LEMMA RecordsAreSequences ==
  ASSUME TypeOK, NEW c \in Clients, NEW m \in to[c] .. Len(stream[c]), NEW p \in 0 .. to[c]
  PROVE  RecordsFrom(stream[c], m)[p] \in Seq(Nat) /\ << >> \o RecordsFrom(stream[c], m)[p] = RecordsFrom(stream[c], m)[p]
<1>1. p \in 0 .. m /\ m \in 0 .. Len(stream[c]) /\ 0 <= p
  BY LaterEnds, StreamFacts
<1>2. RecordsFrom(stream[c], m)[p] \in Seq(Nat)
  BY <1>1, RecordsFromSteps, StreamFacts DEF RecordsOf
<1>3. QED
  BY <1>2, ConcatEmptySeq

\* Where a prefix is bad, no record starts.
LEMMA BadPrefixIsNone ==
  ASSUME TypeOK, NEW c \in Clients, BadPrefix(c)
  PROVE  from[c] + HeaderSize <= to[c] /\ stream[c][from[c] + 1] = None
<1>1. from[c] + HeaderSize <= to[c]
  BY StreamFacts DEF BadPrefix, Size
<1>2. QED
  BY <1>1 DEF BadPrefix, Plausible

\* What the steps that cut without handing on have to show.
LEMMA GarbageCut ==
  ASSUME TypeOK, NEW c \in Clients, NEW n, NEW fate \in {"garbage", "undecodable"}, Cut(c, n, fate), NEW place,
         Walk(stream[c], conn[c], from[c], to[c], taken[c]), conn[c] # "ended", place # "ended",
         \A m \in to[c] .. Len(stream[c]) :
           RecordsFrom(stream[c], m)[from[c]] = RecordsFrom(stream[c], m)[from[c] + n],
         place = "receiving" => RecordsFrom(stream[c], to[c])[from[c] + n] = << >>
  PROVE  Walk(stream[c], place, from'[c], to[c], taken'[c])
<1>1. from[c] + n \in 0 .. to[c]
  <2>1. from'[c] = from[c] + n /\ from'[c] <= to[c]
    BY CutEffect
  <2>2. n \in Nat
    BY SizeType DEF Cut
  <2>3. QED
    BY <2>1, <2>2, StreamFacts
<1>2. Own(c, fate) = << >>
  BY DEF Own
<1>3. \A m \in to[c] .. Len(stream[c]) :
        RecordsFrom(stream[c], m)[from[c]] = Own(c, fate) \o RecordsFrom(stream[c], m)[from[c] + n]
  BY <1>1, <1>2, RecordsAreSequences
<1>4. QED
  BY <1>3, WalkCut

LEMMA ResyncWalks ==
  ASSUME TypeOK, NEW c \in Clients, Resync(c), Walk(stream[c], conn[c], from[c], to[c], taken[c])
  PROVE  Walk(stream[c], conn[c], from'[c], to[c], taken'[c])
<1> DEFINE q == Min(StartsBehind(c, from[c]))
           n == q - from[c]
<1>1. conn[c] = "processing" /\ BadPrefix(c) /\ StartsBehind(c, from[c]) # {} /\ Leave(c, n, "garbage")
  BY DEF Resync, Leave
<1>2. /\ q \in Nat /\ from[c] < q /\ q + HeaderSize <= to[c]
      /\ \A i \in Nat : from[c] < i /\ i < q => stream[c][i + 1] = None
  BY <1>1, FoundThere, StreamFacts
<1> HIDE DEF q
<1>3. Cut(c, n, "garbage") /\ from[c] + n = q /\ from[c] \in 0 .. to[c] /\ q \in 0 .. to[c] /\ from[c] <= q
  BY <1>1, <1>2, StreamFacts DEF Cut, Size, Fates
<1>4. \A i \in Nat : from[c] <= i /\ i < q => stream[c][i + 1] = None
  <2>1. \A i \in Nat : from[c] <= i => i = from[c] \/ from[c] < i
    BY StreamFacts
  <2>2. QED
    BY <1>1, <1>2, <2>1, BadPrefixIsNone
<1>5. \A m \in to[c] .. Len(stream[c]) : RecordsFrom(stream[c], m)[from[c]] = RecordsFrom(stream[c], m)[q]
  BY <1>3, <1>4, SkipInBuffer
<1> HIDE DEF n
<1>6. QED
  BY <1>1, <1>3, <1>5, GarbageCut

LEMMA NoStartWalks ==
  ASSUME TypeOK, NEW c \in Clients, NoStart(c), Walk(stream[c], conn[c], from[c], to[c], taken[c]),
         Size(c) <= limits.buffer, limits.scan >= limits.buffer
  PROVE  Walk(stream[c], "receiving", from'[c], to[c], taken'[c])
<1> DEFINE n == IF Size(c) > HeaderSize THEN Size(c) - (HeaderSize - 1) ELSE 0
           q == from[c] + n
<1>1. conn[c] = "processing" /\ BadPrefix(c) /\ StartsBehind(c, from[c]) = {} /\ Leave(c, n, "garbage")
  <2>1. Leave(c, n, "garbage")
    BY NoStartLeaves
  <2>2. QED
    BY <2>1 DEF NoStart
<1>2. Size(c) = to[c] - from[c] /\ Size(c) \in Nat
  BY SizeType DEF Size
<1>3. Cut(c, n, "garbage") /\ q \in Nat /\ from[c] <= q /\ q <= to[c] /\ to[c] < q + HeaderSize + 1
      /\ (to[c] < q + HeaderSize \/ q = from[c])
  BY <1>1, <1>2, StreamFacts DEF Cut, Fates
<1>4. \A i \in Nat : from[c] <= i /\ i + HeaderSize <= to[c] => stream[c][i + 1] = None
  <2> SUFFICES ASSUME NEW i \in Nat, from[c] <= i, i + HeaderSize <= to[c] PROVE stream[c][i + 1] = None
    OBVIOUS
  <2>1. CASE i = from[c]
    BY <1>1, <2>1, BadPrefixIsNone
  <2>2. CASE i # from[c]
    <3>1. from[c] < i /\ i <= from[c] + limits.scan
      BY <1>2, <2>2, StreamFacts
    <3>2. QED
      BY <1>1, <3>1, NoneThere, StreamFacts
  <2>3. QED
    BY <2>1, <2>2
<1>5. \A i \in Nat : from[c] <= i /\ i < q => i + HeaderSize <= to[c]
  BY <1>2, StreamFacts
<1> HIDE DEF n, q
<1>6. from[c] \in 0 .. to[c] /\ q \in 0 .. to[c]
  BY <1>3, StreamFacts
<1>7. \A m \in to[c] .. Len(stream[c]) : RecordsFrom(stream[c], m)[from[c]] = RecordsFrom(stream[c], m)[q]
  BY <1>3, <1>4, <1>5, <1>6, SkipInBuffer
<1>8. RecordsFrom(stream[c], to[c])[q] = << >>
  <2>1. \A i \in q .. to[c] - HeaderSize : i \in Nat /\ from[c] <= i /\ i + HeaderSize <= to[c]
    BY <1>3, StreamFacts
  <2>2. Heads(stream[c], to[c], q) = {}
    BY <1>4, <2>1 DEF Heads
  <2>3. stream[c] \in Seq(Byte) /\ to[c] \in 0 .. Len(stream[c])
    BY StreamFacts
  <2>4. QED
    BY <1>6, <2>2, <2>3, NoHeadNoRecord
<1>9. QED
  BY <1>1, <1>3, <1>7, <1>8, GarbageCut DEF q

\* At a plausible header that starts the buffer.
LEMMA HeadInBuffer ==
  ASSUME TypeOK, NEW c \in Clients, Plausible(c, from[c]), NEW m \in to[c] .. Len(stream[c])
  PROVE  LET k == Kind(c)
             s == stream[c]
             fits == from[c] + Needed[k] <= m /\ from[c] + RecordLength[k] <= m
         IN  /\ ~fits => RecordsFrom(s, m)[from[c]] = << >>
             /\ fits /\ RecordLength[k] = 0 => RecordsFrom(s, m)[from[c]] = RecordsFrom(s, m)[from[c] + 1]
             /\ fits /\ RecordLength[k] # 0 =>
                  RecordsFrom(s, m)[from[c]] =
                    (IF k \in Parses THEN <<from[c]>> ELSE << >>) \o RecordsFrom(s, m)[from[c] + RecordLength[k]]
<1>1. /\ stream[c] \in Seq(Byte) /\ m \in 0 .. Len(stream[c]) /\ from[c] \in 0 .. m
      /\ from[c] + HeaderSize <= to[c] /\ to[c] <= m /\ stream[c][from[c] + 1] # None
  BY StreamFacts DEF Plausible
<1>2. from[c] + HeaderSize <= m
  BY <1>1, StreamFacts
<1> DEFINE s == stream[c]
           p == from[c]
<1> HIDE DEF s, p
<1>3. s \in Seq(Byte) /\ m \in 0 .. Len(s) /\ p \in 0 .. m /\ p + HeaderSize <= m /\ s[p + 1] # None
  BY <1>1, <1>2 DEF s, p
<1>4. Kind(c) = s[p + 1]
  BY DEF Kind, s, p
<1>5. LET k == s[p + 1]
          fits == p + Needed[k] <= m /\ p + RecordLength[k] <= m
      IN  /\ k \in Starts
          /\ ~fits => RecordsFrom(s, m)[p] = << >>
          /\ fits /\ RecordLength[k] = 0 => RecordsFrom(s, m)[p] = RecordsFrom(s, m)[p + 1]
          /\ fits /\ RecordLength[k] # 0 =>
               RecordsFrom(s, m)[p] =
                 (IF k \in Parses THEN <<p>> ELSE << >>) \o RecordsFrom(s, m)[p + RecordLength[k]]
  BY <1>3, RecordsAtHead
<1>6. QED
  BY <1>4, <1>5 DEF s, p

\* A header without a valid length: the search behind it misses none, if none is at
\* the very next byte.
LEMMA DropHeaderWalks ==
  ASSUME TypeOK, NEW c \in Clients, DropHeader(c), Walk(stream[c], conn[c], from[c], to[c], taken[c]),
         NoNeighbours(stream[c])
  PROVE  Walk(stream[c], conn[c], from'[c], to[c], taken'[c])
<1> DEFINE found == StartsBehind(c, from[c] + 1)
           n == IF found = {} THEN 1 ELSE Min(found) - from[c]
           q == from[c] + n
<1>1. /\ conn[c] = "processing" /\ Plausible(c, from[c]) /\ Size(c) >= Needed[Kind(c)]
      /\ RecordLength[Kind(c)] = 0 /\ Leave(c, n, "garbage")
  BY DEF DropHeader, BadHeader, Headed, Leave
<1>2. Needed[Kind(c)] \in Nat /\ Kind(c) \in Starts /\ from[c] + HeaderSize <= to[c]
  BY <1>1, KindType DEF Plausible
<1>3. from[c] + Needed[Kind(c)] <= to[c] /\ from[c] + 1 \in 0 .. to[c] /\ from[c] + 1 < to[c] + 1
  BY <1>1, <1>2, StreamFacts DEF Size
<1>4. ASSUME NEW m \in to[c] .. Len(stream[c])
      PROVE  RecordsFrom(stream[c], m)[from[c]] = RecordsFrom(stream[c], m)[from[c] + 1]
  <2>1. from[c] + Needed[Kind(c)] <= m /\ from[c] + RecordLength[Kind(c)] <= m
    BY <1>1, <1>2, <1>3, StreamFacts
  <2>2. QED
    BY <1>1, <2>1, HeadInBuffer
<1>5. /\ q \in 0 .. to[c] /\ from[c] + 1 <= q /\ Cut(c, n, "garbage")
      /\ \A i \in Nat : from[c] + 1 <= i /\ i < q => stream[c][i + 1] = None
  <2>1. CASE found = {}
    <3>1. n = 1 /\ q = from[c] + 1
      BY <2>1
    <3>2. Cut(c, n, "garbage")
      BY <1>1, <1>2, <3>1, StreamFacts DEF Cut, Size, Fates
    <3>3. QED
      BY <1>3, <3>1, <3>2, StreamFacts
  <2>2. CASE found # {}
    <3>1. from[c] + 1 \in Nat
      BY StreamFacts
    <3>2. /\ Min(found) \in Nat /\ from[c] + 1 < Min(found) /\ Min(found) + HeaderSize <= to[c]
          /\ \A i \in Nat : from[c] + 1 < i /\ i < Min(found) => stream[c][i + 1] = None
      BY <2>2, <3>1, FoundThere
    <3>3. n = Min(found) - from[c]
      BY <2>2
    <3> HIDE DEF found, n
    <3>4. q = Min(found)
      BY <3>2, <3>3, StreamFacts
    <3> HIDE DEF q
    <3>5. stream[c][from[c] + 2] = None
      <4> DEFINE s == stream[c]
                 p == from[c] + 1
      <4>1. p \in 1 .. Len(s) - 1 /\ s[p] # None /\ RecordLength[s[p]] = 0
        BY <1>1, <3>2, StreamFacts DEF Plausible, Kind
      <4> HIDE DEF p
      <4>2. s[p + 1] = None
        BY <4>1 DEF NoNeighbours
      <4>3. p + 1 = from[c] + 2
        BY StreamFacts DEF p
      <4>4. QED
        BY <4>2, <4>3
    <3>6. ASSUME NEW i \in Nat, from[c] + 1 <= i, i < q PROVE stream[c][i + 1] = None
      <4>1. CASE i = from[c] + 1
        <5>1. i + 1 = from[c] + 2
          BY <4>1, StreamFacts
        <5>2. QED
          BY <3>5, <5>1
      <4>2. CASE i # from[c] + 1
        <5>1. from[c] + 1 < i /\ i < Min(found)
          BY <3>4, <3>6, <4>2, StreamFacts
        <5>2. QED
          BY <3>2, <5>1
      <4>3. QED
        BY <4>1, <4>2
    <3>7. Cut(c, n, "garbage")
      BY <1>1, <3>2, <3>3, StreamFacts DEF Cut, Size, Fates
    <3>8. QED
      BY <3>2, <3>4, <3>6, <3>7, StreamFacts
  <2>3. QED
    BY <2>1, <2>2
<1> HIDE DEF n, found
<1>6. ASSUME NEW m \in to[c] .. Len(stream[c])
      PROVE  RecordsFrom(stream[c], m)[from[c]] = RecordsFrom(stream[c], m)[from[c] + n]
  <2> DEFINE p == from[c] + 1
  <2>1. p \in 0 .. to[c] /\ q \in 0 .. to[c] /\ p <= q /\ \A i \in Nat : p <= i /\ i < q => stream[c][i + 1] = None
    BY <1>3, <1>5
  <2> HIDE DEF p, q
  <2>2. RecordsFrom(stream[c], m)[p] = RecordsFrom(stream[c], m)[q]
    BY <2>1, SkipInBuffer
  <2>3. QED
    BY <1>4, <2>2 DEF p, q
<1>7. QED
  BY <1>1, <1>5, <1>6, GarbageCut

\* A complete record, decodable or not, is what a reader of the whole stream meets.
LEMMA RecordWalks ==
  ASSUME TypeOK, SubmitComplete, NEW c \in Clients,
         NEW fate \in {"undecodable", "submitted", "refused"},
         \/ fate = "undecodable" /\ DropRecord(c)
         \/ fate = "submitted" /\ Submitted(c)
         \/ fate = "refused" /\ SubmitRefused(c),
         Walk(stream[c], conn[c], from[c], to[c], taken[c]),
         NEW place, place # "ended", place = "receiving" => fate = "refused"
  PROVE  Walk(stream[c], place, from'[c], to[c], taken'[c])
<1> DEFINE n == RecordLength[Kind(c)]
<1>1. Cut(c, n, fate) /\ n # 0
  BY RecordCuts
<1>2. Complete(c) /\ conn[c] \in {"processing", "submitting"}
      /\ (Kind(c) \in Parses <=> fate \in {"submitted", "refused"})
  BY DEF DropRecord, Submitted, SubmitRefused, SubmitComplete
<1>3. Plausible(c, from[c]) /\ Size(c) >= Needed[Kind(c)] /\ Size(c) >= n
  BY <1>2 DEF Complete, Headed
<1>4. n \in Nat /\ Needed[Kind(c)] \in Nat
  BY <1>3, KindType
<1>5. from[c] + Needed[Kind(c)] <= to[c] /\ from[c] + n <= to[c]
  BY <1>3, <1>4, StreamFacts DEF Size
<1>6. (IF Kind(c) \in Parses THEN <<from[c]>> ELSE << >>) = Own(c, fate)
  BY <1>2 DEF Own
<1>7. ASSUME NEW m \in to[c] .. Len(stream[c])
      PROVE  RecordsFrom(stream[c], m)[from[c]] = Own(c, fate) \o RecordsFrom(stream[c], m)[from[c] + n]
  <2>1. from[c] + Needed[Kind(c)] <= m /\ from[c] + n <= m
    BY <1>4, <1>5, StreamFacts
  <2>2. QED
    BY <1>1, <1>3, <1>6, <2>1, HeadInBuffer
<1> HIDE DEF n
<1>8. conn[c] # "ended"
  BY <1>2
<1>9. QED
  BY <1>1, <1>7, <1>8, WalkCut

\* It waits when no record is complete.
LEMMA WaitWalks ==
  ASSUME TypeOK, NEW c \in Clients, Wait(c), Walk(stream[c], conn[c], from[c], to[c], taken[c])
  PROVE  Walk(stream[c], "receiving", from[c], to[c], taken[c])
<1>1. to[c] \in to[c] .. Len(stream[c]) /\ stream[c] \in Seq(Byte) /\ to[c] \in 0 .. Len(stream[c])
      /\ from[c] \in 0 .. to[c]
  BY StreamFacts
<1>2. RecordsFrom(stream[c], to[c])[from[c]] = << >>
  <2>1. CASE Size(c) < HeaderSize
    <3>1. ~(\E q \in from[c] .. to[c] - HeaderSize : TRUE)
      BY <2>1, StreamFacts DEF Size
    <3>2. Heads(stream[c], to[c], from[c]) = {}
      BY <3>1 DEF Heads
    <3>3. QED
      BY <1>1, <3>2, NoHeadNoRecord
  <2>2. CASE Plausible(c, from[c]) /\ ~Headed(c)
    <3>1. Needed[Kind(c)] \in Nat /\ Size(c) < Needed[Kind(c)]
      BY <2>2, KindType, SizeType DEF Headed
    <3>2. ~(from[c] + Needed[Kind(c)] <= to[c])
      BY <3>1, StreamFacts DEF Size
    <3>3. QED
      BY <1>1, <2>2, <3>2, HeadInBuffer
  <2>3. CASE Headed(c) /\ RecordLength[Kind(c)] > Size(c)
    <3>1. Plausible(c, from[c]) /\ RecordLength[Kind(c)] \in Nat
      BY <2>3, KindType DEF Headed
    <3>2. ~(from[c] + RecordLength[Kind(c)] <= to[c])
      BY <2>3, <3>1, StreamFacts DEF Size
    <3>3. QED
      BY <1>1, <3>1, <3>2, HeadInBuffer
  <2>4. QED
    BY <2>1, <2>2, <2>3 DEF Wait
<1>3. conn[c] # "ended"
  BY DEF Wait
<1>4. QED
  BY <1>2, <1>3 DEF Walk

\* A connection that is open has handed on a prefix of what its stream has, and one
\* that waits all of it.
LEMMA OpenReads ==
  ASSUME TypeOK, NEW c \in Clients, NEW place, place # "ended",
         Walk(stream[c], place, from[c], to[c], taken[c])
  PROVE  /\ IsPrefix(Handed(taken[c]), Decodable(stream[c], to[c]))
         /\ place = "receiving" /\ ~HadRefused(taken[c]) =>
              Handed(taken[c]) = Decodable(stream[c], to[c])
<1> DEFINE old == Handed(taken[c])
           rest == RecordsFrom(stream[c], to[c])[from[c]]
           all == Decodable(stream[c], to[c])
<1>1. to[c] \in to[c] .. Len(stream[c]) /\ from[c] \in 0 .. to[c]
  BY StreamFacts
<1>2. all = old \o rest
  BY <1>1 DEF Walk, Reads
<1>3. old \in Seq(Nat) /\ rest \in Seq(Nat)
  BY <1>1, HandedType, StreamFacts, RecordsAreSequences
<1>4. place = "receiving" /\ ~HadRefused(taken[c]) => rest = << >>
  BY DEF Walk
<1> HIDE DEF old, rest, all
<1>5. /\ Len(old) \in Nat /\ Len(rest) \in Nat /\ all \in Seq(Nat) /\ Len(all) = Len(old) + Len(rest)
      /\ \A i \in 1 .. Len(old) : all[i] = old[i]
  BY <1>2, <1>3, ConcatProperties
<1>6. SubSeq(old, 1, Len(old)) = SubSeq(all, 1, Len(old))
  BY <1>3, <1>5
<1>7. IsPrefix(old, all)
  BY <1>5, <1>6 DEF IsPrefix
<1>8. place = "receiving" /\ ~HadRefused(taken[c]) => old = all
  BY <1>2, <1>3, <1>4, ConcatEmptySeq
<1>9. QED
  BY <1>7, <1>8 DEF old, all

LEMMA EndWalks ==
  ASSUME TypeOK, NEW c \in Clients, NEW fate \in Ends, End(c, fate), conn[c] # "ended",
         Walk(stream[c], conn[c], from[c], to[c], taken[c]),
         fate = "lost" => Size(c) > 0, fate # "lost" => conn[c] = "receiving"
  PROVE  Walk(stream[c], "ended", from'[c], to[c], taken'[c])
<1>1. Cut(c, Size(c), fate) /\ fate \notin {"submitted", "refused"}
  BY EndCuts DEF Ends
<1>2. Handed(taken'[c]) = Handed(taken[c]) /\ (HadRefused(taken'[c]) <=> HadRefused(taken[c]))
  BY <1>1, CutHistory
<1>3. /\ IsPrefix(Handed(taken[c]), Decodable(stream[c], to[c]))
      /\ conn[c] = "receiving" /\ ~HadRefused(taken[c]) =>
           Handed(taken[c]) = Decodable(stream[c], to[c])
  BY OpenReads
<1>4. fate = "lost" => HadLost(taken'[c])
  <2> SUFFICES ASSUME fate = "lost" PROVE HadLost(taken'[c])
    OBVIOUS
  <2>1. Size(c) # 0
    BY SizeType
  <2>2. QED
    BY <1>1, <2>1, LossIsRemembered
<1>5. QED
  BY <1>2, <1>3, <1>4 DEF Walk

\* An empty buffer holds no record: so a connection begins.
LEMMA ConnectWalks ==
  ASSUME TypeOK, NEW c \in Clients, from[c] = to[c], Walk(stream[c], "away", from[c], to[c], taken[c])
  PROVE  Walk(stream[c], "receiving", from[c], to[c], taken[c])
<1>1. Heads(stream[c], to[c], to[c]) = {}
  BY StreamFacts DEF Heads
<1>2. RecordsFrom(stream[c], to[c])[from[c]] = << >>
  BY <1>1, StreamFacts, NoHeadNoRecord
<1>3. QED
  BY <1>2 DEF Walk

\* The steps of one connection leave the others alone.
LEMMA OthersStay ==
  ASSUME TypeOK, NEW c \in Clients,
         \/ Connect(c) \/ TurnAway(c) \/ Recv(c) \/ ConnectionEnds(c) \/ TimeOut(c)
         \/ Vanish(c) \/ Process(c) \/ Submitted(c),
         NEW d \in Clients \ {c}
  PROVE  /\ conn'[d] = conn[d] /\ from'[d] = from[d] /\ to'[d] = to[d] /\ taken'[d] = taken[d]
         /\ d \in overflown' <=> d \in overflown
<1>1. /\ conn \in [Clients -> Places] /\ from \in [Clients -> Nat] /\ to \in [Clients -> Nat]
      /\ taken \in [Clients -> Seq(Span)]
  BY DEF TypeOK, Places, Span
<1>2. ASSUME NEW n, NEW m, NEW fate, Take(c, n, fate), Drop(c, m) \/ Keep(c, m)
      PROVE  from'[d] = from[d] /\ taken'[d] = taken[d]
  BY <1>1, <1>2 DEF Take, Drop, Keep
<1>3. ASSUME NEW place, Goto(c, place) PROVE conn'[d] = conn[d]
  BY <1>1, <1>3 DEF Goto
<1>4. CASE Connect(c) \/ TurnAway(c) \/ Wait(c) \/ Submit(c) \/ Vanish(c)
  <2>1. UNCHANGED <<from, to, taken, overflown>>
    BY <1>4 DEF Connect, TurnAway, Wait, Submit, Vanish, buffers
  <2>2. conn'[d] = conn[d]
    BY <1>3, <1>4 DEF Connect, TurnAway, Wait, Submit, Vanish
  <2>3. QED
    BY <2>1, <2>2
<1>5. CASE Recv(c)
  <2>1. UNCHANGED <<from, taken>> /\ conn'[d] = conn[d]
    BY <1>3, <1>5 DEF Recv
  <2>2. to'[d] = to[d] /\ (d \in overflown' <=> d \in overflown)
    BY <1>1, <1>5 DEF Recv
  <2>3. QED
    BY <2>1, <2>2
<1>6. CASE ConnectionEnds(c) \/ TimeOut(c) \/ QuarantineRaises(c)
  <2>1. UNCHANGED <<to, overflown>>
    BY <1>6 DEF ConnectionEnds, TimeOut, QuarantineRaises
  <2>2. (\E fate \in Ends : End(c, fate)) \/ UNCHANGED <<conn, from, taken>>
    BY <1>6, FinishEnds DEF ConnectionEnds, TimeOut
  <2>3. QED
    BY <1>2, <1>3, <2>1, <2>2 DEF End
<1>7. CASE Overflow(c) \/ Resync(c) \/ NoStart(c) \/ DropHeader(c) \/ DropRecord(c)
           \/ Submitted(c) \/ SubmitRefused(c)
  <2>1. UNCHANGED <<to, overflown>>
    BY <1>7 DEF Overflow, Resync, NoStart, DropHeader, DropRecord, Submitted, SubmitRefused
  <2>2. \/ UNCHANGED <<from, taken>>
        \/ \E n, m, fate : Take(c, n, fate) /\ (Drop(c, m) \/ Keep(c, m))
    BY <1>7 DEF Overflow, Resync, NoStart, DropHeader, DropRecord, Submitted, SubmitRefused
  <2>3. conn' = conn \/ \E place : Goto(c, place)
    BY <1>7 DEF Overflow, Resync, NoStart, DropHeader, DropRecord, Submitted, SubmitRefused
  <2>4. QED
    BY <1>2, <1>3, <2>1, <2>2, <2>3
<1>8. QED
  BY <1>4, <1>5, <1>6, <1>7 DEF Process

\* Only a chunk makes a buffer larger, and one that makes it too large is remembered.
LEMMA SizeStep ==
  ASSUME TypeOK, SubmitComplete, [Next]_vars, NEW d \in Clients,
         d \notin overflown => Size(d) <= limits.buffer
  PROVE  d \notin overflown' => to'[d] - from'[d] <= limits.buffer
<1>1. from[d] \in Nat /\ to[d] \in Nat /\ limits.buffer \in Nat /\ Size(d) = to[d] - from[d]
  BY StreamFacts DEF Size
<1>2. ASSUME NEW c \in Clients, Recv(c)
      PROVE  d \notin overflown' => to'[d] - from'[d] <= limits.buffer
  <2>1. CASE c = d
    <3>1. PICK n \in 1 .. RecvSize :
            /\ to' = [to EXCEPT ![c] = @ + n]
            /\ overflown' = IF Size(c) + n > limits.buffer THEN overflown \cup {c} ELSE overflown
      BY <1>2 DEF Recv
    <3>2. n \in Nat /\ to'[d] = to[d] + n /\ from'[d] = from[d]
      BY <1>2, <2>1, <3>1, ConstantsAssumption DEF Recv, TypeOK
    <3>3. d \notin overflown' => ~(Size(d) + n > limits.buffer)
      BY <2>1, <3>1
    <3>4. QED
      BY <1>1, <3>2, <3>3
  <2>2. CASE c # d
    BY <1>1, <1>2, <2>2, OthersStay
  <2>3. QED
    BY <2>1, <2>2
<1>3. ASSUME to' = to, from[d] <= from'[d], from'[d] \in Nat, overflown' = overflown
      PROVE  d \notin overflown' => to'[d] - from'[d] <= limits.buffer
  BY <1>1, <1>3
<1>4. from[d] <= from'[d] /\ from'[d] \in Nat
  <2>1. ASSUME NEW c \in Clients, NEW n, NEW fate, Cut(c, n, fate)
        PROVE  from[d] <= from'[d] /\ from'[d] \in Nat
    <3>1. n \in Nat
      BY <2>1, SizeType DEF Cut
    <3>2. /\ from'[c] = from[c] + n
          /\ d # c => from'[d] = from[d]
      BY <2>1, CutEffect
    <3>3. QED
      BY <1>1, <3>1, <3>2
  <2>2. QED
    BY <1>1, <2>1, BuffersStep DEF StepCut
<1>5. (\E c \in Clients : Recv(c)) \/ (to' = to /\ overflown' = overflown)
  <2>1. ASSUME NEW c \in Clients,
               \/ Connect(c) \/ TurnAway(c) \/ ConnectionEnds(c) \/ TimeOut(c) \/ Vanish(c)
               \/ Overflow(c) \/ Wait(c) \/ Resync(c) \/ NoStart(c) \/ DropHeader(c)
               \/ DropRecord(c) \/ Submit(c) \/ Submitted(c) \/ SubmitRefused(c)
               \/ QuarantineRaises(c)
        PROVE  to' = to /\ overflown' = overflown
    BY <2>1 DEF Connect, TurnAway, ConnectionEnds, TimeOut, Vanish, Overflow, Wait, Resync,
                NoStart, DropHeader, DropRecord, QuarantineRaises, Submit, Submitted, SubmitRefused, buffers
  <2>2. Stop \/ UNCHANGED vars => to' = to /\ overflown' = overflown
    BY DEF Stop, vars, buffers
  <2>3. QED
    BY <2>1, <2>2 DEF Next, Process
<1>6. QED
  BY <1>2, <1>3, <1>4, <1>5

\* Overflown connections stay that, and only those resynchronise for their size.
LEMMA OverflownStays ==
  ASSUME TypeOK, [Next]_vars
  PROVE  /\ overflown \subseteq overflown'
         /\ \A d \in Clients : conn'[d] = "overflowing" => conn[d] = "overflowing" \/ d \in overflown'
<1>1. ASSUME NEW c \in Clients, Recv(c)
      PROVE  /\ overflown \subseteq overflown'
             /\ conn'[c] = "overflowing" => c \in overflown'
  <2>1. PICK n \in 1 .. RecvSize :
          /\ Goto(c, IF Size(c) + n > limits.buffer THEN "overflowing" ELSE "processing")
          /\ overflown' = IF Size(c) + n > limits.buffer THEN overflown \cup {c} ELSE overflown
    BY <1>1 DEF Recv
  <2>2. QED
    BY <2>1 DEF Goto, TypeOK
<1>2. ASSUME NEW c \in Clients,
             \/ Connect(c) \/ TurnAway(c) \/ ConnectionEnds(c) \/ TimeOut(c) \/ Vanish(c)
             \/ Overflow(c) \/ Wait(c) \/ Resync(c) \/ NoStart(c) \/ DropHeader(c)
             \/ DropRecord(c) \/ Submit(c) \/ Submitted(c) \/ SubmitRefused(c) \/ QuarantineRaises(c)
      PROVE  overflown' = overflown /\ (conn'[c] = "overflowing" => conn[c] = "overflowing")
  <2>1. overflown' = overflown
    BY <1>2 DEF Connect, TurnAway, ConnectionEnds, TimeOut, Vanish, Overflow, Wait, Resync,
                NoStart, DropHeader, DropRecord, QuarantineRaises, Submit, Submitted, SubmitRefused
  <2>2. conn' = conn \/ \E place \in Places \ {"overflowing"} : conn' = [conn EXCEPT ![c] = place]
    BY <1>2 DEF Connect, TurnAway, ConnectionEnds, TimeOut, Vanish, Overflow, Wait, Resync,
                NoStart, DropHeader, DropRecord, QuarantineRaises, Submit, Submitted, SubmitRefused, Finish,
                End, Goto, Places
  <2>3. QED
    BY <2>1, <2>2 DEF TypeOK
<1>3. ASSUME NEW c \in Clients,
             \/ Connect(c) \/ TurnAway(c) \/ Recv(c) \/ ConnectionEnds(c) \/ TimeOut(c)
             \/ Vanish(c) \/ Process(c) \/ Submitted(c)
      PROVE  /\ overflown \subseteq overflown'
             /\ \A d \in Clients : conn'[d] = "overflowing" => conn[d] = "overflowing" \/ d \in overflown'
  <2>1. /\ overflown \subseteq overflown'
        /\ conn'[c] = "overflowing" => conn[c] = "overflowing" \/ c \in overflown'
    BY <1>1, <1>2, <1>3 DEF Process
  <2>2. \A d \in Clients \ {c} : conn'[d] = conn[d]
    BY <1>3, OthersStay
  <2>3. QED
    BY <2>1, <2>2
<1>4. Stop \/ UNCHANGED vars => overflown' = overflown /\ conn' = conn
  BY DEF Stop, vars
<1>5. QED
  BY <1>3, <1>4 DEF Next

\* Each step of a connection without an overflow goes on along the records of its stream.
LEMMA ConnectionWalks ==
  ASSUME TypeOK, SubmitComplete, IdleEmpty, NEW c \in Clients,
         \/ Connect(c) \/ TurnAway(c) \/ Recv(c) \/ ConnectionEnds(c) \/ TimeOut(c)
         \/ Vanish(c) \/ Process(c) \/ Submitted(c),
         Generous(c), conn[c] # "overflowing", Size(c) <= limits.buffer,
         Walk(stream[c], conn[c], from[c], to[c], taken[c])
  PROVE  Walk(stream[c], conn'[c], from'[c], to'[c], taken'[c])
<1> DEFINE s == stream[c]
<1>1. ASSUME NEW place, Goto(c, place) PROVE conn'[c] = place
  BY <1>1 DEF Goto, TypeOK
<1>2. CASE Connect(c)
  <2>1. conn[c] = "away" /\ conn'[c] = "receiving" /\ UNCHANGED <<from, to, taken>>
    BY <1>1, <1>2 DEF Connect, buffers
  <2>2. QED
    BY <2>1, ConnectWalks DEF IdleEmpty
<1>3. CASE TurnAway(c) \/ Submit(c)
  <2>1. conn[c] # "ended" /\ conn'[c] \in {"refused", "submitting"} /\ UNCHANGED <<from, to, taken>>
    BY <1>1, <1>3 DEF TurnAway, Submit, buffers
  <2>2. QED
    BY <2>1 DEF Walk
<1>4. CASE Recv(c)
  <2>1. PICK n \in 1 .. RecvSize : to' = [to EXCEPT ![c] = @ + n]
    BY <1>4 DEF Recv
  <2>2. n \in Nat /\ to'[c] = to[c] + n /\ UNCHANGED <<from, taken>>
    BY <1>4, <2>1, ConstantsAssumption DEF Recv, TypeOK
  <2>3. conn[c] # "ended" /\ conn'[c] \in {"overflowing", "processing"}
    BY <1>1, <1>4 DEF Recv
  <2>4. \A m \in to'[c] .. Len(s) : m \in to[c] .. Len(s)
    BY <2>2, StreamFacts
  <2>5. QED
    BY <2>2, <2>3, <2>4 DEF Walk, Reads
<1>5. CASE ConnectionEnds(c) \/ TimeOut(c)
  <2>1. conn[c] = "receiving" /\ to' = to /\ (Finish(c) \/ UNCHANGED <<conn, from, taken>>)
    BY <1>5 DEF ConnectionEnds, TimeOut
  <2>2. CASE Finish(c)
    <3>1. PICK fate \in Ends : End(c, fate) /\ (fate = "lost" => Size(c) > 0)
      BY <2>2 DEF Finish, Ends
    <3>2. conn'[c] = "ended"
      BY <1>1, <3>1 DEF End
    <3>3. QED
      BY <2>1, <3>1, <3>2, EndWalks
  <2>3. CASE UNCHANGED <<conn, from, taken>>
    BY <2>1, <2>3
  <2>4. QED
    BY <2>1, <2>2, <2>3
<1>15. CASE QuarantineRaises(c)
  <2>1. End(c, "lost") /\ Size(c) > 0 /\ conn[c] # "ended" /\ to' = to
    BY <1>15, QuarantinesSome DEF QuarantineRaises
  <2>2. conn'[c] = "ended" /\ "lost" \in Ends
    BY <1>1, <2>1 DEF End, Ends
  <2>3. QED
    BY <2>1, <2>2, EndWalks
<1>6. CASE Vanish(c)
  <2>1. UNCHANGED <<conn, from, to, taken>>
    BY <1>6 DEF Vanish, buffers
  <2>2. QED
    BY <2>1
<1>7. CASE Wait(c)
  <2>1. conn'[c] = "receiving" /\ UNCHANGED <<from, to, taken>>
    BY <1>1, <1>7 DEF Wait, buffers
  <2>2. QED
    BY <1>7, <2>1, WaitWalks
<1>8. CASE Resync(c) \/ DropHeader(c)
  <2>1. conn' = conn /\ to' = to
    BY <1>8 DEF Resync, DropHeader
  <2>2. QED
    BY <1>8, <2>1, ResyncWalks, DropHeaderWalks DEF Generous
<1>9. CASE NoStart(c)
  <2>1. conn'[c] = "receiving" /\ to' = to
    BY <1>1, <1>9 DEF NoStart
  <2>2. QED
    BY <1>9, <2>1, NoStartWalks DEF Generous
<1>10. CASE DropRecord(c)
  <2>1. conn'[c] = "processing" /\ to' = to
    BY <1>10 DEF DropRecord
  <2>2. QED
    BY <1>10, <2>1, RecordWalks
<1>11. CASE Submitted(c)
  <2>1. conn'[c] = "processing" /\ to' = to
    BY <1>1, <1>11 DEF Submitted
  <2>2. QED
    BY <1>11, <2>1, RecordWalks
<1>12. CASE SubmitRefused(c)
  <2>1. conn'[c] = "receiving" /\ to' = to
    BY <1>1, <1>12 DEF SubmitRefused
  <2>2. QED
    BY <1>12, <2>1, RecordWalks
<1>13. ~Overflow(c)
  BY DEF Overflow
<1>14. QED
  BY <1>2, <1>3, <1>4, <1>5, <1>6, <1>7, <1>8, <1>9, <1>10, <1>11, <1>12, <1>13,
     <1>15 DEF Process

LEMMA InitWalkInv == Init => WalkInv
<1> SUFFICES ASSUME Init, NEW c \in Clients
             PROVE  /\ conn[c] # "overflowing" /\ Size(c) <= limits.buffer
                    /\ Walk(stream[c], conn[c], from[c], to[c], taken[c])
  BY DEF WalkInv
<1>1. conn[c] = "away" /\ from[c] = 0 /\ to[c] = 0 /\ taken[c] = << >>
  BY DEF Init
<1>2. TypeOK
  BY InitReceiverInv DEF ReceiverInv
<1>3. Size(c) <= limits.buffer
  BY <1>1, <1>2, StreamFacts DEF Size
<1>4. ASSUME NEW m \in to[c] .. Len(stream[c])
      PROVE  Decodable(stream[c], m) = Handed(taken[c]) \o RecordsFrom(stream[c], m)[from[c]]
  <2>1. 0 \in 0 .. to[c]
    BY <1>1
  <2>2. << >> \o RecordsFrom(stream[c], m)[0] = RecordsFrom(stream[c], m)[0]
    BY <1>2, <2>1, RecordsAreSequences
  <2>3. QED
    BY <1>1, <2>2, NoneHanded DEF Decodable
<1>5. Walk(stream[c], conn[c], from[c], to[c], taken[c])
  BY <1>1, <1>4 DEF Walk, Reads
<1>6. QED
  BY <1>1, <1>3, <1>5

LEMMA NextWalkInv == ReceiverInv /\ WalkInv /\ [Next]_vars => WalkInv'
<1> SUFFICES ASSUME ReceiverInv, WalkInv, [Next]_vars, NEW d \in Clients
             PROVE  /\ conn'[d] = "overflowing" => d \in overflown'
                    /\ d \notin overflown' => to'[d] - from'[d] <= limits'.buffer
                    /\ Generous(d)' => Walk(stream'[d], conn'[d], from'[d], to'[d], taken'[d])
  BY DEF WalkInv, Size
<1>1. TypeOK /\ SubmitComplete /\ IdleEmpty /\ stream' = stream /\ limits' = limits
  BY ReceivedStep DEF ReceiverInv
<1>2. /\ conn[d] = "overflowing" => d \in overflown
      /\ d \notin overflown => Size(d) <= limits.buffer
      /\ Generous(d) => Walk(stream[d], conn[d], from[d], to[d], taken[d])
  BY DEF WalkInv
<1>3. overflown \subseteq overflown' /\ (conn'[d] = "overflowing" => d \in overflown')
  BY <1>1, <1>2, OverflownStays
<1>4. d \notin overflown' => to'[d] - from'[d] <= limits'.buffer
  BY <1>1, <1>2, SizeStep
<1>5. ASSUME Generous(d)'
      PROVE  Walk(stream[d], conn'[d], from'[d], to'[d], taken'[d])
  <2>1. Generous(d) /\ d \notin overflown
    BY <1>1, <1>3, <1>5 DEF Generous
  <2>2. ASSUME NEW c \in Clients,
               \/ Connect(c) \/ TurnAway(c) \/ Recv(c) \/ ConnectionEnds(c) \/ TimeOut(c)
               \/ Vanish(c) \/ Process(c) \/ Submitted(c)
        PROVE  Walk(stream[d], conn'[d], from'[d], to'[d], taken'[d])
    <3>1. CASE c = d
      BY <1>1, <1>2, <2>1, <2>2, <3>1, ConnectionWalks
    <3>2. CASE c # d
      BY <1>1, <1>2, <2>1, <2>2, <3>2, OthersStay
    <3>3. QED
      BY <3>1, <3>2
  <2>3. Stop \/ UNCHANGED vars => UNCHANGED <<conn, from, to, taken>>
    BY DEF Stop, vars, buffers
  <2>4. QED
    BY <1>2, <2>1, <2>2, <2>3 DEF Next
<1>6. QED
  BY <1>1, <1>3, <1>4, <1>5

\* However a stream is cut into chunks, the records handed to submit() are those a
\* reader of the whole stream finds, in their order, and but for a shutdown or a
\* quarantine that raises none waits when it is complete (_process_buffer(): "one recv() is not one packet").
THEOREM ChunksCorrect == Spec => []ChunksDoNotMatter
<1>1. ReceiverInv /\ WalkInv => ChunksDoNotMatter
  <2> SUFFICES ASSUME ReceiverInv, WalkInv, NEW c \in Clients,
                      conn[c] \in {"receiving", "ended"}, Generous(c)
               PROVE  /\ IsPrefix(Submissions(c), Decodable(stream[c], to[c]))
                      /\ ~Refused(c) /\ ~Lost(c) => Submissions(c) = Decodable(stream[c], to[c])
    BY DEF ChunksDoNotMatter, Generous
  <2>1. TypeOK /\ Walk(stream[c], conn[c], from[c], to[c], taken[c])
    BY DEF ReceiverInv, WalkInv
  <2>2. (Refused(c) <=> HadRefused(taken[c])) /\ (Lost(c) <=> HadLost(taken[c]))
    BY DEF Refused, HadRefused, Lost, HadLost
  <2>3. CASE conn[c] = "receiving"
    BY <2>1, <2>2, <2>3, OpenReads DEF Submissions
  <2>4. CASE conn[c] = "ended"
    BY <2>1, <2>2, <2>4 DEF Submissions, Walk
  <2>5. QED
    BY <2>3, <2>4
<1>2. Init => WalkInv
  BY InitWalkInv
<1>3. ReceiverInv /\ WalkInv /\ [Next]_vars => WalkInv'
  BY NextWalkInv
<1>4. QED
  BY <1>1, <1>2, <1>3, ReceiverCorrect, PTL DEF Spec
=============================================================================
