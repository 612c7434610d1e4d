------------------------ MODULE HistoryReader_proofs ------------------------
(***************************************************************************)
(* Proofs about HistoryReader, for every set of files, streams and records, *)
(* every signal, every window and limit, and every number of points.        *)
(*                                                                         *)
(* The first part is about what a query gathers: the records of a stream    *)
(* are a sequence without repetition and, below the limit, all there are;   *)
(* AnswerInv follows them from file to file while more records arrive.  The *)
(* second part is about thinning: EnvelopeInv says that what is shown       *)
(* neither loses nor invents an extreme of what was read.                   *)
(***************************************************************************)
EXTENDS HistoryReader, TLAPS, FiniteSetTheorems, SequenceTheorems, WellFoundedInduction

-----------------------------------------------------------------------------
(* Numbers. *)

\* A set of naturals has a least element, and Min is one.
LEMMA LeastOfNaturals ==
  ASSUME NEW S \in SUBSET Nat, S # {}
  PROVE  Min(S) \in S /\ \A y \in S : Min(S) <= y
<1>1. IsWellFoundedOn(OpToRel(<, Nat), Nat)
  BY NatLessThanWellFounded
<1>2. PICK x \in S : \A y \in S : ~(<<y, x>> \in OpToRel(<, Nat))
  BY <1>1, WFMin
<1>3. \A y \in S : x <= y
  <2> SUFFICES ASSUME NEW y \in S PROVE x <= y
    OBVIOUS
  <2>1. ~(<<y, x>> \in OpToRel(<, Nat))
    BY <1>2
  <2>2. ~(y < x)
    BY <2>1 DEF OpToRel
  <2>3. QED
    BY <2>2
<1>4. QED
  BY <1>3 DEF Min

\* A bounded one has a greatest element, and Max is one.
LEMMA MostOfNaturals ==
  ASSUME NEW S \in SUBSET Nat, S # {}, NEW top \in Nat, \A y \in S : y <= top
  PROVE  Max(S) \in S /\ \A y \in S : y <= Max(S)
<1> DEFINE below == {n \in Nat : \A y \in S : y <= n}
           m == Min(below)
<1>1. m \in below /\ \A n \in below : m <= n
  <2>1. below \in SUBSET Nat /\ top \in below
    OBVIOUS
  <2> HIDE DEF below
  <2>2. QED
    BY <2>1, LeastOfNaturals
<1>2. m \in Nat /\ \A y \in S : y <= m
  BY <1>1
<1>3. \A n \in Nat : (\A y \in S : y <= n) => m <= n
  BY <1>1
<1> HIDE DEF m, below
<1>4. m \in S
  <2> SUFFICES ASSUME m \notin S PROVE FALSE
    OBVIOUS
  <2>1. PICK y \in S : TRUE
    OBVIOUS
  <2>2. y \in Nat /\ y < m
    BY <1>2, <2>1
  <2>3. m - 1 \in Nat /\ \A z \in S : z <= m - 1
    BY <1>2, <2>2
  <2>4. QED
    BY <1>2, <1>3, <2>3
<1>5. \A y \in S : m >= y
  BY <1>2
<1>6. Max(S) \in S /\ \A y \in S : Max(S) >= y
  BY <1>4, <1>5 DEF Max
<1>7. QED
  BY <1>2, <1>6

\* Induction from 0 up to n.
LEMMA Upward ==
  ASSUME NEW n \in Nat, NEW S, 0 \in S, \A m \in 1 .. n : m - 1 \in S => m \in S
  PROVE  \A m \in 0 .. n : m \in S
<1> DEFINE lost == {m \in Nat : m <= n /\ m \notin S}
<1>1. lost = {}
  <2> SUFFICES ASSUME lost # {} PROVE FALSE
    OBVIOUS
  <2>1. lost \in SUBSET Nat /\ \A m \in lost : m <= n /\ m \notin S
    OBVIOUS
  <2>2. \A m \in Nat : m <= n => m \in lost \/ m \in S
    OBVIOUS
  <2> HIDE DEF lost
  <2> DEFINE m == Min(lost)
  <2>3. m \in lost /\ \A e \in lost : m <= e
    BY <2>1, LeastOfNaturals
  <2> HIDE DEF m
  <2>4. m \in Nat /\ m <= n /\ m \notin S /\ m # 0
    BY <2>1, <2>3
  <2>5. m \in 1 .. n /\ m - 1 \in Nat /\ m - 1 <= n /\ ~(m <= m - 1)
    BY <2>4
  <2>6. m - 1 \in S
    BY <2>2, <2>3, <2>5
  <2>7. QED
    BY <2>4, <2>5, <2>6
<1>2. QED
  BY <1>1

-----------------------------------------------------------------------------
(* Elements in order. *)

\* before says of every element of S which ones are in front of it.
StrictOrder(S, before) ==
  /\ before \in [S -> SUBSET S]
  /\ \A p \in S : p \notin before[p]
  /\ \A p, q \in S : q \in before[p] => before[q] \subseteq before[p]
  /\ \A p, q \in S : p # q => p \in before[q] \/ q \in before[p]

\* What InOrder makes of it: every element once, in this order.
LEMMA InOrderSorts ==
  ASSUME NEW S, IsFiniteSet(S), NEW before, StrictOrder(S, before)
  PROVE  /\ Cardinality(S) \in Nat
         /\ InOrder(before) \in [1 .. Cardinality(S) -> S]
         /\ InOrder(before) \in Seq(S) /\ Len(InOrder(before)) = Cardinality(S)
         /\ \A p \in S : \E n \in 1 .. Cardinality(S) : InOrder(before)[n] = p
         /\ \A m, n \in 1 .. Cardinality(S) :
              m < n => InOrder(before)[m] \in before[InOrder(before)[n]]
         /\ IsInjective(InOrder(before))
<1> DEFINE N == Cardinality(S)
           rank == [p \in S |-> Cardinality(before[p])]
           order == InOrder(before)
<1>0. /\ before \in [S -> SUBSET S] /\ DOMAIN before = S
      /\ \A p \in S : before[p] \in SUBSET S
      /\ \A p \in S : p \notin before[p]
      /\ \A p, q \in S : q \in before[p] => before[q] \subseteq before[p]
      /\ \A p, q \in S : p # q => p \in before[q] \/ q \in before[p]
  BY DEF StrictOrder
<1>1. N \in Nat
  BY FS_CardinalityType
\* The rank of an element is less than N, and grows along the order.
<1>2. ASSUME NEW p \in S
      PROVE  IsFiniteSet(before[p]) /\ rank[p] \in Nat /\ rank[p] < N
  <2>1. IsFiniteSet(S \ {p}) /\ Cardinality(S \ {p}) = N - 1
    BY FS_RemoveElement
  <2>2. before[p] \in SUBSET (S \ {p})
    BY <1>0
  <2>3. IsFiniteSet(before[p]) /\ Cardinality(before[p]) <= N - 1
    BY <2>1, <2>2, FS_Subset
  <2>4. Cardinality(before[p]) \in Nat
    BY <2>3, FS_CardinalityType
  <2>5. QED
    BY <1>1, <2>3, <2>4
<1>3. ASSUME NEW p \in S, NEW q \in S, q \in before[p]
      PROVE  rank[q] < rank[p]
  <2>1. before[q] \in SUBSET before[p] /\ before[q] # before[p]
    BY <1>0, <1>3
  <2>2. rank[q] <= rank[p] /\ rank[q] # rank[p]
    BY <1>2, <2>1, FS_Subset
  <2>3. QED
    BY <1>2, <2>2
\* Every rank is taken, by one element only.
<1>4. \A p, q \in S : rank[p] = rank[q] => p = q
  <2> SUFFICES ASSUME NEW p \in S, NEW q \in S, rank[p] = rank[q], p # q PROVE FALSE
    OBVIOUS
  <2>1. rank[p] < rank[q] \/ rank[q] < rank[p]
    BY <1>0, <1>3
  <2>2. QED
    BY <1>2, <2>1
<1> HIDE DEF rank
<1> DEFINE place == [p \in S |-> rank[p] + 1]
<1>5. place \in Injection(S, 1 .. N)
  <2>1. place \in [S -> 1 .. N]
    BY <1>1, <1>2
  <2>2. \A p, q \in S : place[p] = place[q] => p = q
    BY <1>2, <1>4
  <2>3. QED
    BY <2>1, <2>2 DEF Injection, IsInjective
<1>6. \A n \in 1 .. N : \E p \in S : place[p] = n
  <2>1. IsFiniteSet(1 .. N) /\ Cardinality(1 .. N) = N
    BY <1>1, FS_Interval
  <2> HIDE DEF place
  <2>2. place \in Surjection(S, 1 .. N)
    BY <1>5, <2>1, FS_Injection
  <2>3. QED
    BY <2>2 DEF Surjection
<1>7. \A n \in 1 .. N : \E p \in S : rank[p] = n - 1
  BY <1>1, <1>2, <1>6
<1>8. \A n \in 1 .. N : order[n] = CHOOSE p \in S : Cardinality(before[p]) = n - 1
  BY <1>0 DEF InOrder
<1>9. \A n \in 1 .. N : order[n] \in S /\ rank[order[n]] = n - 1
  <2> SUFFICES ASSUME NEW n \in 1 .. N PROVE order[n] \in S /\ rank[order[n]] = n - 1
    OBVIOUS
  <2>1. \E p \in S : Cardinality(before[p]) = n - 1
    BY <1>7 DEF rank
  <2>2. order[n] \in S /\ Cardinality(before[order[n]]) = n - 1
    BY <1>8, <2>1
  <2>3. QED
    BY <2>2 DEF rank
<1>10. order = [n \in 1 .. N |-> order[n]]
  BY <1>0 DEF InOrder
<1> HIDE DEF order
<1>11. order \in [1 .. N -> S] /\ order \in Seq(S) /\ Len(order) = N
  BY <1>1, <1>9, <1>10
<1>12. \A p \in S : \E n \in 1 .. N : order[n] = p
  <2> SUFFICES ASSUME NEW p \in S PROVE \E n \in 1 .. N : order[n] = p
    OBVIOUS
  <2>1. rank[p] + 1 \in 1 .. N /\ (rank[p] + 1) - 1 = rank[p]
    BY <1>1, <1>2
  <2>2. order[rank[p] + 1] \in S /\ rank[order[rank[p] + 1]] = rank[p]
    BY <1>9, <2>1
  <2>3. QED
    BY <1>4, <2>1, <2>2
<1>13. ASSUME NEW m \in 1 .. N, NEW n \in 1 .. N, m < n
       PROVE  order[m] \in before[order[n]]
  <2>1. order[m] \in S /\ order[n] \in S /\ rank[order[m]] < rank[order[n]]
    BY <1>1, <1>9, <1>13
  <2>2. order[m] # order[n] /\ ~(rank[order[n]] < rank[order[m]])
    BY <1>2, <2>1
  <2>3. QED
    BY <1>0, <1>3, <2>1, <2>2
<1>14. IsInjective(order)
  <2> SUFFICES ASSUME NEW m \in 1 .. N, NEW n \in 1 .. N, order[m] = order[n] PROVE m = n
    BY <1>11 DEF IsInjective
  <2>1. m - 1 = n - 1
    BY <1>9
  <2>2. QED
    BY <1>1, <2>1
<1>15. QED
  BY <1>1, <1>11, <1>12, <1>13, <1>14 DEF order

-----------------------------------------------------------------------------
(* The records of a stream. *)

\* The disk holds records.
DiskType == disk \in [Files -> [StreamSet -> [Parts -> Seq(Record)]]]

\* What a record is.
LEMMA RecordType ==
  ASSUME NEW r \in Record
  PROVE  /\ r.start \in Nat /\ r.npts \in Nat \ {0} /\ r.end \in Int
         /\ r.end \in {Untimed, r.start + r.npts - 1}
         /\ Span(r) = r.start .. (r.start + r.npts - 1) /\ Span(r) \subseteq DOMAIN Signal
BY DEF Record, Span

\* A place that is held is one of a record.
LEMMA HeldPlace ==
  ASSUME DiskType, NEW files \in SUBSET Files, NEW streams \in SUBSET StreamSet, NEW p
  PROVE  p \in Held(files, streams) <=>
           /\ p \in Place /\ p.file \in files /\ p.stream \in streams
           /\ p.i \in 1 .. Len(disk[p.file][p.stream][p.part])
<1>1. ASSUME NEW f \in Files, NEW s \in StreamSet, NEW part \in Parts
      PROVE  /\ disk[f][s][part] \in Seq(Record)
             /\ DOMAIN disk[f][s][part] = 1 .. Len(disk[f][s][part])
             /\ 1 .. Len(disk[f][s][part]) \subseteq Nat \ {0}
  <2>1. disk[f] \in [StreamSet -> [Parts -> Seq(Record)]]
    BY DEF DiskType
  <2>2. disk[f][s] \in [Parts -> Seq(Record)]
    BY <2>1
  <2>3. QED
    BY <2>2
<1>2. ASSUME p \in Held(files, streams)
      PROVE  /\ p \in Place /\ p.file \in files /\ p.stream \in streams
             /\ p.i \in 1 .. Len(disk[p.file][p.stream][p.part])
  <2>1. PICK f \in files, s \in streams, part \in Parts :
          p \in [file : {f}, stream : {s}, part : {part}, i : DOMAIN disk[f][s][part]]
    <3>1. PICK at \in files \X streams \X Parts :
            p \in [file : {at[1]}, stream : {at[2]}, part : {at[3]},
                  i : DOMAIN disk[at[1]][at[2]][at[3]]]
      BY <1>2 DEF Held
    <3>2. at[1] \in files /\ at[2] \in streams /\ at[3] \in Parts
      OBVIOUS
    <3>3. QED
      BY <3>1, <3>2
  <2>2. f \in Files /\ s \in StreamSet
    OBVIOUS
  <2>3. /\ p = [file |-> f, stream |-> s, part |-> part, i |-> p.i]
        /\ p.i \in DOMAIN disk[f][s][part]
    BY <2>1
  <2>4. p.i \in 1 .. Len(disk[f][s][part]) /\ p.i \in Nat \ {0}
    BY <1>1, <2>2, <2>3
  <2>5. p.file = f /\ p.stream = s /\ p.part = part
    BY <2>3
  <2>6. p \in Place
    BY <2>2, <2>3, <2>4 DEF Place
  <2>7. QED
    BY <2>4, <2>5, <2>6
<1>3. ASSUME p \in Place, p.file \in files, p.stream \in streams,
             p.i \in 1 .. Len(disk[p.file][p.stream][p.part])
      PROVE  p \in Held(files, streams)
  <2>1. /\ p = [file |-> p.file, stream |-> p.stream, part |-> p.part, i |-> p.i]
        /\ p.part \in Parts
    BY <1>3 DEF Place
  <2>2. p.i \in DOMAIN disk[p.file][p.stream][p.part]
    BY <1>1, <1>3, <2>1
  <2>3. p \in [file : {p.file}, stream : {p.stream}, part : {p.part},
               i : DOMAIN disk[p.file][p.stream][p.part]]
    BY <2>1, <2>2
  <2>4. PICK at \in files \X streams \X Parts : at = <<p.file, p.stream, p.part>>
    BY <1>3, <2>1
  <2>5. at[1] = p.file /\ at[2] = p.stream /\ at[3] = p.part
    BY <2>4
  <2>6. p \in [file : {at[1]}, stream : {at[2]}, part : {at[3]},
               i : DOMAIN disk[at[1]][at[2]][at[3]]]
    BY <2>3, <2>5
  <2>7. QED
    BY <2>6 DEF Held
<1>4. QED
  BY <1>2, <1>3

\* What is there is a record.
LEMMA HeldRecord ==
  ASSUME DiskType, NEW p \in Held(Files, StreamSet)
  PROVE  At(p) \in Record
<1>1. p \in Place /\ p.i \in 1 .. Len(disk[p.file][p.stream][p.part])
  BY HeldPlace
<1>2. p.file \in Files /\ p.stream \in StreamSet /\ p.part \in Parts
  BY <1>1 DEF Place
<1>3. disk[p.file] \in [StreamSet -> [Parts -> Seq(Record)]]
  BY <1>2 DEF DiskType
<1>4. disk[p.file][p.stream][p.part] \in Seq(Record)
  BY <1>2, <1>3
<1>5. QED
  BY <1>1, <1>4 DEF At

\* Held grows with the files and streams.
LEMMA HeldGrows ==
  ASSUME NEW files, NEW streams, NEW moreFiles, NEW moreStreams,
         files \subseteq moreFiles, streams \subseteq moreStreams
  PROVE  Held(files, streams) \subseteq Held(moreFiles, moreStreams)
BY DEF Held

\* The places of one stream are finitely many ...
LEMMA StreamFinite ==
  ASSUME DiskType, NEW f \in Files, NEW s \in StreamSet
  PROVE  IsFiniteSet(Held({f}, {s}))
<1>1. ASSUME NEW part \in Parts
      PROVE  IsFiniteSet({p \in Held({f}, {s}) : p.part = part})
  <2> DEFINE mine == {p \in Held({f}, {s}) : p.part = part}
             size == Len(disk[f][s][part])
             number == [p \in mine |-> p.i]
  <2>1. size \in Nat
    <3>1. disk[f] \in [StreamSet -> [Parts -> Seq(Record)]]
      BY DEF DiskType
    <3>2. disk[f][s][part] \in Seq(Record)
      BY <3>1
    <3>3. QED
      BY <3>2
  <2>2. ASSUME NEW p \in mine
        PROVE  p = [file |-> f, stream |-> s, part |-> part, i |-> p.i] /\ p.i \in 1 .. size
    <3>1. p \in Place /\ p.file = f /\ p.stream = s /\ p.part = part
      BY HeldPlace
    <3>2. p.i \in 1 .. size
      BY <3>1, HeldPlace
    <3>3. QED
      BY <3>1, <3>2 DEF Place
  <2> HIDE DEF mine, size
  <2>3. number \in [mine -> 1 .. size]
    BY <2>2
  <2>4. \A p, q \in mine : number[p] = number[q] => p = q
    BY <2>2
  <2>5. number \in Injection(mine, 1 .. size)
    BY <2>3, <2>4 DEF Injection, IsInjective
  <2>6. IsFiniteSet(1 .. size)
    BY <2>1, FS_Interval
  <2> HIDE DEF number
  <2>7. IsFiniteSet(mine)
    BY <2>5, <2>6, FS_Injection
  <2>8. QED
    BY <2>7 DEF mine
<1>2. \A p \in Held({f}, {s}) : p.part = "index" \/ p.part = "legacy"
  BY HeldPlace DEF Place, Parts
<1> DEFINE of(part) == {p \in Held({f}, {s}) : p.part = part}
<1>3. Held({f}, {s}) = of("index") \cup of("legacy")
  BY <1>2
<1>4. IsFiniteSet(of("index")) /\ IsFiniteSet(of("legacy"))
  BY <1>1 DEF Parts
<1> HIDE DEF of
<1>5. QED
  BY <1>3, <1>4, FS_Union

\* ... and Earlier orders them.
LEMMA EarlierOrders ==
  ASSUME DiskType, NEW f \in Files, NEW s \in StreamSet, NEW found \in SUBSET Held({f}, {s})
  PROVE  StrictOrder(found, [p \in found |-> {q \in found : Earlier(q, p)}])
<1>1. ASSUME NEW p \in found
      PROVE  /\ p = [file |-> f, stream |-> s, part |-> p.part, i |-> p.i]
             /\ p.part \in {"index", "legacy"} /\ p.i \in Nat /\ At(p).start \in Nat
  <2>1. p \in Place /\ p.file = f /\ p.stream = s
    BY HeldPlace
  <2>2. p \in Held(Files, StreamSet)
    BY HeldGrows
  <2>3. At(p) \in Record
    BY <2>2, HeldRecord
  <2>4. At(p).start \in Nat
    BY <2>3, RecordType
  <2>5. QED
    BY <2>1, <2>4 DEF Place, Parts
<1>2. ASSUME NEW p \in found PROVE ~Earlier(p, p)
  BY <1>1 DEF Earlier
<1>3. ASSUME NEW p \in found, NEW q \in found, NEW r \in found, Earlier(r, q), Earlier(q, p)
      PROVE  Earlier(r, p)
  BY <1>1, <1>3 DEF Earlier
<1>4. ASSUME NEW p \in found, NEW q \in found, p # q PROVE Earlier(p, q) \/ Earlier(q, p)
  <2>1. p.part # q.part \/ p.i # q.i
    BY <1>1, <1>4
  <2>2. QED
    BY <1>1, <2>1 DEF Earlier
<1>5. QED
  BY <1>2, <1>3, <1>4 DEF StrictOrder

\* A sequence over a set is one over a larger one.
LEMMA SeqWider ==
  ASSUME NEW S, NEW T, S \subseteq T, NEW seq \in Seq(S)
  PROVE  seq \in Seq(T)
OBVIOUS

\* Take is a beginning.
LEMMA TakeBegins ==
  ASSUME NEW S, NEW seq \in Seq(S), IsInjective(seq), NEW n \in Nat
  PROVE  /\ Take(seq, n) \in Seq(S) /\ IsInjective(Take(seq, n))
         /\ ToSet(Take(seq, n)) \subseteq ToSet(seq)
         /\ Len(Take(seq, n)) <= n
         /\ Len(Take(seq, n)) < n => Take(seq, n) = seq
<1> DEFINE m == IF n < Len(seq) THEN n ELSE Len(seq)
<1>1. m \in Nat /\ m <= n /\ m <= Len(seq) /\ (m < n => m = Len(seq)) /\ Len(seq) \in Nat
  OBVIOUS
<1>2. Take(seq, n) = SubSeq(seq, 1, m)
  BY DEF Take
<1> HIDE DEF m
<1>3. /\ Take(seq, n) \in Seq(S) /\ Len(Take(seq, n)) = m
      /\ \A i \in 1 .. m : Take(seq, n)[i] = seq[i]
  BY <1>1, <1>2, SubSeqProperties
<1>4. DOMAIN Take(seq, n) = 1 .. m /\ 1 .. m \subseteq DOMAIN seq
  BY <1>1, <1>3
<1>5. IsInjective(Take(seq, n))
  BY <1>3, <1>4 DEF IsInjective
<1>6. ToSet(Take(seq, n)) \subseteq ToSet(seq)
  BY <1>3, <1>4 DEF ToSet
<1>7. ASSUME m < n PROVE Take(seq, n) = seq
  BY <1>1, <1>3, <1>7, SeqEqual
<1>8. QED
  BY <1>1, <1>3, <1>5, <1>6, <1>7

\* The records of a stream: each once, and all that overlap below the limit.
LEMMA StreamRecordsRight ==
  ASSUME DiskType, NEW f \in Files, NEW s \in StreamSet, NEW w, NEW limit \in Nat,
         NEW got, got = StreamRecords(f, s, w, limit)
  PROVE  /\ got \in Seq(Held({f}, {s})) /\ IsInjective(got) /\ Len(got) <= limit
         /\ \A p \in ToSet(got) : Overlaps(At(p), w)
         /\ Len(got) < limit => \A p \in Held({f}, {s}) : Overlaps(At(p), w) => p \in ToSet(got)
<1> DEFINE found == {p \in Held({f}, {s}) : Overlaps(At(p), w)}
           before == [p \in found |-> {q \in found : Earlier(q, p)}]
           all == InOrder(before)
<1>1. found \in SUBSET Held({f}, {s}) /\ \A p \in found : Overlaps(At(p), w)
  OBVIOUS
<1>2. \A p \in Held({f}, {s}) : Overlaps(At(p), w) => p \in found
  OBVIOUS
<1>3. got = Take(all, limit)
  BY DEF StreamRecords
<1> HIDE DEF found
<1>4. IsFiniteSet(found)
  BY <1>1, StreamFinite, FS_Subset
<1>5. StrictOrder(found, before)
  BY <1>1, EarlierOrders
<1> HIDE DEF before
<1>6. /\ all \in Seq(found) /\ Len(all) = Cardinality(found) /\ IsInjective(all)
      /\ \A p \in found : \E n \in 1 .. Cardinality(found) : all[n] = p
  BY <1>4, <1>5, InOrderSorts
<1> HIDE DEF all
<1>7. /\ got \in Seq(found) /\ IsInjective(got) /\ Len(got) <= limit
      /\ Len(got) < limit => got = all
  BY <1>3, <1>6, TakeBegins
<1>8. DOMAIN all = 1 .. Cardinality(found)
  BY <1>6
<1>9. \A p \in found : p \in ToSet(all)
  BY <1>6, <1>8 DEF ToSet
<1>10. got \in Seq(Held({f}, {s}))
  BY <1>1, <1>7, SeqWider
<1>11. \A p \in ToSet(got) : p \in found
  BY <1>7 DEF ToSet
<1>12. QED
  BY <1>1, <1>2, <1>7, <1>9, <1>10, <1>11

-----------------------------------------------------------------------------
(* The records of a file. *)

\* Two sequences one after the other.
LEMMA Concatenated ==
  ASSUME NEW S, NEW u \in Seq(S), NEW v \in Seq(S)
  PROVE  /\ u \o v \in Seq(S) /\ Len(u \o v) = Len(u) + Len(v)
         /\ ToSet(u \o v) = ToSet(u) \cup ToSet(v)
         /\ IsInjective(u) /\ IsInjective(v) /\ ToSet(u) \cap ToSet(v) = {} => IsInjective(u \o v)
<1> DEFINE a == Len(u)
           b == Len(v)
           c == u \o v
<1>1. /\ a \in Nat /\ b \in Nat /\ c \in Seq(S) /\ Len(c) = a + b
      /\ DOMAIN u = 1 .. a /\ DOMAIN v = 1 .. b /\ DOMAIN c = 1 .. (a + b)
      /\ \A i \in 1 .. a : c[i] = u[i]
      /\ \A i \in (a + 1) .. (a + b) : c[i] = v[i - a]
  BY ConcatProperties
<1>2. \A i \in 1 .. b : c[i + a] = v[i]
  BY <1>1
<1> HIDE DEF a, b, c
<1>3. \A i \in 1 .. (a + b) : i \in 1 .. a \/ (i \in (a + 1) .. (a + b) /\ i - a \in 1 .. b)
  BY <1>1
<1>4. \A i \in 1 .. a : i \in 1 .. (a + b)
  BY <1>1
<1>5. \A i \in 1 .. b : i + a \in 1 .. (a + b)
  BY <1>1
<1>6. ToSet(c) = ToSet(u) \cup ToSet(v)
  <2>1. \A i \in 1 .. (a + b) : c[i] \in ToSet(u) \cup ToSet(v)
    BY <1>1, <1>3 DEF ToSet
  <2>2. \A i \in 1 .. a : u[i] \in ToSet(c)
    BY <1>1, <1>4 DEF ToSet
  <2>3. \A i \in 1 .. b : v[i] \in ToSet(c)
    BY <1>1, <1>2, <1>5 DEF ToSet
  <2>4. QED
    BY <1>1, <2>1, <2>2, <2>3 DEF ToSet
<1>7. ASSUME IsInjective(u), IsInjective(v), ToSet(u) \cap ToSet(v) = {}
      PROVE  IsInjective(c)
  <2>1. \A i \in 1 .. a : u[i] \in ToSet(u)
    BY <1>1 DEF ToSet
  <2>2. \A i \in 1 .. b : v[i] \in ToSet(v)
    BY <1>1 DEF ToSet
  <2>3. \A i, j \in 1 .. a : u[i] = u[j] => i = j
    BY <1>1, <1>7 DEF IsInjective
  <2>4. \A i, j \in 1 .. b : v[i] = v[j] => i = j
    BY <1>1, <1>7 DEF IsInjective
  <2>5. ASSUME NEW i \in 1 .. (a + b), NEW j \in 1 .. (a + b), c[i] = c[j]
        PROVE  i = j
    <3>1. CASE i \in 1 .. a /\ j \in 1 .. a
      BY <1>1, <2>3, <2>5, <3>1
    <3>2. CASE i \in (a + 1) .. (a + b) /\ j \in (a + 1) .. (a + b)
      <4>1. i - a \in 1 .. b /\ j - a \in 1 .. b /\ v[i - a] = v[j - a]
        BY <1>1, <2>5, <3>2
      <4>2. i - a = j - a
        BY <2>4, <4>1
      <4>3. QED
        BY <1>1, <3>2, <4>2
    <3>3. CASE i \in 1 .. a /\ j \in (a + 1) .. (a + b)
      <4>1. c[i] \in ToSet(u) /\ c[j] \in ToSet(v)
        BY <1>1, <1>3, <2>1, <2>2, <3>3
      <4>2. QED
        BY <1>7, <2>5, <4>1
    <3>4. CASE i \in (a + 1) .. (a + b) /\ j \in 1 .. a
      <4>1. c[i] \in ToSet(v) /\ c[j] \in ToSet(u)
        BY <1>1, <1>3, <2>1, <2>2, <3>4
      <4>2. QED
        BY <1>7, <2>5, <4>1
    <3>5. QED
      BY <1>3, <3>1, <3>2, <3>3, <3>4
  <2>6. QED
    BY <1>1, <2>5 DEF IsInjective
<1>8. QED
  BY <1>1, <1>6, <1>7 DEF a, b, c

\* What the n-th stream adds to the records of those before it.
Further(f, components, w, limit, n, got) ==
  IF ~Asked(Streams[n], components) THEN got
  ELSE got \o StreamRecords(f, Streams[n], w, limit - Len(got))

\* What has been read of each of the first last streams.
ReadUpTo(h, f, components, w, limit, last) ==
  /\ h[0] = << >>
  /\ \A n \in 1 .. last : h[n] = Further(f, components, w, limit, n, h[n - 1])

\* There is one, built from the first stream on ...
LEMMA ReadUpToExists ==
  ASSUME NEW f, NEW components, NEW w, NEW limit, NEW last \in Nat
  PROVE  \E h : ReadUpTo(h, f, components, w, limit, last)
<1> DEFINE S == {m \in 0 .. last : \E h : ReadUpTo(h, f, components, w, limit, m)}
<1>1. 0 \in S
  <2> DEFINE h == [n \in {0} |-> << >>]
  <2>1. h[0] = << >> /\ 1 .. 0 = {}
    OBVIOUS
  <2> HIDE DEF h
  <2>2. ReadUpTo(h, f, components, w, limit, 0)
    BY <2>1 DEF ReadUpTo
  <2>3. QED
    BY <2>2
<1>2. ASSUME NEW m \in 1 .. last, m - 1 \in S PROVE m \in S
  <2>1. PICK h : ReadUpTo(h, f, components, w, limit, m - 1)
    BY <1>2
  <2> DEFINE next == Further(f, components, w, limit, m, h[m - 1])
             g == [n \in 0 .. m |-> IF n = m THEN next ELSE h[n]]
  <2>2. m \in Nat /\ m # 0 /\ \A n \in 1 .. m - 1 : n \in 0 .. m /\ n # m /\ n - 1 \in 0 .. m /\ n - 1 # m
    OBVIOUS
  <2>3. g[m] = next /\ \A n \in 0 .. m : n # m => g[n] = h[n]
    BY <2>2
  <2>4. m - 1 \in 0 .. m /\ m - 1 # m /\ 0 \in 0 .. m /\ 0 # m
    BY <2>2
  <2> HIDE DEF g
  <2>5. g[m] = Further(f, components, w, limit, m, g[m - 1])
    BY <2>3, <2>4
  <2> HIDE DEF next
  <2>6. ASSUME NEW n \in 1 .. m - 1 PROVE g[n] = Further(f, components, w, limit, n, g[n - 1])
    <3>1. g[n] = h[n] /\ g[n - 1] = h[n - 1]
      BY <2>2, <2>3
    <3>2. QED
      BY <2>1, <3>1 DEF ReadUpTo
  <2>7. \A n \in 1 .. m : n = m \/ n \in 1 .. m - 1
    BY <2>2
  <2>8. g[0] = << >>
    BY <2>1, <2>3, <2>4 DEF ReadUpTo
  <2>9. ReadUpTo(g, f, components, w, limit, m)
    BY <2>5, <2>6, <2>7, <2>8 DEF ReadUpTo
  <2>10. QED
    BY <2>9
<1>3. \A m \in S : \E h : ReadUpTo(h, f, components, w, limit, m)
  OBVIOUS
<1> HIDE DEF S
<1>4. last \in S
  BY <1>1, <1>2, Upward
<1>5. QED
  BY <1>3, <1>4

\* ... and FileRecords is its last value.
LEMMA FileRecordsSteps ==
  ASSUME NEW f, NEW components, NEW w, NEW limit
  PROVE  \E h : /\ ReadUpTo(h, f, components, w, limit, Len(Streams))
                /\ FileRecords(f, components, w, limit) = h[Len(Streams)]
<1> DEFINE Right(h) ==
      h = [n \in 0 .. Len(Streams) |->
             IF n = 0 THEN << >>
             ELSE IF ~Asked(Streams[n], components) THEN h[n - 1]
             ELSE h[n - 1] \o StreamRecords(f, Streams[n], w, limit - Len(h[n - 1]))]
<1>0. Len(Streams) \in Nat
  BY PathsAssumption
<1>1. PICK h : ReadUpTo(h, f, components, w, limit, Len(Streams))
  BY <1>0, ReadUpToExists
<1> DEFINE c0 == [n \in 0 .. Len(Streams) |-> h[n]]
<1>2. \A n \in 0 .. Len(Streams) : c0[n] = h[n]
  OBVIOUS
<1>3. c0 = [n \in 0 .. Len(Streams) |-> c0[n]]
  OBVIOUS
<1> HIDE DEF c0
<1>4. ASSUME NEW n \in 0 .. Len(Streams)
      PROVE  c0[n] = IF n = 0 THEN << >>
                     ELSE IF ~Asked(Streams[n], components) THEN c0[n - 1]
                     ELSE c0[n - 1] \o StreamRecords(f, Streams[n], w, limit - Len(c0[n - 1]))
  <2>1. CASE n = 0
    BY <1>1, <1>2, <2>1 DEF ReadUpTo
  <2>2. CASE n # 0
    <3>1. n \in 1 .. Len(Streams) /\ n - 1 \in 0 .. Len(Streams)
      BY <1>0, <2>2
    <3>2. c0[n] = h[n] /\ c0[n - 1] = h[n - 1]
      BY <1>2, <3>1
    <3>3. c0[n] = Further(f, components, w, limit, n, c0[n - 1])
      BY <1>1, <3>1, <3>2 DEF ReadUpTo
    <3>4. QED
      BY <2>2, <3>3 DEF Further
  <2>3. QED
    BY <2>1, <2>2
<1>5. Right(c0)
  BY <1>3, <1>4
<1> DEFINE c == CHOOSE g : Right(g)
<1>6. Right(c)
  BY <1>5
<1>7. FileRecords(f, components, w, limit) = c[Len(Streams)]
  BY DEF FileRecords
<1> HIDE DEF c
<1>8. \A n \in 0 .. Len(Streams) :
        c[n] = IF n = 0 THEN << >>
               ELSE IF ~Asked(Streams[n], components) THEN c[n - 1]
               ELSE c[n - 1] \o StreamRecords(f, Streams[n], w, limit - Len(c[n - 1]))
  BY <1>6, Zenon
<1> HIDE DEF Right
<1>9. 0 \in 0 .. Len(Streams) /\ \A n \in 1 .. Len(Streams) : n \in 0 .. Len(Streams) /\ n # 0
  BY <1>0
<1>10. ReadUpTo(c, f, components, w, limit, Len(Streams))
  BY <1>8, <1>9, Zenon DEF ReadUpTo, Further
<1>11. QED
  BY <1>7, <1>10

\* The records of a file: each once, and all that overlap below the limit.
LEMMA FileRecordsRight ==
  ASSUME DiskType, NEW f \in Files, NEW components, NEW w, NEW limit \in Nat,
         NEW got, got = FileRecords(f, components, w, limit)
  PROVE  /\ got \in Seq(Held({f}, StreamSet)) /\ IsInjective(got) /\ Len(got) <= limit
         /\ \A p \in ToSet(got) : Asked(p.stream, components) /\ Overlaps(At(p), w)
         /\ Len(got) < limit =>
              \A p \in Held({f}, StreamSet) :
                Asked(p.stream, components) /\ Overlaps(At(p), w) => p \in ToSet(got)
<1> DEFINE Of(p, n) == \E j \in 1 .. n : p.stream = Streams[j]
           Good(u, n) ==
             /\ u \in Seq(Held({f}, StreamSet)) /\ IsInjective(u) /\ Len(u) <= limit
             /\ \A p \in ToSet(u) : Asked(p.stream, components) /\ Overlaps(At(p), w) /\ Of(p, n)
             /\ Len(u) < limit =>
                  \A p \in Held({f}, StreamSet) :
                    Asked(p.stream, components) /\ Overlaps(At(p), w) /\ Of(p, n) => p \in ToSet(u)
<1> HIDE DEF Good
<1>0. /\ Len(Streams) \in Nat /\ DOMAIN Streams = 1 .. Len(Streams)
      /\ \A n \in 1 .. Len(Streams) : Streams[n] \in StreamSet
      /\ \A m, n \in 1 .. Len(Streams) : Streams[m] = Streams[n] => m = n
  BY PathsAssumption DEF StreamSet, IsInjective
<1>1. PICK h : ReadUpTo(h, f, components, w, limit, Len(Streams)) /\ got = h[Len(Streams)]
  BY FileRecordsSteps
<1> DEFINE S == {n \in 0 .. Len(Streams) : Good(h[n], n)}
<1>2. 0 \in S
  <2>1. h[0] = << >>
    BY <1>1 DEF ReadUpTo
  <2>2. /\ h[0] \in Seq(Held({f}, StreamSet)) /\ IsInjective(h[0]) /\ Len(h[0]) <= limit
        /\ ToSet(h[0]) = {}
    BY <2>1 DEF IsInjective, ToSet
  <2>3. \A p : ~Of(p, 0)
    OBVIOUS
  <2> HIDE DEF Of
  <2>4. Good(h[0], 0)
    BY <2>2, <2>3 DEF Good
  <2>5. QED
    BY <1>0, <2>4
<1>3. ASSUME NEW n \in 1 .. Len(Streams), n - 1 \in S PROVE n \in S
  <2> DEFINE s == Streams[n]
             u == h[n - 1]
  <2>1. Good(u, n - 1) /\ s \in StreamSet /\ n \in Nat
    BY <1>0, <1>3
  <2>2. h[n] = IF ~Asked(s, components) THEN u ELSE u \o StreamRecords(f, s, w, limit - Len(u))
    BY <1>1 DEF ReadUpTo, Further
  <2>3. ASSUME NEW p PROVE Of(p, n) <=> Of(p, n - 1) \/ p.stream = s
    <3>1. \A j \in 1 .. n : j \in 1 .. n - 1 \/ j = n
      BY <2>1
    <3>2. n \in 1 .. n /\ \A j \in 1 .. n - 1 : j \in 1 .. n
      BY <2>1
    <3>3. QED
      BY <3>1, <3>2
  <2>4. ASSUME NEW p, p.stream = s PROVE ~Of(p, n - 1)
    <3> SUFFICES ASSUME NEW j \in 1 .. n - 1, Streams[j] = Streams[n] PROVE FALSE
      BY <2>4
    <3>1. j \in 1 .. Len(Streams) /\ j # n
      BY <1>0, <2>1
    <3>2. QED
      BY <1>0, <3>1
  <2> HIDE DEF s, u, Of
  <2>8. /\ u \in Seq(Held({f}, StreamSet)) /\ IsInjective(u) /\ Len(u) <= limit
        /\ \A p \in ToSet(u) : Asked(p.stream, components) /\ Overlaps(At(p), w) /\ Of(p, n - 1)
        /\ Len(u) < limit =>
             \A p \in Held({f}, StreamSet) :
               Asked(p.stream, components) /\ Overlaps(At(p), w) /\ Of(p, n - 1) => p \in ToSet(u)
    BY <2>1 DEF Good
  <2>5. CASE ~Asked(s, components)
    <3>1. Good(u, n)
      BY <2>1, <2>3, <2>5, <2>8, Zenon DEF Good
    <3>2. QED
      BY <2>2, <2>5, <3>1
  <2>6. CASE Asked(s, components)
    <3> DEFINE v == StreamRecords(f, s, w, limit - Len(u))
    <3>1. Len(u) \in Nat /\ limit - Len(u) \in Nat
      BY <2>8
    <3>2. /\ v \in Seq(Held({f}, {s})) /\ IsInjective(v) /\ Len(v) <= limit - Len(u)
          /\ \A p \in ToSet(v) : Overlaps(At(p), w)
          /\ Len(v) < limit - Len(u) =>
               \A p \in Held({f}, {s}) : Overlaps(At(p), w) => p \in ToSet(v)
      <4> DEFINE left == limit - Len(u)
      <4>1. left \in Nat /\ v = StreamRecords(f, s, w, left)
        BY <3>1
      <4> HIDE DEF left, v, S
      <4>2. /\ v \in Seq(Held({f}, {s})) /\ IsInjective(v) /\ Len(v) <= left
            /\ \A p \in ToSet(v) : Overlaps(At(p), w)
            /\ Len(v) < left => \A p \in Held({f}, {s}) : Overlaps(At(p), w) => p \in ToSet(v)
        BY <2>1, <4>1, StreamRecordsRight
      <4>3. QED
        BY <4>2 DEF left
    <3> HIDE DEF v
    <3>3. Held({f}, {s}) \subseteq Held({f}, StreamSet)
      BY <2>1, HeldGrows
    <3>4. v \in Seq(Held({f}, StreamSet)) /\ Len(v) \in Nat
      <4>1. v \in Seq(Held({f}, StreamSet))
        BY <3>2, <3>3, SeqWider, Zenon
      <4>2. QED
        BY <4>1
    <3>5. \A p \in ToSet(v) : p \in Held({f}, {s})
      BY <3>2 DEF ToSet
    <3>6. \A p \in Held({f}, StreamSet) : p.stream = s <=> p \in Held({f}, {s})
      BY <2>1, HeldPlace
    <3>7. \A p \in ToSet(v) : p.stream = s
      BY <3>3, <3>5, <3>6
    <3>8. ToSet(u) \cap ToSet(v) = {}
      BY <2>4, <2>8, <3>7
    <3>9. /\ u \o v \in Seq(Held({f}, StreamSet)) /\ Len(u \o v) = Len(u) + Len(v)
          /\ ToSet(u \o v) = ToSet(u) \cup ToSet(v) /\ IsInjective(u \o v)
      BY <2>8, <3>2, <3>4, <3>8, Concatenated
    <3>10. Len(u \o v) <= limit
      BY <3>1, <3>2, <3>4, <3>9
    <3>11. \A p \in ToSet(u \o v) : Asked(p.stream, components) /\ Overlaps(At(p), w) /\ Of(p, n)
      BY <2>3, <2>6, <2>8, <3>2, <3>7, <3>9
    <3>12. ASSUME Len(u \o v) < limit, NEW p \in Held({f}, StreamSet),
                  Asked(p.stream, components), Overlaps(At(p), w), Of(p, n)
           PROVE  p \in ToSet(u \o v)
      <4>1. Len(u) < limit /\ Len(v) < limit - Len(u)
        BY <3>1, <3>4, <3>9, <3>12
      <4>2. CASE Of(p, n - 1)
        BY <2>8, <3>9, <3>12, <4>1, <4>2
      <4>3. CASE p.stream = s
        BY <3>2, <3>6, <3>9, <3>12, <4>1, <4>3
      <4>4. QED
        BY <2>3, <3>12, <4>2, <4>3
    <3>13. Good(u \o v, n)
      BY <3>9, <3>10, <3>11, <3>12 DEF Good
    <3>14. h[n] = u \o v
      BY <2>2, <2>6 DEF v
    <3>15. Good(h[n], n)
      BY <3>13, <3>14, Zenon
    <3>16. n \in 0 .. Len(Streams)
      BY <1>0
    <3>17. QED
      BY <3>15, <3>16
  <2>7. QED
    BY <2>5, <2>6
<1> HIDE DEF Of
<1>4. \A n \in S : Good(h[n], n)
  OBVIOUS
<1> HIDE DEF S
<1>5. Len(Streams) \in 0 .. Len(Streams)
  BY <1>0
<1>6. Len(Streams) \in S
  BY <1>0, <1>2, <1>3, <1>5, Upward
<1>7. Good(got, Len(Streams))
  BY <1>1, <1>4, <1>6
<1>8. ASSUME NEW p \in Held({f}, StreamSet) PROVE Of(p, Len(Streams))
  <2>1. p.stream \in StreamSet
    BY HeldPlace
  <2>2. PICK j \in 1 .. Len(Streams) : p.stream = Streams[j]
    BY <1>0, <2>1 DEF StreamSet
  <2>3. QED
    BY <2>2 DEF Of
<1>9. QED
  BY <1>7, <1>8 DEF Good

-----------------------------------------------------------------------------
(* The records of an answer. *)

States == {"idle", "reading", "answered", "exported"}
QueryType ==
  /\ query = [at |-> query.at, components |-> query.components, window |-> query.window,
              limit |-> query.limit, todo |-> query.todo, got |-> query.got,
              truncated |-> query.truncated, skipped |-> query.skipped, due |-> query.due,
              trace |-> query.trace]
  /\ query.at \in States /\ query.truncated \in BOOLEAN /\ query.skipped \in BOOLEAN

\* What a query is about, and has got, are records of the disk.
Asking ==
  /\ query.limit \in Nat \ {0} /\ query.window \in Windows
  /\ query.due \subseteq Held(Files, StreamSet)
  /\ query.got \in Seq(Held(Files, StreamSet)) /\ IsInjective(query.got)
  /\ \A p \in query.due \cup ToSet(query.got) :
       Asked(p.stream, query.components) /\ Overlaps(At(p), query.window)

\* After k files: each record once, from these files, and unless the query is told
\* otherwise all of theirs that were due.
Gathered(k) ==
  /\ query.todo = SubSeq(Paths, k + 1, Len(Paths))
  /\ Len(query.got) < query.limit + k
  /\ \A p \in ToSet(query.got) : \E i \in 1 .. k : p.file = Paths[i]
  /\ query.truncated \/ query.skipped \/
       \A p \in query.due : p \in ToSet(query.got) \/ \E i \in k + 1 .. Len(Paths) : p.file = Paths[i]

AnswerInv ==
  /\ DiskType /\ QueryType
  /\ query.at # "idle" => Asking
  /\ query.at = "reading" => \E k \in 0 .. Len(Paths) : Gathered(k)
  /\ query.at \in {"answered", "exported"} => AnswerComplete

\* The conditions that select records and that define what is due are the same.
LEMMA OverlapsMeets ==
  ASSUME NEW r \in Record, NEW w \in Windows
  PROVE  Overlaps(r, w) <=> Meets(r, w)
<1>1. /\ r.start \in Nat /\ r.npts \in Nat \ {0} /\ r.end \in Int
      /\ r.end \in {Untimed, r.start + r.npts - 1}
      /\ Span(r) = r.start .. (r.start + r.npts - 1)
  BY RecordType
<1>2. w[1] \in Nat /\ w[2] \in Nat /\ w[1] < w[2]
  BY WindowsAssumption
<1>3. CASE r.end = Untimed
  BY <1>3 DEF Overlaps, Meets
<1>4. CASE r.end # Untimed
  <2>1. r.end = r.start + r.npts - 1 /\ Span(r) = r.start .. r.end
    BY <1>1, <1>4
  <2>2. ASSUME r.end >= w[1], r.start <= w[2]
        PROVE  Span(r) \cap (w[1] .. w[2]) # {}
    <3> DEFINE t == IF r.start < w[1] THEN w[1] ELSE r.start
    <3>1. t \in r.start .. r.end /\ t \in w[1] .. w[2]
      BY <1>1, <1>2, <2>1, <2>2
    <3>2. QED
      BY <2>1, <3>1
  <2>3. ASSUME Span(r) \cap (w[1] .. w[2]) # {}
        PROVE  r.end >= w[1] /\ r.start <= w[2]
    <3>1. PICK t : t \in r.start .. r.end /\ t \in w[1] .. w[2]
      BY <2>1, <2>3
    <3>2. QED
      BY <1>1, <1>2, <3>1
  <2>4. QED
    BY <1>4, <2>2, <2>3 DEF Overlaps, Meets
<1>5. QED
  BY <1>3, <1>4

\* Stored, in the terms of the invariant.
LEMMA StoredRight ==
  ASSUME DiskType, NEW files \in SUBSET Files, NEW w \in Windows, NEW components
  PROVE  /\ Stored(files, w, components) \subseteq Held(files, StreamSet)
         /\ \A p \in Held(files, StreamSet) :
              p \in Stored(files, w, components) <=>
                Asked(p.stream, components) /\ Overlaps(At(p), w)
<1>1. Held(files, StreamSet) \subseteq Held(Files, StreamSet)
  BY HeldGrows
<1>2. \A p \in Held(files, StreamSet) : Overlaps(At(p), w) <=> Meets(At(p), w)
  BY <1>1, HeldRecord, OverlapsMeets
<1>3. QED
  BY <1>2 DEF Stored

\* The files are different and all of them.
LEMMA PathsRight ==
  /\ Len(Paths) \in Nat /\ Len(Paths) > 0 /\ DOMAIN Paths = 1 .. Len(Paths)
  /\ \A i \in 1 .. Len(Paths) : Paths[i] \in Files
  /\ \A i, j \in 1 .. Len(Paths) : Paths[i] = Paths[j] => i = j
  /\ \A f \in Files : \E i \in 1 .. Len(Paths) : f = Paths[i]
<1>1. Paths \in Seq(Files) /\ Paths # << >> /\ \A i, j \in DOMAIN Paths : Paths[i] = Paths[j] => i = j
  BY PathsAssumption DEF IsInjective
<1>2. Len(Paths) \in Nat /\ Len(Paths) > 0 /\ DOMAIN Paths = 1 .. Len(Paths)
  BY <1>1
<1>3. QED
  BY <1>1, <1>2 DEF Files

\* The rest of the files.
LEMMA PathsRest ==
  ASSUME NEW k \in 0 .. Len(Paths), NEW todo, todo = SubSeq(Paths, k + 1, Len(Paths))
  PROVE  /\ todo = << >> <=> k = Len(Paths)
         /\ k < Len(Paths) =>
              /\ k + 1 \in 1 .. Len(Paths) /\ Head(todo) = Paths[k + 1]
              /\ Tail(todo) = SubSeq(Paths, (k + 1) + 1, Len(Paths))
<1> DEFINE n == Len(Paths)
<1>1. n \in Nat /\ Paths \in Seq(Files) /\ k \in Nat /\ k <= n
  BY PathsRight, PathsAssumption
<1>2. k + 1 \in 1 .. n + 1 /\ n \in k .. n
  BY <1>1
<1>3. todo \in Seq(Files) /\ Len(todo) = n - k /\ \A i \in 1 .. n - k : todo[i] = Paths[k + i]
  <2>1. Len(todo) = n - k /\ todo \in Seq(Files)
    BY <1>1, SubSeqProperties
  <2>2. \A i \in 1 .. n - k : todo[i] = Paths[(k + 1) + i - 1] /\ (k + 1) + i - 1 = k + i
    BY <1>1, SubSeqProperties
  <2>3. QED
    BY <2>1, <2>2
<1> HIDE DEF n
<1>4. todo = << >> <=> k = n
  <2>1. todo = << >> <=> Len(todo) = 0
    BY <1>3, EmptySeq
  <2>2. QED
    BY <1>1, <1>3, <2>1
<1>5. ASSUME k < n
      PROVE  /\ k + 1 \in 1 .. n /\ Head(todo) = Paths[k + 1]
             /\ Tail(todo) = SubSeq(Paths, (k + 1) + 1, n)
  <2>1. k + 1 \in 1 .. n /\ 1 \in 1 .. n - k /\ todo # << >>
    BY <1>1, <1>4, <1>5
  <2>2. Head(todo) = Paths[k + 1]
    BY <1>3, <2>1
  <2> DEFINE u == Tail(todo)
             v == SubSeq(Paths, (k + 1) + 1, n)
  <2> HIDE DEF u, v
  <2>3. u \in Seq(Files) /\ Len(u) = n - k - 1 /\ \A i \in 1 .. n - k - 1 : u[i] = todo[i + 1]
    BY <1>1, <1>3, <2>1, HeadTailProperties DEF u
  <2>4. v \in Seq(Files) /\ Len(v) = n - k - 1 /\ \A i \in 1 .. n - k - 1 : v[i] = Paths[(k + 1) + 1 + i - 1]
    <3> DEFINE m == (k + 1) + 1
    <3>1. m \in Int /\ n \in Int /\ n - m + 1 = n - k - 1 /\ (IF m <= n THEN n - m + 1 ELSE 0) = n - k - 1
      BY <1>1, <1>5
    <3>2. \A i \in m .. n : Paths[i] \in Files
      BY <1>1, PathsRight DEF n
    <3>3. v = SubSeq(Paths, m, n)
      BY DEF v
    <3> HIDE DEF m
    <3>4. /\ SubSeq(Paths, m, n) \in Seq(Files)
          /\ Len(SubSeq(Paths, m, n)) = IF m <= n THEN n - m + 1 ELSE 0
          /\ \A i \in 1 .. n - m + 1 : SubSeq(Paths, m, n)[i] = Paths[m + i - 1]
      BY <3>1, <3>2, SubSeqProperties
    <3>5. v \in Seq(Files) /\ Len(v) = n - k - 1 /\ \A i \in 1 .. n - k - 1 : v[i] = Paths[m + i - 1]
      BY <3>1, <3>3, <3>4
    <3>6. QED
      BY <3>5 DEF m
  <2>5. \A i \in 1 .. n - k - 1 : i + 1 \in 1 .. n - k /\ (k + 1) + 1 + i - 1 = k + (i + 1)
    BY <1>1
  <2>6. \A i \in 1 .. Len(u) : u[i] = v[i]
    BY <1>3, <2>3, <2>4, <2>5
  <2>7. u = v
    BY <2>3, <2>4, <2>6, SeqEqual
  <2>8. QED
    BY <2>1, <2>2, <2>7 DEF u, v
<1>6. QED
  BY <1>4, <1>5 DEF n

\* What does not touch the disk.
LEMMA SameDisk ==
  ASSUME disk' = disk
  PROVE  /\ DiskType => DiskType'
         /\ Held(Files, StreamSet)' = Held(Files, StreamSet)
         /\ \A p : At(p)' = At(p)
BY DEF DiskType, Held, At

LEMMA AnswerStarts == ReaderInit => AnswerInv
<1> SUFFICES ASSUME ReaderInit PROVE AnswerInv
  OBVIOUS
<1>1. DiskType
  BY RecordsAssumption DEF ReaderInit, DiskType
<1>2. query = NoQuery
  BY DEF ReaderInit
<1>3. QueryType /\ query.at = "idle"
  BY <1>2 DEF NoQuery, QueryType, States
<1>4. QED
  BY <1>1, <1>3 DEF AnswerInv

LEMMA AnswerAsk ==
  ASSUME AnswerInv, NEW c, NEW w \in Windows, NEW limit \in Limits, Ask(c, w, limit)
  PROVE  AnswerInv'
<1>1. disk' = disk /\ DiskType /\ limit \in Nat \ {0}
  BY LimitsAssumption DEF Ask, AnswerInv
<1>2. query' = [at |-> "reading", components |-> c, window |-> w, limit |-> limit, todo |-> Paths,
                got |-> << >>, truncated |-> FALSE, skipped |-> FALSE,
                due |-> Stored(Files, w, c), trace |-> [s \in StreamSet |-> << >>]]
  BY Zenon DEF Ask, NoQuery
<1>3. /\ query'.at = "reading" /\ query'.components = c /\ query'.window = w /\ query'.limit = limit
      /\ query'.todo = Paths /\ query'.got = << >> /\ query'.truncated = FALSE
      /\ query'.skipped = FALSE /\ query'.due = Stored(Files, w, c)
  BY <1>2
<1>4. QueryType'
  BY <1>2 DEF QueryType, States
<1>5. ToSet(<< >>) = {} /\ IsInjective(<< >>) /\ Len(<< >>) = 0
  BY DEF ToSet, IsInjective
<1>6. /\ Stored(Files, w, c) \subseteq Held(Files, StreamSet)
      /\ \A p \in Stored(Files, w, c) : Asked(p.stream, c) /\ Overlaps(At(p), w)
  BY <1>1, StoredRight
<1>7. Asking'
  <2>1. << >> \in Seq(Held(Files, StreamSet))
    BY EmptySeq
  <2>2. QED
    BY <1>1, <1>3, <1>5, <1>6, <2>1, SameDisk DEF Asking
<1>8. Gathered(0)'
  <2>1. Paths = SubSeq(Paths, 0 + 1, Len(Paths))
    BY PathsAssumption
  <2>2. \A p \in Stored(Files, w, c) : \E i \in 0 + 1 .. Len(Paths) : p.file = Paths[i]
    <3> SUFFICES ASSUME NEW p \in Stored(Files, w, c)
                 PROVE  \E i \in 0 + 1 .. Len(Paths) : p.file = Paths[i]
      OBVIOUS
    <3>1. p.file \in Files
      BY <1>1, <1>6, HeldPlace
    <3>2. QED
      BY <3>1, PathsRight
  <2>3. Len(<< >>) < limit + 0
    BY <1>1
  <2>4. QED
    BY <1>3, <1>5, <2>1, <2>2, <2>3 DEF Gathered
<1>9. 0 \in 0 .. Len(Paths)
  BY PathsRight
<1>10. DiskType'
  BY <1>1, SameDisk
<1>11. QED
  BY <1>3, <1>4, <1>7, <1>8, <1>9, <1>10 DEF AnswerInv

\* The next file adds its records to those of the files before.
LEMMA AnswerRead ==
  ASSUME AnswerInv, ReadFile
  PROVE  AnswerInv'
<1> DEFINE f == Head(query.todo)
           left == IF Len(query.got) < query.limit THEN query.limit - Len(query.got) ELSE 0
           budget == IF left = 0 THEN 1 ELSE left
           part == FileRecords(f, query.components, query.window, budget)
           trace == [s \in StreamSet |-> query.trace[s] \o Downsample(Points(ToSet(part), s, query.window))]
<1>1. /\ disk' = disk /\ DiskType /\ QueryType /\ Asking
      /\ query.at = "reading" /\ query.todo # << >>
  BY DEF ReadFile, AnswerInv
<1>2. PICK k \in 0 .. Len(Paths) : Gathered(k)
  BY <1>1 DEF AnswerInv
<1>3. query' = [query EXCEPT !.todo = Tail(query.todo), !.got = query.got \o part,
                  !.truncated = query.truncated \/ Len(part) >= budget, !.trace = trace]
  BY DEF ReadFile
<1>4. query' = [at |-> query.at, components |-> query.components, window |-> query.window,
                limit |-> query.limit, todo |-> Tail(query.todo), got |-> query.got \o part,
                truncated |-> (query.truncated \/ Len(part) >= budget),
                skipped |-> query.skipped, due |-> query.due, trace |-> trace]
  <2> HIDE DEF part, trace, budget
  <2>1. QED
    BY <1>1, <1>3, Zenon DEF QueryType
<1>5. /\ query'.at = "reading" /\ query'.components = query.components
      /\ query'.window = query.window /\ query'.limit = query.limit
      /\ query'.todo = Tail(query.todo) /\ query'.got = query.got \o part
      /\ query'.skipped = query.skipped /\ query'.due = query.due
  <2> HIDE DEF part, trace, budget
  <2>1. QED
    BY <1>1, <1>4
<1>6. query'.truncated = (query.truncated \/ Len(part) >= budget)
  <2> HIDE DEF part, trace, budget
  <2>1. QED
    BY <1>4, Zenon
<1>7. /\ query.limit \in Nat \ {0} /\ query.window \in Windows
      /\ query.due \subseteq Held(Files, StreamSet)
      /\ query.got \in Seq(Held(Files, StreamSet)) /\ IsInjective(query.got)
      /\ \A p \in query.due \cup ToSet(query.got) :
           Asked(p.stream, query.components) /\ Overlaps(At(p), query.window)
  BY <1>1 DEF Asking
<1>8. /\ query.todo = SubSeq(Paths, k + 1, Len(Paths))
      /\ Len(query.got) < query.limit + k
      /\ \A p \in ToSet(query.got) : \E i \in 1 .. k : p.file = Paths[i]
      /\ query.truncated \/ query.skipped \/
           \A p \in query.due :
             p \in ToSet(query.got) \/ \E i \in k + 1 .. Len(Paths) : p.file = Paths[i]
  BY <1>2 DEF Gathered
<1>9. /\ k \in Nat /\ k + 1 \in 0 .. Len(Paths) /\ k + 1 \in 1 .. Len(Paths)
      /\ f = Paths[k + 1] /\ Tail(query.todo) = SubSeq(Paths, (k + 1) + 1, Len(Paths))
  <2>1. k < Len(Paths) /\ k \in Nat
    <3>1. query.todo = SubSeq(Paths, k + 1, Len(Paths))
      BY <1>8
    <3>2. k # Len(Paths)
      BY <1>1, <3>1, PathsRest
    <3>3. k \in Nat /\ k <= Len(Paths) /\ Len(Paths) \in Nat
      BY PathsRight
    <3>4. QED
      BY <3>2, <3>3
  <2> DEFINE todo == query.todo
  <2>2. todo = SubSeq(Paths, k + 1, Len(Paths))
    BY <1>8
  <2>3. f = Head(todo)
    OBVIOUS
  <2> HIDE DEF todo, f
  <2>4. /\ k + 1 \in 1 .. Len(Paths) /\ Head(todo) = Paths[k + 1]
        /\ Tail(todo) = SubSeq(Paths, (k + 1) + 1, Len(Paths))
    BY <2>1, <2>2, PathsRest
  <2>5. k + 1 \in 0 .. Len(Paths)
    BY <2>1, PathsRight
  <2>6. QED
    BY <2>1, <2>3, <2>4, <2>5 DEF todo
<1>10. f \in Files
  BY <1>9, PathsRight
<1>11. Len(query.got) \in Nat
  BY <1>7
<1>12. budget \in Nat /\ budget # 0 /\ (Len(query.got) + budget < query.limit + (k + 1))
  BY <1>7, <1>8, <1>9, <1>11
<1> HIDE DEF f, left, budget
<1>13. part = FileRecords(f, query.components, query.window, budget)
  OBVIOUS
<1> HIDE DEF part, trace
<1>14. /\ part \in Seq(Held({f}, StreamSet)) /\ IsInjective(part) /\ Len(part) <= budget
       /\ \A p \in ToSet(part) : Asked(p.stream, query.components) /\ Overlaps(At(p), query.window)
       /\ Len(part) < budget =>
            \A p \in Held({f}, StreamSet) :
              Asked(p.stream, query.components) /\ Overlaps(At(p), query.window) => p \in ToSet(part)
  <2> DEFINE c == query.components
             w == query.window
  <2>1. part = FileRecords(f, c, w, budget)
    BY <1>13
  <2> HIDE DEF c, w
  <2>2. /\ part \in Seq(Held({f}, StreamSet)) /\ IsInjective(part) /\ Len(part) <= budget
        /\ \A p \in ToSet(part) : Asked(p.stream, c) /\ Overlaps(At(p), w)
        /\ Len(part) < budget =>
             \A p \in Held({f}, StreamSet) :
               Asked(p.stream, c) /\ Overlaps(At(p), w) => p \in ToSet(part)
    BY <1>1, <1>10, <1>12, <2>1, FileRecordsRight
  <2>3. QED
    BY <2>2 DEF c, w
<1>15. Held({f}, StreamSet) \subseteq Held(Files, StreamSet)
  BY <1>10, HeldGrows
<1>16. part \in Seq(Held(Files, StreamSet))
  BY <1>14, <1>15, SeqWider, Zenon
<1>17. Len(part) \in Nat
  BY <1>16
<1>18. \A p \in ToSet(part) : p \in Held({f}, StreamSet)
  BY <1>14 DEF ToSet
<1>19. \A p \in Held(Files, StreamSet) : p.file = f <=> p \in Held({f}, StreamSet)
  BY <1>1, <1>10, HeldPlace
<1>20. \A p \in ToSet(part) : p.file = Paths[k + 1]
  BY <1>9, <1>15, <1>18, <1>19
<1>21. ToSet(query.got) \cap ToSet(part) = {}
  <2> SUFFICES ASSUME NEW p \in ToSet(query.got), p \in ToSet(part) PROVE FALSE
    OBVIOUS
  <2>1. PICK i \in 1 .. k : p.file = Paths[i]
    BY <1>8
  <2>2. i \in 1 .. Len(Paths) /\ i # k + 1
    BY <1>9, <2>1
  <2>3. QED
    BY <1>9, <1>20, <2>1, <2>2, PathsRight
<1>22. /\ query'.got \in Seq(Held(Files, StreamSet)) /\ IsInjective(query'.got)
       /\ ToSet(query'.got) = ToSet(query.got) \cup ToSet(part)
       /\ Len(query'.got) = Len(query.got) + Len(part)
  BY <1>5, <1>7, <1>14, <1>16, <1>21, Concatenated
<1>23. Asking'
  <2>1. \A p \in query'.due \cup ToSet(query'.got) :
          Asked(p.stream, query'.components) /\ Overlaps(At(p)', query'.window)
    BY <1>1, <1>5, <1>7, <1>14, <1>22, SameDisk
  <2>2. QED
    BY <1>1, <1>5, <1>7, <1>22, <2>1, SameDisk DEF Asking
<1>24. Gathered(k + 1)'
  <2>1. Len(query'.got) < query'.limit + (k + 1)
    BY <1>5, <1>7, <1>9, <1>11, <1>12, <1>14, <1>17, <1>22
  <2>2. \A p \in ToSet(query'.got) : \E i \in 1 .. k + 1 : p.file = Paths[i]
    <3>1. \A i \in 1 .. k : i \in 1 .. k + 1
      BY <1>9
    <3>2. k + 1 \in 1 .. k + 1
      BY <1>9
    <3>3. QED
      BY <1>8, <1>20, <1>22, <3>1, <3>2
  <2>3. ASSUME ~query'.truncated, ~query'.skipped, NEW p \in query'.due
        PROVE  p \in ToSet(query'.got) \/ \E i \in (k + 1) + 1 .. Len(Paths) : p.file = Paths[i]
    <3>1. ~query.truncated /\ ~(Len(part) >= budget)
      BY <1>6, <2>3, Zenon
    <3>2. ~query.skipped /\ p \in query.due /\ Len(part) < budget
      BY <1>5, <1>12, <1>17, <2>3, <3>1
    <3>3. p \in ToSet(query.got) \/ \E i \in k + 1 .. Len(Paths) : p.file = Paths[i]
      BY <1>8, <3>1, <3>2
    <3>4. CASE p \in ToSet(query.got)
      BY <1>22, <3>4
    <3>5. ASSUME NEW i \in k + 1 .. Len(Paths), p.file = Paths[i]
          PROVE  p \in ToSet(query'.got) \/ \E j \in (k + 1) + 1 .. Len(Paths) : p.file = Paths[j]
      <4>1. i = k + 1 \/ i \in (k + 1) + 1 .. Len(Paths)
        BY <1>9, PathsRight
      <4>2. CASE i = k + 1
        <5>1. p \in Held({f}, StreamSet)
          BY <1>7, <1>9, <1>19, <3>2, <3>5, <4>2
        <5>2. Asked(p.stream, query.components) /\ Overlaps(At(p), query.window)
          BY <1>7, <3>2
        <5>3. QED
          BY <1>14, <1>22, <3>2, <5>1, <5>2
      <4>3. QED
        BY <3>5, <4>1, <4>2
    <3>6. QED
      BY <3>3, <3>4, <3>5
  <2>4. QED
    BY <1>5, <1>9, <2>1, <2>2, <2>3 DEF Gathered
<1>25. QueryType'
  <2>1. query'.truncated \in BOOLEAN
    BY <1>6, Zenon
  <2>2. query'.skipped \in BOOLEAN /\ query'.at \in States
    BY <1>1, <1>5 DEF QueryType, States
  <2>3. query' = [at |-> query'.at, components |-> query'.components, window |-> query'.window,
                  limit |-> query'.limit, todo |-> query'.todo, got |-> query'.got,
                  truncated |-> query'.truncated, skipped |-> query'.skipped, due |-> query'.due,
                  trace |-> query'.trace]
    BY <1>4
  <2>4. QED
    BY <2>1, <2>2, <2>3, Zenon DEF QueryType
<1>26. DiskType'
  BY <1>1, SameDisk
<1>27. QED
  BY <1>5, <1>9, <1>23, <1>24, <1>25, <1>26 DEF AnswerInv

\* A file that is passed over is told.
LEMMA AnswerSkip ==
  ASSUME AnswerInv, SkipFile
  PROVE  AnswerInv'
<1>1. /\ disk' = disk /\ DiskType /\ QueryType /\ Asking
      /\ query.at = "reading" /\ query.todo # << >>
  BY DEF SkipFile, AnswerInv
<1>2. PICK k \in 0 .. Len(Paths) : Gathered(k)
  BY <1>1 DEF AnswerInv
<1>3. query' = [query EXCEPT !.todo = Tail(query.todo), !.skipped = TRUE]
  BY DEF SkipFile
<1>4. query' = [at |-> query.at, components |-> query.components, window |-> query.window,
                limit |-> query.limit, todo |-> Tail(query.todo), got |-> query.got,
                truncated |-> query.truncated, skipped |-> TRUE, due |-> query.due,
                trace |-> query.trace]
  BY <1>1, <1>3, Zenon DEF QueryType
<1>5. /\ query'.at = "reading" /\ query'.components = query.components
      /\ query'.window = query.window /\ query'.limit = query.limit
      /\ query'.todo = Tail(query.todo) /\ query'.got = query.got
      /\ query'.truncated = query.truncated /\ query'.skipped = TRUE /\ query'.due = query.due
  BY <1>1, <1>4
<1>6. QueryType'
  <2>1. query' = [at |-> query'.at, components |-> query'.components, window |-> query'.window,
                  limit |-> query'.limit, todo |-> query'.todo, got |-> query'.got,
                  truncated |-> query'.truncated, skipped |-> query'.skipped, due |-> query'.due,
                  trace |-> query'.trace]
    BY <1>4
  <2>2. query'.truncated \in BOOLEAN /\ query'.skipped \in BOOLEAN /\ query'.at \in States
    BY <1>1, <1>5 DEF QueryType
  <2>3. QED
    BY <2>1, <2>2, Zenon DEF QueryType
<1>7. Asking'
  BY <1>1, <1>5, SameDisk DEF Asking
<1>8. /\ query.todo = SubSeq(Paths, k + 1, Len(Paths))
      /\ Len(query.got) < query.limit + k
      /\ \A p \in ToSet(query.got) : \E i \in 1 .. k : p.file = Paths[i]
  BY <1>2 DEF Gathered
<1>9. k \in Nat /\ k < Len(Paths)
  <2>1. k # Len(Paths)
    BY <1>1, <1>8, PathsRest
  <2>2. k \in Nat /\ k <= Len(Paths) /\ Len(Paths) \in Nat
    BY PathsRight
  <2>3. QED
    BY <2>1, <2>2
<1>10. Gathered(k + 1)'
  <2>1. Tail(query.todo) = SubSeq(Paths, (k + 1) + 1, Len(Paths))
    BY <1>8, <1>9, PathsRest
  <2>2. Len(query.got) < query.limit + (k + 1)
    <3>1. Len(query.got) \in Nat /\ query.limit \in Nat
      BY <1>1 DEF Asking
    <3>2. QED
      BY <1>8, <1>9, <3>1
  <2>3. \A i \in 1 .. k : i \in 1 .. k + 1
    BY <1>9
  <2>4. \A p \in ToSet(query.got) : \E i \in 1 .. k + 1 : p.file = Paths[i]
    BY <1>8, <2>3
  <2>5. QED
    BY <1>5, <2>1, <2>2, <2>4 DEF Gathered
<1>11. k + 1 \in 0 .. Len(Paths)
  BY <1>9, PathsRight
<1>12. DiskType'
  BY <1>1, SameDisk
<1>13. QED
  BY <1>5, <1>6, <1>7, <1>10, <1>11, <1>12 DEF AnswerInv

\* What is got at the end is an answer.
LEMMA AnswerGiven ==
  ASSUME AnswerInv, Answer
  PROVE  AnswerInv'
<1> DEFINE trace == IF Len(Paths) = 1 THEN query.trace
                    ELSE [s \in StreamSet |-> Downsample(ByTime(query.trace[s]))]
<1>1. /\ disk' = disk /\ DiskType /\ QueryType /\ Asking
      /\ query.at = "reading" /\ query.todo = << >>
  BY DEF Answer, AnswerInv
<1>2. PICK k \in 0 .. Len(Paths) : Gathered(k)
  BY <1>1 DEF AnswerInv
<1>3. query' = [query EXCEPT !.at = "answered", !.trace = trace]
  BY DEF Answer
<1> HIDE DEF trace
<1>4. query' = [at |-> "answered", components |-> query.components, window |-> query.window,
                limit |-> query.limit, todo |-> query.todo, got |-> query.got,
                truncated |-> query.truncated, skipped |-> query.skipped, due |-> query.due,
                trace |-> trace]
  BY <1>1, <1>3, Zenon DEF QueryType
<1>5. /\ query'.at = "answered" /\ query'.components = query.components
      /\ query'.window = query.window /\ query'.limit = query.limit /\ query'.got = query.got
      /\ query'.truncated = query.truncated /\ query'.skipped = query.skipped
      /\ query'.due = query.due
  BY <1>4
<1>6. QueryType'
  <2>1. query' = [at |-> query'.at, components |-> query'.components, window |-> query'.window,
                  limit |-> query'.limit, todo |-> query'.todo, got |-> query'.got,
                  truncated |-> query'.truncated, skipped |-> query'.skipped, due |-> query'.due,
                  trace |-> query'.trace]
    BY <1>4
  <2>2. query'.truncated \in BOOLEAN /\ query'.skipped \in BOOLEAN /\ query'.at \in States
    BY <1>1, <1>5 DEF QueryType, States
  <2>3. QED
    BY <2>1, <2>2, Zenon DEF QueryType
<1>7. Asking'
  BY <1>1, <1>5, SameDisk DEF Asking
<1>8. k = Len(Paths) /\ k \in Nat
  <2>1. query.todo = SubSeq(Paths, k + 1, Len(Paths))
    BY <1>2 DEF Gathered
  <2>2. k = Len(Paths)
    BY <1>1, <2>1, PathsRest
  <2>3. QED
    BY <2>2, PathsRight
<1>9. AnswerComplete'
  <2>1. query'.truncated \/ query'.skipped \/ query'.due \subseteq ToSet(query'.got)
    <3>1. \A i : i \notin k + 1 .. Len(Paths)
      BY <1>8
    <3>2. query.truncated \/ query.skipped \/ \A p \in query.due : p \in ToSet(query.got)
      BY <1>2, <3>1 DEF Gathered
    <3>3. QED
      BY <1>5, <3>2, Zenon
  <2>2. ASSUME NEW p \in ToSet(query.got)
        PROVE  Asked(p.stream, query.components) /\ Meets(At(p), query.window)
    <3>1. p \in Held(Files, StreamSet)
      BY <1>1 DEF Asking, ToSet
    <3>2. At(p) \in Record
      BY <1>1, <3>1, HeldRecord
    <3>3. Overlaps(At(p), query.window) /\ query.window \in Windows
      BY <1>1 DEF Asking
    <3>4. Meets(At(p), query.window)
      BY <3>2, <3>3, OverlapsMeets
    <3>5. QED
      BY <1>1, <3>4 DEF Asking
  <2>3. IsInjective(query'.got) /\ Len(query'.got) < query'.limit + Len(Paths)
    BY <1>1, <1>2, <1>5, <1>8 DEF Asking, Gathered
  <2>4. \A p \in ToSet(query'.got) : Asked(p.stream, query'.components) /\ Meets(At(p)', query'.window)
    BY <1>1, <1>5, <2>2, SameDisk
  <2>5. QED
    BY <2>1, <2>3, <2>4, Zenon DEF AnswerComplete
<1>10. DiskType'
  BY <1>1, SameDisk
<1>11. QED
  BY <1>5, <1>6, <1>7, <1>9, <1>10 DEF AnswerInv

\* An export is read from one file at once.
LEMMA AnswerExport ==
  ASSUME AnswerInv, NEW c, NEW w \in Windows, NEW limit \in Limits, Export(c, w, limit)
  PROVE  AnswerInv'
<1> DEFINE f == Paths[1]
           got == FileRecords(f, c, w, limit)
<1>1. disk' = disk /\ DiskType /\ limit \in Nat /\ limit # 0
  BY LimitsAssumption DEF Export, AnswerInv
<1>2. f \in Files /\ Len(Paths) \in Nat /\ Len(Paths) > 0
  BY PathsRight
<1>3. query' = [at |-> "exported", components |-> c, window |-> w, limit |-> limit, todo |-> << >>,
                got |-> got, truncated |-> Len(got) >= limit, skipped |-> FALSE,
                due |-> Stored({f}, w, c), trace |-> << >>]
  BY Zenon DEF Export, NoQuery
<1> HIDE DEF f
<1>4. /\ got \in Seq(Held({f}, StreamSet)) /\ IsInjective(got) /\ Len(got) <= limit
      /\ \A p \in ToSet(got) : Asked(p.stream, c) /\ Overlaps(At(p), w)
      /\ Len(got) < limit =>
           \A p \in Held({f}, StreamSet) : Asked(p.stream, c) /\ Overlaps(At(p), w) => p \in ToSet(got)
  BY <1>1, <1>2, FileRecordsRight
<1> HIDE DEF got
<1>5. /\ query'.at = "exported" /\ query'.components = c /\ query'.window = w
      /\ query'.limit = limit /\ query'.got = got /\ query'.skipped = FALSE
      /\ query'.due = Stored({f}, w, c)
  BY <1>3
<1>6. query'.truncated = (Len(got) >= limit)
  BY <1>3, Zenon
<1>7. QueryType'
  <2>1. query' = [at |-> query'.at, components |-> query'.components, window |-> query'.window,
                  limit |-> query'.limit, todo |-> query'.todo, got |-> query'.got,
                  truncated |-> query'.truncated, skipped |-> query'.skipped, due |-> query'.due,
                  trace |-> query'.trace]
    BY <1>3
  <2>2. query'.truncated \in BOOLEAN
    <3>1. (Len(got) >= limit) \in BOOLEAN
      OBVIOUS
    <3>2. QED
      BY <1>6, <3>1, Zenon
  <2>3. query'.skipped \in BOOLEAN /\ query'.at \in States
    BY <1>5 DEF States
  <2>4. QED
    BY <2>1, <2>2, <2>3, Zenon DEF QueryType
<1>8. Held({f}, StreamSet) \subseteq Held(Files, StreamSet)
  BY <1>2, HeldGrows
<1>9. /\ Stored({f}, w, c) \subseteq Held({f}, StreamSet)
      /\ \A p \in Stored({f}, w, c) : Asked(p.stream, c) /\ Overlaps(At(p), w)
  BY <1>1, <1>2, StoredRight
<1>10. got \in Seq(Held(Files, StreamSet)) /\ Len(got) \in Nat
  <2>1. got \in Seq(Held(Files, StreamSet))
    BY <1>4, <1>8, SeqWider, Zenon
  <2>2. QED
    BY <2>1
<1>11. Asking'
  <2>1. Stored({f}, w, c) \subseteq Held(Files, StreamSet)
    BY <1>8, <1>9
  <2>2. QED
    BY <1>1, <1>4, <1>5, <1>9, <1>10, <2>1, SameDisk DEF Asking
<1>12. AnswerComplete'
  <2>1. query'.truncated \/ query'.skipped \/ query'.due \subseteq ToSet(query'.got)
    <3>1. CASE Len(got) >= limit
      BY <1>6, <3>1, Zenon
    <3>2. CASE Len(got) < limit
      <4>1. query'.due \subseteq ToSet(query'.got)
        BY <1>4, <1>5, <1>9, <3>2
      <4>2. QED
        BY <4>1, Zenon
    <3>3. QED
      BY <1>1, <1>10, <3>1, <3>2
  <2>2. \A p \in ToSet(got) : At(p) \in Record
    <3>1. \A p \in ToSet(got) : p \in Held(Files, StreamSet)
      BY <1>10 DEF ToSet
    <3>2. QED
      BY <1>1, <3>1, HeldRecord
  <2>3. \A p \in ToSet(query'.got) : Asked(p.stream, query'.components) /\ Meets(At(p)', query'.window)
    BY <1>1, <1>4, <1>5, <2>2, OverlapsMeets, SameDisk
  <2>4. IsInjective(query'.got) /\ Len(query'.got) < query'.limit + Len(Paths)
    BY <1>1, <1>2, <1>4, <1>5, <1>10
  <2>5. QED
    BY <2>1, <2>3, <2>4, Zenon DEF AnswerComplete
<1>13. DiskType'
  BY <1>1, SameDisk
<1>14. QED
  BY <1>5, <1>7, <1>11, <1>12, <1>13 DEF AnswerInv

\* A record that arrives leaves the places of the others.
LEMMA AppendPlaces ==
  ASSUME DiskType, NEW f \in Files, NEW s \in StreamSet, NEW r \in Arriving, AppendRecord(f, s, r)
  PROVE  /\ DiskType'
         /\ Held(Files, StreamSet) \subseteq Held(Files, StreamSet)'
         /\ \A p \in Held(Files, StreamSet) : At(p)' = At(p)
<1>0. r \in Record /\ "index" \in Parts
  BY RecordsAssumption DEF Parts
<1>1. disk' = [disk EXCEPT ![f][s]["index"] = Append(disk[f][s]["index"], r)]
  BY DEF AppendRecord
<1>2. \A g \in Files : disk[g] \in [StreamSet -> [Parts -> Seq(Record)]]
  BY DEF DiskType
<1>3. \A g \in Files, t \in StreamSet, part \in Parts : disk[g][t][part] \in Seq(Record)
  BY <1>2
<1>4. DiskType'
  <2>1. Append(disk[f][s]["index"], r) \in Seq(Record)
    BY <1>0, <1>3
  <2>2. QED
    BY <1>0, <1>1, <2>1 DEF DiskType
<1>5. ASSUME NEW g \in Files, NEW t \in StreamSet, NEW part \in Parts
      PROVE  disk'[g][t][part] = IF g = f /\ t = s /\ part = "index"
                                 THEN Append(disk[g][t][part], r) ELSE disk[g][t][part]
  BY <1>0, <1>1, <1>2 DEF DiskType
<1>6. ASSUME NEW g \in Files, NEW t \in StreamSet, NEW part \in Parts
      PROVE  /\ DOMAIN disk[g][t][part] \subseteq DOMAIN disk'[g][t][part]
             /\ \A i \in DOMAIN disk[g][t][part] : disk'[g][t][part][i] = disk[g][t][part][i]
  <2> DEFINE old == disk[g][t][part]
             new == disk'[g][t][part]
  <2>1. old \in Seq(Record) /\ (new = old \/ new = Append(old, r))
    BY <1>3, <1>5
  <2> HIDE DEF old, new
  <2>2. DOMAIN old \subseteq DOMAIN new /\ \A i \in DOMAIN old : new[i] = old[i]
    BY <1>0, <2>1
  <2>3. QED
    BY <2>2 DEF old, new
<1>7. ASSUME NEW p \in Held(Files, StreamSet)
      PROVE  p \in Held(Files, StreamSet)' /\ At(p)' = At(p)
  <2>1. PICK at \in Files \X StreamSet \X Parts :
          p \in [file : {at[1]}, stream : {at[2]}, part : {at[3]}, i : DOMAIN disk[at[1]][at[2]][at[3]]]
    BY DEF Held
  <2>2. at[1] \in Files /\ at[2] \in StreamSet /\ at[3] \in Parts
    OBVIOUS
  <2>3. /\ p = [file |-> at[1], stream |-> at[2], part |-> at[3], i |-> p.i]
        /\ p.i \in DOMAIN disk[at[1]][at[2]][at[3]]
    BY <2>1
  <2>4. p.i \in DOMAIN disk'[at[1]][at[2]][at[3]]
    BY <1>6, <2>2, <2>3
  <2>5. p \in [file : {at[1]}, stream : {at[2]}, part : {at[3]}, i : DOMAIN disk'[at[1]][at[2]][at[3]]]
    BY <2>3, <2>4
  <2>6. p \in Held(Files, StreamSet)'
    BY <2>5 DEF Held
  <2>7. p.file = at[1] /\ p.stream = at[2] /\ p.part = at[3]
    BY <2>3
  <2>8. At(p)' = At(p)
    BY <1>6, <2>2, <2>3, <2>7 DEF At
  <2>9. QED
    BY <2>6, <2>8
<1>8. QED
  BY <1>4, <1>7

LEMMA AnswerAppend ==
  ASSUME AnswerInv, NEW f \in Files, NEW s \in StreamSet, NEW r \in Arriving, AppendRecord(f, s, r)
  PROVE  AnswerInv'
<1>1. query' = query /\ query.at = "reading" /\ DiskType /\ QueryType /\ Asking
  BY DEF AppendRecord, AnswerInv
<1>2. /\ DiskType'
      /\ Held(Files, StreamSet) \subseteq Held(Files, StreamSet)'
      /\ \A p \in Held(Files, StreamSet) : At(p)' = At(p)
  BY <1>1, AppendPlaces
<1>3. Asking'
  <2>1. query.got \in Seq(Held(Files, StreamSet)')
    BY <1>1, <1>2, SeqWider, Zenon DEF Asking
  <2>2. \A p \in query.due \cup ToSet(query.got) : p \in Held(Files, StreamSet)
    BY <1>1 DEF Asking, ToSet
  <2>3. \A p \in query.due \cup ToSet(query.got) :
          Asked(p.stream, query.components) /\ Overlaps(At(p)', query.window)
    BY <1>1, <1>2, <2>2 DEF Asking
  <2>4. query.due \subseteq Held(Files, StreamSet)'
    BY <1>2, <2>2
  <2>5. QED
    BY <1>1, <2>1, <2>3, <2>4 DEF Asking
<1>4. QueryType'
  BY <1>1 DEF QueryType
<1>5. \A k \in 0 .. Len(Paths) : Gathered(k) => Gathered(k)'
  BY <1>1 DEF Gathered
<1>6. QED
  BY <1>1, <1>2, <1>3, <1>4, <1>5 DEF AnswerInv

LEMMA AnswerForgotten ==
  ASSUME AnswerInv, AskAgain
  PROVE  AnswerInv'
<1>1. disk' = disk /\ query' = NoQuery /\ DiskType
  BY DEF AskAgain, AnswerInv
<1>2. QueryType' /\ query'.at = "idle"
  BY <1>1 DEF NoQuery, QueryType, States
<1>3. DiskType'
  BY <1>1, SameDisk
<1>4. QED
  BY <1>2, <1>3 DEF AnswerInv

LEMMA AnswerStays ==
  ASSUME AnswerInv, UNCHANGED readerVars
  PROVE  AnswerInv'
<1>1. query' = query /\ disk' = disk
  BY DEF readerVars
<1>2. /\ DiskType' /\ Held(Files, StreamSet)' = Held(Files, StreamSet) /\ \A p : At(p)' = At(p)
  BY <1>1, SameDisk DEF AnswerInv
<1>3. QueryType'
  BY <1>1 DEF AnswerInv, QueryType
<1>4. query.at # "idle" => Asking'
  BY <1>1, <1>2 DEF AnswerInv, Asking
<1>5. \A k \in 0 .. Len(Paths) : Gathered(k) => Gathered(k)'
  BY <1>1 DEF Gathered
<1>6. AnswerComplete => AnswerComplete'
  BY <1>1, <1>2, Zenon DEF AnswerComplete
<1>7. QED
  BY <1>1, <1>2, <1>3, <1>4, <1>5, <1>6 DEF AnswerInv

LEMMA AnswerStep ==
  ASSUME AnswerInv, [ReaderNext]_readerVars
  PROVE  AnswerInv'
<1>1. ASSUME NEW c \in Requests, NEW w \in Windows, NEW limit \in Limits,
             Ask(c, w, limit) \/ Export(c, w, limit)
      PROVE  AnswerInv'
  BY <1>1, AnswerAsk, AnswerExport
<1>2. CASE ReadFile
  BY <1>2, AnswerRead
<1>3. CASE SkipFile
  BY <1>3, AnswerSkip
<1>4. CASE Answer
  BY <1>4, AnswerGiven
<1>5. CASE AskAgain
  BY <1>5, AnswerForgotten
<1>6. ASSUME NEW f \in Files, NEW s \in StreamSet, NEW r \in Arriving, AppendRecord(f, s, r)
      PROVE  AnswerInv'
  BY <1>6, AnswerAppend
<1>7. CASE UNCHANGED readerVars
  BY <1>7, AnswerStays
<1>8. QED
  BY <1>1, <1>2, <1>3, <1>4, <1>5, <1>6, <1>7 DEF ReaderNext

\* An answer or an export that is not marked holds every record that was due, no record
\* twice and none from outside, and keeps the budget; see AnswerComplete.
THEOREM AnswersComplete == ReaderSpec => []AnswerComplete
<1>1. ReaderInit => AnswerInv
  BY AnswerStarts
<1>2. AnswerInv /\ [ReaderNext]_readerVars => AnswerInv'
  BY AnswerStep
<1>3. AnswerInv => AnswerComplete
  BY DEF AnswerInv, AnswerComplete
<1>4. QED
  BY <1>1, <1>2, <1>3, PTL DEF ReaderSpec

-----------------------------------------------------------------------------
(* Thinning. *)

Point == [t : Nat, y : Int]
Bound == IF MaxPoints < LeastPoints THEN LeastPoints ELSE MaxPoints
InTime(trace) == \A i, j \in 1 .. Len(trace) : i < j => trace[i].t <= trace[j].t

\* out has points of a trace, in their order, and extremes around each of its points.
Thinned(out, trace) ==
  /\ out \in Seq(Point)
  /\ \A i, j \in 1 .. Len(out) : i <= j =>
       \E a, b \in 1 .. Len(trace) : a <= b /\ out[i] = trace[a] /\ out[j] = trace[b]
  /\ \A n \in 1 .. Len(trace) :
       \E i, j \in 1 .. Len(out) : out[i].y <= trace[n].y /\ trace[n].y <= out[j].y

\* Finitely many naturals are bounded.
LEMMA BoundedValues ==
  ASSUME NEW n \in Nat, NEW f, \A i \in 1 .. n : f[i] \in Nat
  PROVE  \E top \in Nat : \A i \in 1 .. n : f[i] <= top
<1> DEFINE S == {m \in 0 .. n : \E top \in Nat : \A i \in 1 .. m : f[i] <= top}
<1>1. 0 \in S
  OBVIOUS
<1>2. ASSUME NEW m \in 1 .. n, m - 1 \in S PROVE m \in S
  <2>1. PICK top \in Nat : \A i \in 1 .. m - 1 : f[i] <= top
    BY <1>2
  <2> DEFINE more == IF f[m] <= top THEN top ELSE f[m]
  <2>2. more \in Nat /\ f[m] <= more /\ top <= more
    OBVIOUS
  <2> HIDE DEF more
  <2>3. \A i \in 1 .. m : i = m \/ i \in 1 .. m - 1
    OBVIOUS
  <2>4. \A i \in 1 .. m - 1 : i \in 1 .. n
    OBVIOUS
  <2>5. \A i \in 1 .. m - 1 : f[i] <= more
    BY <2>1, <2>2, <2>4
  <2>6. \A i \in 1 .. m : f[i] <= more
    BY <2>2, <2>3, <2>5
  <2>7. QED
    BY <2>2, <2>6
<1>3. \A m \in S : \E top \in Nat : \A i \in 1 .. m : f[i] <= top
  OBVIOUS
<1> HIDE DEF S
<1>4. n \in S
  BY <1>1, <1>2, Upward
<1>5. QED
  BY <1>3, <1>4

\* Among the first n values there is a least one, and a first place of it.
LEMMA FirstLeast ==
  ASSUME NEW n \in Nat \ {0}, NEW f, \A i \in 1 .. n : f[i] \in Int
  PROVE  \E i \in 1 .. n : \A j \in 1 .. n : f[i] < f[j] \/ (f[i] = f[j] /\ i <= j)
<1> DEFINE Least(i, m) == \A j \in 1 .. m : f[i] < f[j] \/ (f[i] = f[j] /\ i <= j)
           S == {m \in 0 .. n : m = 0 \/ \E i \in 1 .. m : Least(i, m)}
<1>1. 0 \in S
  OBVIOUS
<1>2. ASSUME NEW m \in 1 .. n, m - 1 \in S PROVE m \in S
  <2>1. m \in Nat /\ m - 1 \in Nat /\ m \in 1 .. m /\ \A j \in 1 .. m : j = m \/ j \in 1 .. m - 1
    OBVIOUS
  <2>2. \A j \in 1 .. m : j \in Nat /\ f[j] \in Int
    OBVIOUS
  <2>3. CASE m = 1
    <3>1. \A j \in 1 .. m : j = m
      BY <2>3
    <3>2. Least(m, m)
      BY <2>1, <2>2, <3>1
    <3>3. QED
      BY <2>1, <3>2
  <2>4. CASE m # 1
    <3>1. PICK i \in 1 .. m - 1 : Least(i, m - 1)
      BY <1>2, <2>1, <2>4
    <3>2. i \in 1 .. m /\ i <= m
      BY <2>1, <3>1
    <3>3. CASE f[m] < f[i]
      <4>1. \A j \in 1 .. m - 1 : f[m] < f[j]
        <5> SUFFICES ASSUME NEW j \in 1 .. m - 1 PROVE f[m] < f[j]
          OBVIOUS
        <5>1. f[i] <= f[j] /\ j \in 1 .. m
          BY <2>1, <2>2, <3>1, <3>2
        <5>2. QED
          BY <2>1, <2>2, <3>2, <3>3, <5>1
      <4>2. Least(m, m)
        BY <2>1, <2>2, <4>1
      <4>3. QED
        BY <2>1, <4>2
    <3>4. CASE ~(f[m] < f[i])
      <4>1. f[i] < f[m] \/ (f[i] = f[m] /\ i <= m)
        BY <2>1, <2>2, <3>2, <3>4
      <4>2. Least(i, m)
        BY <2>1, <3>1, <4>1
      <4>3. QED
        BY <3>2, <4>2
    <3>5. QED
      BY <3>3, <3>4
  <2>5. QED
    BY <2>3, <2>4
<1>3. \A m \in S : m = 0 \/ \E i \in 1 .. m : Least(i, m)
  OBVIOUS
<1> HIDE DEF S
<1>4. n \in S
  BY <1>1, <1>2, Upward
<1>5. \E i \in 1 .. n : Least(i, n)
  BY <1>3, <1>4
<1>6. QED
  BY <1>5

\* ... and a greatest one.
LEMMA FirstMost ==
  ASSUME NEW n \in Nat \ {0}, NEW f, \A i \in 1 .. n : f[i] \in Int
  PROVE  \E i \in 1 .. n : \A j \in 1 .. n : f[i] > f[j] \/ (f[i] = f[j] /\ i <= j)
<1> DEFINE g == [i \in 1 .. n |-> -f[i]]
<1>1. \A i \in 1 .. n : g[i] = -f[i] /\ g[i] \in Int
  OBVIOUS
<1> HIDE DEF g
<1>2. PICK i \in 1 .. n : \A j \in 1 .. n : g[i] < g[j] \/ (g[i] = g[j] /\ i <= j)
  BY <1>1, FirstLeast
<1>3. \A j \in 1 .. n : f[i] > f[j] \/ (f[i] = f[j] /\ i <= j)
  <2> SUFFICES ASSUME NEW j \in 1 .. n PROVE f[i] > f[j] \/ (f[i] = f[j] /\ i <= j)
    OBVIOUS
  <2>1. f[i] \in Int /\ f[j] \in Int /\ g[i] = -f[i] /\ g[j] = -f[j]
    BY <1>1
  <2>2. g[i] < g[j] \/ (g[i] = g[j] /\ i <= j)
    BY <1>2
  <2>3. QED
    BY <2>1, <2>2
<1>4. QED
  BY <1>3

\* The extremes of a bucket, in the order in which they occur.
LEMMA ExtremesRight ==
  ASSUME NEW points \in Seq(Point), Len(points) > 0
  PROVE  \E a, b \in 1 .. Len(points) :
           /\ a <= b /\ Extremes(points) = <<points[a], points[b]>>
           /\ \A n \in 1 .. Len(points) :
                /\ points[a].y <= points[n].y \/ points[b].y <= points[n].y
                /\ points[n].y <= points[a].y \/ points[n].y <= points[b].y
<1> DEFINE D == DOMAIN points
           Lowest(i) == \A j \in D : points[i].y < points[j].y \/ (points[i].y = points[j].y /\ i <= j)
           Highest(i) == \A j \in D : points[i].y > points[j].y \/ (points[i].y = points[j].y /\ i <= j)
           low == CHOOSE i \in D : Lowest(i)
           high == CHOOSE i \in D : Highest(i)
<1>1. D # {} /\ D = 1 .. Len(points) /\ D \subseteq Nat /\ \A i \in D : points[i].y \in Int
  <2>1. D = 1 .. Len(points) /\ Len(points) \in Nat
    OBVIOUS
  <2>2. D # {} /\ D \subseteq Nat
    BY <2>1
  <2>3. \A i \in D : points[i] \in Point
    OBVIOUS
  <2> HIDE DEF D
  <2>4. \A i \in D : points[i].y \in Int
    BY <2>3 DEF Point
  <2>5. QED
    BY <2>1, <2>2, <2>4
<1> DEFINE value == [i \in D |-> points[i].y]
<1>0. Len(points) \in Nat \ {0} /\ \A i \in D : value[i] = points[i].y /\ value[i] \in Int
  BY <1>1
<1> HIDE DEF value, D
<1>2. \E i \in D : Lowest(i)
  <2>1. PICK i \in D : \A j \in D : value[i] < value[j] \/ (value[i] = value[j] /\ i <= j)
    BY <1>0, <1>1, FirstLeast
  <2>2. QED
    BY <1>0, <2>1
<1>3. \E i \in D : Highest(i)
  <2>1. PICK i \in D : \A j \in D : value[i] > value[j] \/ (value[i] = value[j] /\ i <= j)
    BY <1>0, <1>1, FirstMost
  <2>2. QED
    BY <1>0, <2>1
<1>4. low \in D /\ Lowest(low) /\ high \in D /\ Highest(high)
  BY <1>2, <1>3
<1>5. Extremes(points) = IF low <= high THEN <<points[low], points[high]>>
                         ELSE <<points[high], points[low]>>
  BY DEF Extremes, D
<1> HIDE DEF low, high
<1>6. \A n \in D : points[low].y <= points[n].y /\ points[n].y <= points[high].y
  BY <1>1, <1>4
<1> HIDE DEF Lowest, Highest
<1>7. CASE low <= high
  BY <1>1, <1>4, <1>5, <1>6, <1>7
<1>8. CASE ~(low <= high)
  <2>1. high <= low
    BY <1>1, <1>4, <1>8
  <2>2. QED
    BY <1>1, <1>4, <1>5, <1>6, <1>8, <2>1
<1>9. QED
  BY <1>7, <1>8

\* A quotient, and one that is rounded up.
LEMMA Quotient ==
  ASSUME NEW a \in Int, NEW b \in Nat \ {0}
  PROVE  a \div b \in Int /\ b * (a \div b) <= a /\ a < b * (a \div b) + b
<1>1. a \div b \in Int
  OBVIOUS
<1>2. b * (a \div b) <= a
  OBVIOUS
<1>3. a < b * (a \div b) + b
  OBVIOUS
<1>4. QED
  BY <1>1, <1>2, <1>3

LEMMA Product ==
  ASSUME NEW a \in Int, NEW b \in Int, NEW c \in Nat
  PROVE  /\ c * a \in Int /\ a <= b => c * a <= c * b
         /\ c * (a + b) = c * a + c * b /\ c * (a - b) = c * a - c * b
         /\ c * a = a * c /\ c * 1 = c /\ c * 0 = 0
<1>1. a <= b => c * a <= c * b
  OBVIOUS
<1>2. c * (a + b) = c * a + c * b /\ c * (a - b) = c * a - c * b
  OBVIOUS
<1>3. c * a = a * c /\ c * 1 = c /\ c * 0 = 0 /\ c * a \in Int
  OBVIOUS
<1>4. QED
  BY <1>1, <1>2, <1>3

LEMMA Cancel ==
  ASSUME NEW a \in Int, NEW b \in Int, NEW c \in Nat, c * a < c * b
  PROVE  a < b
OBVIOUS

LEMMA CeilingRight ==
  ASSUME NEW a \in Nat \ {0}, NEW b \in Nat \ {0}, NEW c, c = Ceiling(a, b)
  PROVE  c \in Nat \ {0} /\ a <= b * c /\ b * c < a + b
<1> DEFINE n == a + b - 1
<1>1. n \in Nat /\ b <= n
  OBVIOUS
<1>2. c = n \div b
  BY DEF Ceiling
<1>3. c \in Int /\ b * c <= n /\ n < b * c + b
  BY <1>1, <1>2, Quotient
<1> HIDE DEF n
<1>4. b * c \in Int
  BY <1>3, Product
<1>5. a <= b * c /\ b * c < a + b
  BY <1>3, <1>4 DEF n
<1>6. 0 < c
  <2>1. b * 0 < b * c
    BY <1>4, <1>5, Product
  <2>2. QED
    BY <1>3, <2>1, Cancel
<1>7. QED
  BY <1>3, <1>5, <1>6

\* count buckets of a size divide N points, and are no more than half of most.
Bucketed(N, most, size, count) ==
  /\ size \in Nat \ {0} /\ count \in Nat \ {0} /\ 2 * count <= most
  /\ \A k \in 1 .. count :
       /\ (k - 1) * size + 1 \in 1 .. N
       /\ (IF k < count THEN k * size ELSE N) \in 1 .. N
       /\ (k - 1) * size + 1 <= IF k < count THEN k * size ELSE N
       /\ (IF k < count THEN k * size ELSE N) <= k * size
  /\ \A j \in 1 .. N : \E k \in 1 .. count :
       (k - 1) * size + 1 <= j /\ j <= IF k < count THEN k * size ELSE N

LEMMA BucketsRight ==
  ASSUME NEW N \in Nat \ {0}, NEW most \in Nat, most >= 2,
         NEW size, size = Ceiling(N, most \div 2), NEW count, count = Ceiling(N, size)
  PROVE  Bucketed(N, most, size, count)
<1> DEFINE half == most \div 2
<1>1. half \in Nat \ {0} /\ 2 * half <= most
  <2>1. half \in Int /\ 2 * half <= most /\ most < 2 * half + 2
    OBVIOUS
  <2> HIDE DEF half
  <2>2. QED
    BY <2>1
<1> HIDE DEF half
<1>2. size \in Nat \ {0} /\ N <= half * size
  <2>1. size = Ceiling(N, half)
    BY DEF half
  <2>2. QED
    BY <1>1, <2>1, CeilingRight
<1>3. count \in Nat \ {0} /\ N <= size * count /\ size * count < N + size
  BY <1>2, CeilingRight
<1>4. size * (count - 1) < N /\ size * count \in Int
  <2>1. size * (count - 1) = size * count - size * 1 /\ size * 1 = size /\ size * count \in Int
    BY <1>2, <1>3, Product
  <2>2. QED
    BY <1>2, <1>3, <2>1
<1>5. count <= half
  <2>1. half * size = size * half
    BY <1>1, <1>2, Product
  <2>2. size * (count - 1) < size * half
    <3>1. size * (count - 1) \in Int /\ size * half \in Int
      BY <1>1, <1>2, <1>3, Product
    <3>2. QED
      BY <1>2, <1>4, <2>1, <3>1
  <2>3. count - 1 < half
    BY <1>1, <1>2, <1>3, <2>2, Cancel
  <2>4. QED
    BY <1>1, <1>3, <2>3
<1>6. 2 * count <= most
  BY <1>1, <1>3, <1>5
<1>7. ASSUME NEW k \in 1 .. count
      PROVE  /\ k * size = (k - 1) * size + size /\ (k - 1) * size \in Nat /\ k * size \in Nat
             /\ (k - 1) * size < N
             /\ k < count => k * size < N
             /\ k = count => N <= k * size
  <2>1. k \in Nat /\ k - 1 \in Nat /\ 0 <= k - 1
    BY <1>3
  <2>2. size * (k - 1) = size * k - size * 1 /\ size * 1 = size /\ size * k \in Int
    BY <1>2, <2>1, Product
  <2>3. size * (k - 1) = (k - 1) * size /\ size * k = k * size
    BY <1>2, <2>1, Product
  <2>4. size * 0 <= size * (k - 1) /\ size * 0 = 0 /\ size * (k - 1) \in Int
    BY <1>2, <2>1, Product
  <2>5. size * (k - 1) <= size * (count - 1)
    BY <1>2, <1>3, <2>1, Product
  <2>6. size * (count - 1) \in Int
    BY <1>2, <1>3, Product
  <2>7. (k - 1) * size < N
    BY <1>4, <2>3, <2>4, <2>5, <2>6
  <2>8. ASSUME k < count PROVE k * size < N
    <3>1. size * k <= size * (count - 1)
      BY <1>2, <1>3, <2>1, <2>8, Product
    <3>2. QED
      BY <1>4, <2>2, <2>3, <2>6, <3>1
  <2>9. ASSUME k = count PROVE N <= k * size
    BY <1>3, <2>3, <2>9
  <2>10. k * size = (k - 1) * size + size /\ (k - 1) * size \in Nat /\ k * size \in Nat
    BY <1>2, <2>2, <2>3, <2>4
  <2>11. QED
    BY <2>7, <2>8, <2>9, <2>10
<1>8. ASSUME NEW k \in 1 .. count,
             NEW first, first = (k - 1) * size + 1,
             NEW last, last = IF k < count THEN k * size ELSE N
      PROVE  first \in 1 .. N /\ last \in 1 .. N /\ first <= last /\ last <= k * size
  <2> DEFINE low == (k - 1) * size
             high == k * size
  <2>1. /\ high = low + size /\ low \in Nat /\ high \in Nat /\ low < N
        /\ k < count => high < N
        /\ k = count => N <= high
    BY <1>7
  <2>2. first = low + 1 /\ last = IF k < count THEN high ELSE N
    BY <1>8
  <2> HIDE DEF low, high
  <2>3. first \in 1 .. N /\ last \in 1 .. N /\ first <= last /\ last <= high
    BY <1>2, <1>3, <2>1, <2>2
  <2>4. QED
    BY <2>3 DEF high
<1>9. ASSUME NEW j \in 1 .. N
      PROVE  \E k \in 1 .. count : (k - 1) * size + 1 <= j /\ j <= IF k < count THEN k * size ELSE N
  <2> DEFINE q == (j - 1) \div size
  <2>1. q \in Int /\ size * q <= j - 1 /\ j - 1 < size * q + size
    BY <1>2, Quotient
  <2> HIDE DEF q
  <2>2. size * q \in Int /\ size * (q + 1) = size * q + size /\ size * (q + 1) \in Int
    <3>1. size * (q + 1) = size * q + size * 1 /\ size * 1 = size
      BY <1>2, <2>1, Product
    <3>2. QED
      BY <1>2, <2>1, <3>1, Product
  <2>3. q < count
    <3>1. size * q < size * count
      BY <1>3, <1>4, <2>1, <2>2
    <3>2. QED
      BY <1>2, <1>3, <2>1, <3>1, Cancel
  <2>4. 0 < q + 1
    <3>1. size * 0 < size * (q + 1)
      BY <1>2, <2>1, <2>2, Product
    <3>2. QED
      BY <1>2, <2>1, <3>1, Cancel
  <2> DEFINE k == q + 1
  <2>5. k \in 1 .. count /\ k - 1 = q
    BY <1>3, <2>1, <2>3, <2>4
  <2>6. (k - 1) * size = size * q /\ k * size = size * (q + 1)
    BY <1>2, <2>1, <2>5, Product
  <2> HIDE DEF k
  <2>7. (k - 1) * size + 1 <= j /\ j <= k * size
    BY <1>2, <2>1, <2>2, <2>6
  <2>8. QED
    BY <2>5, <2>7
<1>10. QED
  BY <1>2, <1>3, <1>6, <1>8, <1>9 DEF Bucketed

\* A trace is its own thinning.
LEMMA ThinnedItself ==
  ASSUME NEW points \in Seq(Point)
  PROVE  Thinned(points, points)
<1>1. \A n \in 1 .. Len(points) : points[n] \in Point
  OBVIOUS
<1>2. \A n \in 1 .. Len(points) : points[n].y \in Int
  BY <1>1 DEF Point
<1>3. \A n \in 1 .. Len(points) : points[n].y <= points[n].y
  BY <1>2
<1>4. QED
  BY <1>3 DEF Thinned

\* What minmax_downsample() keeps of a trace.
LEMMA DownsampleRight ==
  ASSUME NEW points \in Seq(Point), NEW out, out = Downsample(points)
  PROVE  Thinned(out, points) /\ Len(out) <= Bound
<1> DEFINE N == Len(points)
           size == Ceiling(N, Bound \div 2)
           count == Ceiling(N, size)
           From(k) == (k - 1) * size + 1
           To(k) == IF k < count THEN k * size ELSE N
           pair == [k \in 1 .. count |-> Extremes(SubSeq(points, From(k), To(k)))]
<1>0. Bound \in Nat /\ Bound >= 2 /\ MaxPoints <= Bound /\ MaxPoints \in Nat /\ N \in Nat
  BY LimitsAssumption DEF Bound
<1>1. out = IF N <= MaxPoints THEN points ELSE [n \in 1 .. 2 * count |-> pair[(n + 1) \div 2][2 - (n % 2)]]
  BY DEF Downsample, Bound
<1>2. CASE N <= MaxPoints
  <2>1. out = points
    BY <1>1, <1>2
  <2>2. Len(out) <= Bound
    BY <1>0, <1>2, <2>1
  <2>3. QED
    BY <2>1, <2>2, ThinnedItself
<1>3. CASE ~(N <= MaxPoints)
  <2>1. N # 0 /\ N \in Nat
    BY <1>0, <1>3
  <2>2. out = [n \in 1 .. 2 * count |-> pair[(n + 1) \div 2][2 - (n % 2)]]
    BY <1>1, <1>3
  <2>3. /\ size \in Nat \ {0} /\ count \in Nat \ {0} /\ 2 * count <= Bound
        /\ \A k \in 1 .. count :
             From(k) \in 1 .. N /\ To(k) \in 1 .. N /\ From(k) <= To(k) /\ To(k) <= k * size
        /\ \A j \in 1 .. N : \E k \in 1 .. count : From(k) <= j /\ j <= To(k)
    <3>1. size = Ceiling(N, Bound \div 2) /\ count = Ceiling(N, size)
      OBVIOUS
    <3> HIDE DEF N, size, count, pair
    <3>2. /\ size \in Nat \ {0} /\ count \in Nat \ {0} /\ 2 * count <= Bound
          /\ \A k \in 1 .. count :
               /\ (k - 1) * size + 1 \in 1 .. N
               /\ (IF k < count THEN k * size ELSE N) \in 1 .. N
               /\ (k - 1) * size + 1 <= IF k < count THEN k * size ELSE N
               /\ (IF k < count THEN k * size ELSE N) <= k * size
          /\ \A j \in 1 .. N : \E k \in 1 .. count :
               (k - 1) * size + 1 <= j /\ j <= IF k < count THEN k * size ELSE N
      <4>1. N \in Nat \ {0} /\ Bound \in Nat /\ Bound >= 2
        BY <1>0, <2>1
      <4>2. Bucketed(N, Bound, size, count)
        BY <3>1, <4>1, BucketsRight
      <4>3. QED
        BY <4>2, Zenon DEF Bucketed
    <3>3. QED
      BY <3>2, Zenon DEF From, To
  <2>4. \A k \in 1 .. count : pair[k] = Extremes(SubSeq(points, From(k), To(k)))
    OBVIOUS
  <2> HIDE DEF size, count, pair, From, To
  \* Both points of a pair are from its bucket, and are its extremes.
  <2>5. ASSUME NEW k \in 1 .. count
        PROVE  \E a, b \in From(k) .. To(k) :
                 /\ a <= b /\ pair[k][1] = points[a] /\ pair[k][2] = points[b]
                 /\ \A n \in From(k) .. To(k) :
                      /\ points[a].y <= points[n].y \/ points[b].y <= points[n].y
                      /\ points[n].y <= points[a].y \/ points[n].y <= points[b].y
    <3> DEFINE lo == From(k)
               hi == To(k)
               bucket == SubSeq(points, lo, hi)
    <3>1. lo \in 1 .. N /\ hi \in 1 .. N /\ lo <= hi
      BY <2>3
    <3>2. \A i \in lo .. hi : points[i] \in Point
      BY <3>1
    <3> HIDE DEF lo, hi, N
    <3>3. /\ bucket \in Seq(Point) /\ Len(bucket) = hi - lo + 1
          /\ \A i \in 1 .. hi - lo + 1 : bucket[i] = points[lo + i - 1]
      BY <2>1, <3>1, <3>2, SubSeqProperties
    <3>4. pair[k] = Extremes(bucket)
      BY <2>4 DEF lo, hi
    <3> HIDE DEF bucket
    <3>5. Len(bucket) > 0
      BY <2>1, <3>1, <3>3
    <3>6. PICK c \in 1 .. Len(bucket), d \in 1 .. Len(bucket) :
            /\ c <= d /\ Extremes(bucket) = <<bucket[c], bucket[d]>>
            /\ \A n \in 1 .. Len(bucket) :
                 /\ bucket[c].y <= bucket[n].y \/ bucket[d].y <= bucket[n].y
                 /\ bucket[n].y <= bucket[c].y \/ bucket[n].y <= bucket[d].y
      BY <3>3, <3>5, ExtremesRight
    <3> DEFINE a == lo + c - 1
               b == lo + d - 1
    <3>7. a \in lo .. hi /\ b \in lo .. hi /\ a <= b
      BY <2>1, <3>1, <3>3, <3>6
    <3>8. bucket[c] = points[a] /\ bucket[d] = points[b]
      BY <3>3
    <3>9. pair[k][1] = points[a] /\ pair[k][2] = points[b]
      BY <3>4, <3>6, <3>8
    <3> HIDE DEF a, b
    <3>10. ASSUME NEW n \in lo .. hi
           PROVE  /\ points[a].y <= points[n].y \/ points[b].y <= points[n].y
                  /\ points[n].y <= points[a].y \/ points[n].y <= points[b].y
      <4>1. n - lo + 1 \in 1 .. Len(bucket) /\ lo + (n - lo + 1) - 1 = n
        BY <2>1, <3>1, <3>3
      <4>2. bucket[n - lo + 1] = points[n]
        BY <3>3, <4>1
      <4>3. QED
        BY <3>6, <3>8, <4>1, <4>2
    <3>11. QED
      BY <3>7, <3>9, <3>10 DEF lo, hi
  <2>6. ASSUME NEW n \in 1 .. 2 * count
        PROVE  \E k \in 1 .. count :
                 \/ n = 2 * k - 1 /\ (n + 1) \div 2 = k /\ 2 - (n % 2) = 1
                 \/ n = 2 * k /\ (n + 1) \div 2 = k /\ 2 - (n % 2) = 2
    <3> DEFINE k == (n + 1) \div 2
    <3>1. n \in Nat /\ count \in Nat
      BY <2>3
    <3>2. k \in Int /\ 2 * k <= n + 1 /\ n + 1 < 2 * k + 2
      BY <3>1
    <3>3. n % 2 \in {0, 1} /\ n = 2 * (n \div 2) + (n % 2) /\ n \div 2 \in Int
      BY <3>1
    <3>4. n % 2 = 1 => n = 2 * k - 1
      BY <3>1, <3>2, <3>3
    <3>5. n % 2 = 0 => n = 2 * k
      BY <3>1, <3>2, <3>3
    <3>6. k \in 1 .. count
      BY <3>1, <3>2
    <3>7. k = (n + 1) \div 2
      OBVIOUS
    <3> HIDE DEF k
    <3>8. QED
      BY <3>3, <3>4, <3>5, <3>6, <3>7
  <2>7. ASSUME NEW k \in 1 .. count
        PROVE  /\ 2 * k - 1 \in 1 .. 2 * count /\ 2 * k \in 1 .. 2 * count
               /\ out[2 * k - 1] = pair[k][1] /\ out[2 * k] = pair[k][2]
    <3>1. k \in Nat /\ count \in Nat /\ 2 * k - 1 \in 1 .. 2 * count /\ 2 * k \in 1 .. 2 * count
      BY <2>3
    <3>2. (2 * k - 1 + 1) \div 2 = k /\ (2 * k + 1) \div 2 = k
      BY <3>1
    <3>3. 2 - ((2 * k - 1) % 2) = 1 /\ 2 - ((2 * k) % 2) = 2
      BY <3>1
    <3>4. out[2 * k - 1] = pair[k][1]
      BY <2>2, <3>1, <3>2, <3>3
    <3>5. out[2 * k] = pair[k][2]
      BY <2>2, <3>1, <3>2, <3>3
    <3>6. QED
      BY <3>1, <3>4, <3>5
  <2>8. \A n \in 1 .. 2 * count : \E k \in 1 .. count :
          (n = 2 * k - 1 /\ out[n] = pair[k][1]) \/ (n = 2 * k /\ out[n] = pair[k][2])
    BY <2>6, <2>7
  <2>17. \A k \in 1 .. count : From(k) \in Nat /\ To(k) \in Nat
    <3> SUFFICES ASSUME NEW k \in 1 .. count PROVE From(k) \in Nat /\ To(k) \in Nat
      OBVIOUS
    <3>1. From(k) \in 1 .. N /\ To(k) \in 1 .. N
      BY <2>3
    <3> HIDE DEF N
    <3>2. QED
      BY <2>1, <3>1
  <2>9. \A k \in 1 .. count : From(k) .. To(k) \subseteq 1 .. N
    <3> SUFFICES ASSUME NEW k \in 1 .. count PROVE From(k) .. To(k) \subseteq 1 .. N
      OBVIOUS
    <3>1. From(k) \in 1 .. N /\ To(k) \in 1 .. N
      BY <2>3
    <3> HIDE DEF N
    <3>2. QED
      BY <2>1, <3>1
  <2>10. ASSUME NEW n \in 1 .. 2 * count PROVE \E a \in 1 .. N : out[n] = points[a]
    BY <2>5, <2>8, <2>9
  <2>11. out \in Seq(Point) /\ Len(out) = 2 * count
    <3>1. \A n \in 1 .. 2 * count : out[n] \in Point
      BY <2>10
    <3>2. 2 * count \in Nat
      BY <2>3
    <3>3. out = [n \in 1 .. 2 * count |-> out[n]]
      BY <2>2
    <3> HIDE DEF N
    <3>4. QED
      BY <3>1, <3>2, <3>3
  <2>12. \A k, l \in 1 .. count : k < l =>
           \A a \in From(k) .. To(k), b \in From(l) .. To(l) : a <= b
    <3> SUFFICES ASSUME NEW k \in 1 .. count, NEW l \in 1 .. count, k < l,
                        NEW a \in From(k) .. To(k), NEW b \in From(l) .. To(l)
                 PROVE  a <= b
      OBVIOUS
    <3>1. k * size <= (l - 1) * size /\ k * size \in Int /\ (l - 1) * size \in Int
      <4>1. k \in Nat /\ l - 1 \in Nat /\ k <= l - 1
        BY <2>3
      <4>2. size * k <= size * (l - 1) /\ size * k = k * size /\ size * (l - 1) = (l - 1) * size
        BY <2>3, <4>1, Product
      <4>3. size * k \in Int /\ size * (l - 1) \in Int
        BY <2>3, <4>1, Product
      <4>4. QED
        BY <4>2, <4>3
    <3>2. To(k) <= k * size /\ From(l) = (l - 1) * size + 1
      BY <2>3 DEF From
    <3>3. From(k) \in Int /\ To(k) \in Int /\ From(l) \in Int /\ To(l) \in Int
      BY <2>17
    <3>4. QED
      BY <3>1, <3>2, <3>3
  <2>13. ASSUME NEW m \in 1 .. 2 * count, NEW n \in 1 .. 2 * count, m <= n
         PROVE  \E a, b \in 1 .. N : a <= b /\ out[m] = points[a] /\ out[n] = points[b]
    <3>1. PICK k \in 1 .. count :
            (m = 2 * k - 1 /\ out[m] = pair[k][1]) \/ (m = 2 * k /\ out[m] = pair[k][2])
      BY <2>8
    <3>2. PICK l \in 1 .. count :
            (n = 2 * l - 1 /\ out[n] = pair[l][1]) \/ (n = 2 * l /\ out[n] = pair[l][2])
      BY <2>8
    <3>3. k <= l /\ k \in Nat /\ l \in Nat
      <4>1. k \in Nat /\ l \in Nat /\ m \in Nat /\ n \in Nat
        BY <2>3
      <4>2. (m = 2 * k - 1 \/ m = 2 * k) /\ (n = 2 * l - 1 \/ n = 2 * l)
        BY <3>1, <3>2
      <4>3. k <= l
        BY <2>13, <4>1, <4>2
      <4>4. QED
        BY <4>1, <4>3
    <3>4. PICK a \in From(k) .. To(k), b \in From(k) .. To(k) :
            a <= b /\ pair[k][1] = points[a] /\ pair[k][2] = points[b]
      BY <2>5
    <3>5. a \in 1 .. N /\ b \in 1 .. N
      BY <2>9, <3>4
    <3>6. CASE k < l
      <4>1. PICK c \in From(l) .. To(l), d \in From(l) .. To(l) :
              c <= d /\ pair[l][1] = points[c] /\ pair[l][2] = points[d]
        BY <2>5
      <4>2. c \in 1 .. N /\ d \in 1 .. N /\ a <= c /\ a <= d /\ b <= c /\ b <= d
        BY <2>9, <2>12, <3>6
      <4>3. QED
        BY <3>1, <3>2, <3>4, <3>5, <4>1, <4>2
    <3>7. CASE k = l
      <4>1. CASE m = n
        <5>1. a <= a /\ b <= b
          BY <3>5
        <5>2. QED
          BY <3>1, <3>4, <3>5, <4>1, <5>1
      <4>2. CASE m # n
        <5>1. m = 2 * k - 1 /\ n = 2 * k
          BY <2>13, <3>1, <3>2, <3>3, <3>7, <4>2
        <5>2. out[m] = pair[k][1] /\ out[n] = pair[k][2]
          BY <2>7, <5>1
        <5>3. QED
          BY <3>4, <3>5, <5>2
      <4>3. QED
        BY <4>1, <4>2
    <3>8. QED
      BY <3>3, <3>6, <3>7
  <2>14. ASSUME NEW j \in 1 .. N
         PROVE  \E m, n \in 1 .. 2 * count : out[m].y <= points[j].y /\ points[j].y <= out[n].y
    <3>1. PICK k \in 1 .. count : From(k) <= j /\ j <= To(k)
      BY <2>3
    <3>2. j \in From(k) .. To(k)
      <4>1. From(k) \in Int /\ To(k) \in Int
        BY <2>17
      <4>2. j \in Int
        OBVIOUS
      <4>3. QED
        BY <3>1, <4>1, <4>2
    <3>3. PICK a \in From(k) .. To(k), b \in From(k) .. To(k) :
            /\ pair[k][1] = points[a] /\ pair[k][2] = points[b]
            /\ points[a].y <= points[j].y \/ points[b].y <= points[j].y
            /\ points[j].y <= points[a].y \/ points[j].y <= points[b].y
      BY <2>5, <3>2
    <3>4. QED
      BY <2>7, <3>3
  <2>15. Thinned(out, points)
    <3> HIDE DEF N
    <3>1. Len(out) = 2 * count
      BY <2>11
    <3>2. \A i, j \in 1 .. Len(out) : i <= j =>
            \E a, b \in 1 .. N : a <= b /\ out[i] = points[a] /\ out[j] = points[b]
      BY <2>13, <3>1
    <3>3. \A n \in 1 .. N :
            \E i, j \in 1 .. Len(out) : out[i].y <= points[n].y /\ points[n].y <= out[j].y
      BY <2>14, <3>1
    <3>4. QED
      BY <2>11, <3>2, <3>3 DEF Thinned, N
  <2>16. QED
    BY <2>3, <2>11, <2>15
<1>4. QED
  BY <1>2, <1>3

-----------------------------------------------------------------------------
(* The samples of a stream. *)

\* A trace shows what was read in a window, and nothing beyond what was read.
Shows(trace, read, w) ==
  /\ trace \in Seq(Point)
  /\ \A u \in read : w[1] <= u /\ u <= w[2] =>
       \E i, j \in 1 .. Len(trace) : trace[i].y <= Signal[u] /\ Signal[u] <= trace[j].y
  /\ \A i \in 1 .. Len(trace) :
       \E u, v \in read : Signal[u] <= trace[i].y /\ trace[i].y <= Signal[v]

\* Times at which there are samples.
Timed(read) ==
  /\ read \subseteq Nat /\ read \subseteq DOMAIN Signal
  /\ \E top \in Nat : \A u \in read : u <= top

\* Bounds of a number divided by d bound the quotient.
LEMMA FloorBetween ==
  ASSUME NEW x \in Int, NEW d \in Nat \ {0}, NEW low \in Int, NEW high \in Int,
         d * low <= x, x <= d * high
  PROVE  x \div d \in Int /\ low <= x \div d /\ x \div d <= high
<1> DEFINE q == x \div d
<1>1. q \in Int /\ d * q <= x /\ x < d * q + d
  BY Quotient
<1> HIDE DEF q
<1>2. d * q \in Int /\ d * low \in Int /\ d * high \in Int
  BY <1>1, Product
<1>3. d * (q + 1) = d * q + d
  <2>1. d * (q + 1) = d * q + d * 1 /\ d * 1 = d
    BY <1>1, Product
  <2>2. QED
    BY <2>1
<1>4. d * (high + 1) = d * high + d
  <2>1. d * (high + 1) = d * high + d * 1 /\ d * 1 = d
    BY Product
  <2>2. QED
    BY <2>1
<1>5. low < q + 1
  <2>1. d * low < d * (q + 1)
    BY <1>1, <1>2, <1>3
  <2>2. QED
    BY <1>1, <2>1, Cancel
<1>6. q < high + 1
  <2>1. d * q < d * (high + 1)
    BY <1>1, <1>2, <1>4
  <2>2. QED
    BY <1>1, <2>1, Cancel
<1>7. low <= q /\ q <= high
  BY <1>1, <1>5, <1>6
<1>8. QED
  BY <1>1, <1>7 DEF q

\* ... and the quotient cut towards zero.
LEMMA CutBetween ==
  ASSUME NEW x \in Int, NEW d \in Nat \ {0}, NEW low \in Int, NEW high \in Int,
         d * low <= x, x <= d * high
  PROVE  TowardZero(x, d) \in Int /\ low <= TowardZero(x, d) /\ TowardZero(x, d) <= high
<1>1. CASE x >= 0
  BY <1>1, FloorBetween DEF TowardZero
<1>2. CASE ~(x >= 0)
  <2> DEFINE q == (-x) \div d
  <2>1. -x \in Int /\ -low \in Int /\ -high \in Int
    OBVIOUS
  <2>2. d * (-low) = -(d * low) /\ d * (-high) = -(d * high)
    <3>1. d * (0 - low) = d * 0 - d * low /\ d * (0 - high) = d * 0 - d * high /\ d * 0 = 0
      BY Product
    <3>2. d * low \in Int /\ d * high \in Int /\ 0 - low = -low /\ 0 - high = -high
      BY Product
    <3>3. QED
      BY <3>1, <3>2
  <2>3. d * low \in Int /\ d * high \in Int
    BY Product
  <2>4. d * (-high) <= -x /\ -x <= d * (-low)
    BY <2>2, <2>3
  <2>5. q \in Int /\ -high <= q /\ q <= -low
    BY <2>1, <2>4, FloorBetween
  <2>6. TowardZero(x, d) = -q
    BY <1>2 DEF TowardZero
  <2> HIDE DEF q
  <2>7. -q \in Int /\ low <= -q /\ -q <= high
    BY <2>5
  <2>8. QED
    BY <2>6, <2>7
<1>3. QED
  BY <1>1, <1>2

\* The mean of two values, weighted by c and e of d, is between them.
LEMMA MeanBetween ==
  ASSUME NEW a \in Int, NEW b \in Int, NEW c \in Nat, NEW e \in Nat,
         NEW d \in Nat \ {0}, d = c + e, NEW q, q = TowardZero(a * c + b * e, d)
  PROVE  q \in Int /\ ((a <= q /\ q <= b) \/ (b <= q /\ q <= a))
<1> DEFINE x == a * c + b * e
<1>1. /\ a * c = c * a /\ b * e = e * b /\ c * a \in Int /\ e * b \in Int
  BY Product
<1>2. x \in Int /\ x = c * a + e * b
  BY <1>1
<1>3. \A k \in Int : d * k = c * k + e * k
  <2> SUFFICES ASSUME NEW k \in Int PROVE d * k = c * k + e * k
    OBVIOUS
  <2>1. k * (c + e) = k * c + k * e
    OBVIOUS
  <2>2. d * k = k * d /\ k * c = c * k /\ k * e = e * k
    BY Product
  <2>3. QED
    BY <2>1, <2>2
<1>4. q = TowardZero(x, d)
  OBVIOUS
<1> HIDE DEF x
<1>5. ASSUME NEW low \in Int, NEW high \in Int, low <= a, low <= b, a <= high, b <= high
      PROVE  q \in Int /\ low <= q /\ q <= high
  <2>1. c * low <= c * a /\ e * low <= e * b /\ c * a <= c * high /\ e * b <= e * high
    BY <1>5, Product
  <2>2. /\ c * low \in Int /\ e * low \in Int /\ c * high \in Int /\ e * high \in Int
    BY Product
  <2>3. d * low = c * low + e * low /\ d * high = c * high + e * high
    BY <1>3
  <2>4. d * low <= x /\ x <= d * high
    BY <1>1, <1>2, <2>1, <2>2, <2>3
  <2>5. QED
    BY <1>2, <1>4, <2>4, CutBetween
<1>6. a <= a /\ b <= b /\ (a <= b \/ b <= a)
  OBVIOUS
<1>7. CASE a <= b
  BY <1>5, <1>6, <1>7
<1>8. CASE b <= a
  BY <1>5, <1>6, <1>8
<1>9. QED
  BY <1>6, <1>7, <1>8

\* The merged value at a time between two samples is between their values.
LEMMA ValueRight ==
  ASSUME NEW times, Timed(times), NEW t \in Nat, \E u \in times : u <= t, \E u \in times : t <= u
  PROVE  /\ Value(times, t) \in Int
         /\ t \in times => Value(times, t) = Signal[t]
         /\ \E u, v \in times : Signal[u] <= Value(times, t) /\ Value(times, t) <= Signal[v]
<1>0. times \subseteq Nat /\ \A u \in times : Signal[u] \in Int
  BY SignalAssumption DEF Timed
<1>1. CASE t \in times
  <2>1. Value(times, t) = Signal[t]
    BY <1>1 DEF Value
  <2>2. QED
    BY <1>0, <1>1, <2>1
<1>2. CASE t \notin times
  <2> DEFINE before == Max({u \in times : u < t})
             behind == Min({u \in times : u > t})
  <2>1. before \in times /\ before < t
    <3> DEFINE S == {u \in times : u < t}
    <3>1. S \in SUBSET Nat /\ S # {} /\ \A u \in S : u <= t
      <4>1. PICK u \in times : u <= t
        OBVIOUS
      <4>2. u \in Nat /\ u # t
        BY <1>0, <1>2
      <4>3. u \in S
        BY <4>1, <4>2
      <4>4. S \in SUBSET Nat
        BY <1>0
      <4>5. \A v \in times : v < t => v <= t
        BY <1>0
      <4>6. \A v \in S : v <= t
        BY <4>5
      <4>7. QED
        BY <4>3, <4>4, <4>6
    <3>2. \A u \in S : u \in times /\ u < t
      OBVIOUS
    <3> HIDE DEF S
    <3>3. Max(S) \in S
      BY <3>1, MostOfNaturals
    <3>4. Max(S) \in times /\ Max(S) < t
      BY <3>2, <3>3
    <3>5. QED
      BY <3>4 DEF S
  <2>2. behind \in times /\ behind > t
    <3> DEFINE S == {u \in times : u > t}
    <3>1. S \in SUBSET Nat /\ S # {}
      <4>1. PICK u \in times : t <= u
        OBVIOUS
      <4>2. u \in Nat /\ u # t
        BY <1>0, <1>2
      <4>3. u \in S
        BY <4>1, <4>2
      <4>4. S \in SUBSET Nat
        BY <1>0
      <4>5. QED
        BY <4>3, <4>4
    <3>2. \A u \in S : u \in times /\ u > t
      OBVIOUS
    <3> HIDE DEF S
    <3>3. Min(S) \in S
      BY <3>1, LeastOfNaturals
    <3>4. Min(S) \in times /\ Min(S) > t
      BY <3>2, <3>3
    <3>5. QED
      BY <3>4 DEF S
  <2> DEFINE a == Signal[before]
             b == Signal[behind]
             c == behind - t
             e == t - before
             d == behind - before
             q == TowardZero(a * c + b * e, d)
  <2>3. Value(times, t) = q
    BY <1>2 DEF Value
  <2> HIDE DEF before, behind
  <2>4. a \in Int /\ b \in Int
    BY <1>0, <2>1, <2>2
  <2>5. c \in Nat /\ e \in Nat /\ d \in Nat \ {0} /\ d = c + e
    BY <1>0, <2>1, <2>2
  <2>6. a = Signal[before] /\ b = Signal[behind]
    OBVIOUS
  <2>7. q = TowardZero(a * c + b * e, d)
    OBVIOUS
  <2> HIDE DEF a, b, c, e, d, q
  <2>8. q \in Int /\ ((a <= q /\ q <= b) \/ (b <= q /\ q <= a))
    BY <2>4, <2>5, <2>7, MeanBetween
  <2>9. QED
    BY <1>2, <2>1, <2>2, <2>3, <2>6, <2>8
<1>3. QED
  BY <1>1, <1>2

\* The greater and the lesser of two numbers.
LEMMA TwoNumbers ==
  ASSUME NEW a \in Nat, NEW b \in Nat
  PROVE  /\ Max({a, b}) \in {a, b} /\ a <= Max({a, b}) /\ b <= Max({a, b})
         /\ Min({a, b}) \in {a, b} /\ Min({a, b}) <= a /\ Min({a, b}) <= b
<1> DEFINE S == {a, b}
<1>1. S \in SUBSET Nat /\ S # {} /\ a \in S /\ b \in S /\ a + b \in Nat /\ \A u \in S : u <= a + b
  OBVIOUS
<1> HIDE DEF S
<1>2. Max(S) \in S /\ a <= Max(S) /\ b <= Max(S)
  BY <1>1, MostOfNaturals
<1>3. Min(S) \in S /\ Min(S) <= a /\ Min(S) <= b
  BY <1>1, LeastOfNaturals
<1>4. QED
  BY <1>2, <1>3 DEF S

\* What is shown of the merged samples in a window.
LEMMA PointsRight ==
  ASSUME NEW places, NEW s, NEW w \in Windows, NEW times, times = Samples(places, s), Timed(times),
         NEW out, out = Points(places, s, w)
  PROVE  Shows(out, times, w) /\ InTime(out)
<1>0. w[1] \in Nat /\ w[2] \in Nat
  BY WindowsAssumption
<1>1. CASE times = {}
  <2>1. out = << >>
    BY <1>1 DEF Points
  <2>2. out \in Seq(Point) /\ 1 .. Len(out) = {}
    BY <2>1
  <2>3. QED
    BY <1>1, <2>2 DEF Shows, InTime
<1>2. CASE times # {}
  <2>1. times \in SUBSET Nat /\ \A u \in times : Signal[u] \in Int
    BY SignalAssumption DEF Timed
  <2>2. PICK top \in Nat : \A u \in times : u <= top
    BY DEF Timed
  <2> DEFINE least == Min(times)
             most == Max(times)
             first == Max({w[1], least})
             last == Min({w[2], most})
             N == last - first + 1
  <2>3. least \in times /\ most \in times /\ \A u \in times : least <= u /\ u <= most
    BY <1>2, <2>1, <2>2, LeastOfNaturals, MostOfNaturals
  <2>4. out = [n \in 1 .. N |-> [t |-> first + n - 1, y |-> Value(times, first + n - 1)]]
    BY <1>2 DEF Points
  <2> HIDE DEF least, most
  <2>5. least \in Nat /\ most \in Nat
    BY <2>1, <2>3
  <2>6. /\ first \in Nat /\ last \in Nat /\ w[1] <= first /\ least <= first
        /\ last <= w[2] /\ last <= most
        /\ (first = w[1] \/ first = least) /\ (last = w[2] \/ last = most)
    BY <1>0, <2>5, TwoNumbers
  <2> HIDE DEF first, last
  <2>7. N \in Int /\ DOMAIN out = 1 .. N
    BY <2>4, <2>6
  <2>8. ASSUME NEW n \in 1 .. N
        PROVE  /\ first + n - 1 \in Nat /\ out[n].t = first + n - 1
               /\ out[n].y = Value(times, first + n - 1) /\ out[n].y \in Int /\ out[n] \in Point
               /\ first + n - 1 \in times => out[n].y = Signal[first + n - 1]
               /\ \E u, v \in times : Signal[u] <= out[n].y /\ out[n].y <= Signal[v]
    <3> DEFINE t == first + n - 1
    <3>1. t \in Nat /\ least <= t /\ t <= most
      BY <2>5, <2>6
    <3>2. out[n] = [t |-> t, y |-> Value(times, t)]
      BY <2>4
    <3> HIDE DEF t, N
    <3>3. (\E u \in times : u <= t) /\ \E u \in times : t <= u
      BY <2>3, <3>1
    <3>4. /\ Value(times, t) \in Int
          /\ t \in times => Value(times, t) = Signal[t]
          /\ \E u, v \in times : Signal[u] <= Value(times, t) /\ Value(times, t) <= Signal[v]
      BY <3>1, <3>3, ValueRight
    <3>5. out[n].t = t /\ out[n].y = Value(times, t) /\ out[n] \in Point
      BY <3>1, <3>2, <3>4 DEF Point
    <3>6. QED
      BY <3>1, <3>4, <3>5 DEF t
  <2> DEFINE m == IF N < 0 THEN 0 ELSE N
  <2>9. m \in Nat /\ 1 .. N = 1 .. m
    BY <2>7
  <2> HIDE DEF m, N
  <2>10. out \in Seq(Point) /\ Len(out) = m
    <3>1. out = [n \in 1 .. m |-> out[n]]
      BY <2>4, <2>9
    <3>2. \A n \in 1 .. m : out[n] \in Point
      BY <2>8, <2>9
    <3>3. QED
      BY <2>9, <3>1, <3>2
  <2>11. ASSUME NEW u \in times, w[1] <= u, u <= w[2]
         PROVE  \E i, j \in 1 .. m : out[i].y <= Signal[u] /\ Signal[u] <= out[j].y
    <3>1. first <= u /\ u <= last /\ u \in Nat
      BY <2>1, <2>3, <2>6, <2>11
    <3>2. u - first + 1 \in 1 .. N /\ first + (u - first + 1) - 1 = u
      BY <2>6, <3>1 DEF N
    <3>3. u - first + 1 \in 1 .. m /\ out[u - first + 1].y = Signal[u] /\ Signal[u] \in Int
      BY <2>1, <2>8, <2>9, <3>2
    <3>4. out[u - first + 1].y <= Signal[u] /\ Signal[u] <= out[u - first + 1].y
      BY <3>3
    <3>5. QED
      BY <3>3, <3>4
  <2>12. \A i \in 1 .. m : \E u, v \in times : Signal[u] <= out[i].y /\ out[i].y <= Signal[v]
    BY <2>8, <2>9
  <2>13. InTime(out)
    <3> SUFFICES ASSUME NEW i \in 1 .. m, NEW j \in 1 .. m, i < j PROVE out[i].t <= out[j].t
      BY <2>10 DEF InTime
    <3>1. out[i].t = first + i - 1 /\ out[j].t = first + j - 1
      BY <2>8, <2>9
    <3>2. QED
      BY <2>6, <2>9, <3>1
  <2>14. QED
    BY <2>10, <2>11, <2>12, <2>13 DEF Shows
<1>3. QED
  BY <1>1, <1>2

-----------------------------------------------------------------------------
(* What is shown stays shown. *)

\* ByTime arranges the points of a trace.
LEMMA ByTimeRight ==
  ASSUME NEW points \in Seq(Point), NEW out, out = ByTime(points)
  PROVE  /\ out \in Seq(Point) /\ Len(out) = Len(points) /\ InTime(out)
         /\ \A i \in 1 .. Len(out) : \E j \in 1 .. Len(points) : out[i] = points[j]
         /\ \A j \in 1 .. Len(points) : \E i \in 1 .. Len(out) : out[i] = points[j]
<1> DEFINE D == DOMAIN points
           N == Len(points)
           before == [i \in D |-> {j \in D : points[j].t < points[i].t \/
                                             (points[j].t = points[i].t /\ j < i)}]
           order == InOrder(before)
<1>1. N \in Nat /\ D = 1 .. N /\ \A i \in D : points[i] \in Point /\ i \in Nat
  OBVIOUS
<1>2. out = [n \in D |-> points[order[n]]]
  BY DEF ByTime
<1> HIDE DEF D, N
<1>3. \A i \in D : points[i].t \in Nat
  BY <1>1 DEF Point
<1>4. StrictOrder(D, before)
  <2>1. \A i \in D : i \notin before[i]
    BY <1>1, <1>3
  <2>2. ASSUME NEW i \in D, NEW j \in D, NEW k \in D, k \in before[j], j \in before[i]
        PROVE  k \in before[i]
    BY <1>1, <1>3, <2>2
  <2>3. ASSUME NEW i \in D, NEW j \in D, i # j
        PROVE  i \in before[j] \/ j \in before[i]
    BY <1>1, <1>3, <2>3
  <2>4. before \in [D -> SUBSET D]
    OBVIOUS
  <2> HIDE DEF before
  <2>5. \A i, j \in D : j \in before[i] => before[j] \subseteq before[i]
    BY <2>2, <2>4
  <2>6. QED
    BY <2>1, <2>3, <2>4, <2>5 DEF StrictOrder
<1>5. \A i, j \in D : i \in before[j] => points[i].t <= points[j].t
  BY <1>3
<1> HIDE DEF before
<1>6. IsFiniteSet(D) /\ Cardinality(D) = N
  BY <1>1, FS_Interval
<1>7. /\ order \in [1 .. N -> D]
      /\ \A p \in D : \E n \in 1 .. N : order[n] = p
      /\ \A m, n \in 1 .. N : m < n => order[m] \in before[order[n]]
  BY <1>4, <1>6, InOrderSorts
<1> HIDE DEF order
<1>8. /\ out = [n \in 1 .. N |-> points[order[n]]]
      /\ \A n \in 1 .. N : order[n] \in 1 .. N /\ out[n] = points[order[n]]
  BY <1>1, <1>2, <1>7
<1>9. out \in Seq(Point) /\ Len(out) = N
  <2>1. \A n \in 1 .. N : points[order[n]] \in Point
    BY <1>1, <1>8
  <2>2. QED
    BY <1>1, <1>8, <2>1
<1>10. \A j \in 1 .. N : \E i \in 1 .. N : out[i] = points[j]
  BY <1>1, <1>7, <1>8
<1>11. ASSUME NEW m \in 1 .. N, NEW n \in 1 .. N, m < n
       PROVE  out[m].t <= out[n].t
  <2>1. order[m] \in D /\ order[n] \in D
    BY <1>7
  <2>2. order[m] \in before[order[n]]
    BY <1>7, <1>11
  <2>3. points[order[m]].t <= points[order[n]].t
    BY <1>5, <2>1, <2>2
  <2>4. out[m] = points[order[m]] /\ out[n] = points[order[n]]
    BY <1>8
  <2>5. QED
    BY <2>3, <2>4
<1>12. QED
  BY <1>8, <1>9, <1>10, <1>11 DEF InTime, N

LEMMA ByTimeShows ==
  ASSUME NEW trace, NEW read, NEW w, Shows(trace, read, w)
  PROVE  Shows(ByTime(trace), read, w) /\ InTime(ByTime(trace))
<1> DEFINE out == ByTime(trace)
<1>1. trace \in Seq(Point)
  BY DEF Shows
<1>2. /\ out \in Seq(Point) /\ InTime(out)
      /\ \A i \in 1 .. Len(out) : \E j \in 1 .. Len(trace) : out[i] = trace[j]
      /\ \A j \in 1 .. Len(trace) : \E i \in 1 .. Len(out) : out[i] = trace[j]
  BY <1>1, ByTimeRight
<1> HIDE DEF out
<1>3. ASSUME NEW u \in read, w[1] <= u, u <= w[2]
      PROVE  \E i, j \in 1 .. Len(out) : out[i].y <= Signal[u] /\ Signal[u] <= out[j].y
  <2>1. PICK i \in 1 .. Len(trace), j \in 1 .. Len(trace) :
          trace[i].y <= Signal[u] /\ Signal[u] <= trace[j].y
    BY <1>3 DEF Shows
  <2>2. QED
    BY <1>2, <2>1
<1>4. ASSUME NEW i \in 1 .. Len(out)
      PROVE  \E u, v \in read : Signal[u] <= out[i].y /\ out[i].y <= Signal[v]
  <2>1. PICK j \in 1 .. Len(trace) : out[i] = trace[j]
    BY <1>2
  <2>2. QED
    BY <2>1 DEF Shows
<1>5. QED
  BY <1>2, <1>3, <1>4 DEF Shows, out

\* Thinning.
LEMMA ThinnedShows ==
  ASSUME NEW trace, NEW read, NEW w, Shows(trace, read, w), NEW out, Thinned(out, trace), Timed(read)
  PROVE  Shows(out, read, w) /\ (InTime(trace) => InTime(out))
<1>1. /\ trace \in Seq(Point) /\ out \in Seq(Point)
      /\ \A i, j \in 1 .. Len(out) : i <= j =>
           \E a, b \in 1 .. Len(trace) : a <= b /\ out[i] = trace[a] /\ out[j] = trace[b]
      /\ \A n \in 1 .. Len(trace) :
           \E i, j \in 1 .. Len(out) : out[i].y <= trace[n].y /\ trace[n].y <= out[j].y
  BY DEF Shows, Thinned
<1>2. /\ \A i \in 1 .. Len(trace) : trace[i].y \in Int /\ trace[i].t \in Nat
      /\ \A i \in 1 .. Len(out) : out[i].y \in Int
  <2>0. trace \in Seq(Point) /\ out \in Seq(Point)
    BY <1>1
  <2>1. /\ \A i \in 1 .. Len(trace) : trace[i] \in Point
        /\ \A i \in 1 .. Len(out) : out[i] \in Point
    BY <2>0
  <2>2. QED
    BY <2>1 DEF Point
<1>3. \A u \in read : Signal[u] \in Int
  BY SignalAssumption DEF Timed
<1>4. Len(out) \in Nat /\ Len(trace) \in Nat
  BY <1>1
<1>5. ASSUME NEW u \in read, w[1] <= u, u <= w[2]
      PROVE  \E i, j \in 1 .. Len(out) : out[i].y <= Signal[u] /\ Signal[u] <= out[j].y
  <2>1. PICK m \in 1 .. Len(trace), n \in 1 .. Len(trace) :
          trace[m].y <= Signal[u] /\ Signal[u] <= trace[n].y
    BY <1>5 DEF Shows
  <2>2. PICK i \in 1 .. Len(out) : out[i].y <= trace[m].y
    BY <1>1
  <2>3. PICK j \in 1 .. Len(out) : trace[n].y <= out[j].y
    BY <1>1
  <2>4. out[i].y <= Signal[u] /\ Signal[u] <= out[j].y
    BY <1>2, <1>3, <2>1, <2>2, <2>3
  <2>5. QED
    BY <2>4
<1>6. ASSUME NEW i \in 1 .. Len(out)
      PROVE  \E u, v \in read : Signal[u] <= out[i].y /\ out[i].y <= Signal[v]
  <2>1. i <= i
    BY <1>4
  <2>2. PICK a \in 1 .. Len(trace) : out[i] = trace[a]
    BY <1>1, <2>1
  <2>3. QED
    BY <2>2 DEF Shows
<1>7. ASSUME InTime(trace), NEW i \in 1 .. Len(out), NEW j \in 1 .. Len(out), i < j
      PROVE  out[i].t <= out[j].t
  <2>1. i <= j
    BY <1>4, <1>7
  <2>2. PICK a \in 1 .. Len(trace), b \in 1 .. Len(trace) :
          a <= b /\ out[i] = trace[a] /\ out[j] = trace[b]
    BY <1>1, <2>1
  <2>3. a < b \/ a = b
    BY <1>4, <2>2
  <2>4. trace[a].t <= trace[b].t
    BY <1>2, <1>7, <2>3 DEF InTime
  <2>5. QED
    BY <2>2, <2>4
<1>8. Shows(out, read, w)
  BY <1>1, <1>5, <1>6 DEF Shows
<1>9. InTime(trace) => InTime(out)
  BY <1>7 DEF InTime
<1>10. QED
  BY <1>8, <1>9

\* Two traces together show what each of them shows.
LEMMA TogetherShows ==
  ASSUME NEW trace, NEW read, NEW more, NEW also, NEW w, Shows(trace, read, w), Shows(more, also, w)
  PROVE  Shows(trace \o more, read \cup also, w)
<1> DEFINE a == Len(trace)
           b == Len(more)
           c == trace \o more
<1>1. trace \in Seq(Point) /\ more \in Seq(Point)
  BY DEF Shows
<1>2. /\ a \in Nat /\ b \in Nat /\ c \in Seq(Point) /\ Len(c) = a + b
      /\ \A i \in 1 .. a : c[i] = trace[i]
      /\ \A i \in (a + 1) .. (a + b) : c[i] = more[i - a]
  BY <1>1, ConcatProperties
<1> HIDE DEF a, b, c
<1>3. \A i \in 1 .. a : i \in 1 .. (a + b)
  BY <1>2
<1>4. \A i \in 1 .. b : i + a \in 1 .. (a + b) /\ c[i + a] = more[i]
  <2> SUFFICES ASSUME NEW i \in 1 .. b PROVE i + a \in 1 .. (a + b) /\ c[i + a] = more[i]
    OBVIOUS
  <2>1. i + a \in (a + 1) .. (a + b) /\ (i + a) - a = i
    BY <1>2
  <2>2. c[i + a] = more[i]
    BY <1>2, <2>1
  <2>3. QED
    BY <1>2, <2>1, <2>2
<1>5. \A i \in 1 .. (a + b) : i \in 1 .. a \/ (i \in (a + 1) .. (a + b) /\ i - a \in 1 .. b)
  BY <1>2
<1>6. ASSUME NEW u \in read \cup also, w[1] <= u, u <= w[2]
      PROVE  \E i, j \in 1 .. (a + b) : c[i].y <= Signal[u] /\ Signal[u] <= c[j].y
  <2>1. CASE u \in read
    <3>1. PICK i \in 1 .. a, j \in 1 .. a : trace[i].y <= Signal[u] /\ Signal[u] <= trace[j].y
      BY <1>6, <2>1 DEF Shows, a
    <3>2. QED
      BY <1>2, <1>3, <3>1
  <2>2. CASE u \in also
    <3>1. PICK i \in 1 .. b, j \in 1 .. b : more[i].y <= Signal[u] /\ Signal[u] <= more[j].y
      BY <1>6, <2>2 DEF Shows, b
    <3>2. QED
      BY <1>4, <3>1
  <2>3. QED
    BY <2>1, <2>2
<1>7. ASSUME NEW i \in 1 .. (a + b)
      PROVE  \E u, v \in read \cup also : Signal[u] <= c[i].y /\ c[i].y <= Signal[v]
  <2>1. CASE i \in 1 .. a
    <3>1. \E u, v \in read : Signal[u] <= trace[i].y /\ trace[i].y <= Signal[v]
      BY <2>1 DEF Shows, a
    <3>2. QED
      BY <1>2, <2>1, <3>1
  <2>2. CASE i \in (a + 1) .. (a + b) /\ i - a \in 1 .. b
    <3>1. \E u, v \in also : Signal[u] <= more[i - a].y /\ more[i - a].y <= Signal[v]
      BY <2>2 DEF Shows, b
    <3>2. QED
      BY <1>2, <2>2, <3>1
  <2>3. QED
    BY <1>5, <2>1, <2>2
<1>8. QED
  BY <1>2, <1>6, <1>7 DEF Shows, c

-----------------------------------------------------------------------------
(* The traces of an answer. *)

\* The times of the samples read of a stream.
Read(s) == Samples(ToSet(query.got), s)

\* While files are read each trace shows the samples read so far; it is in order and
\* keeps its bound if there is but one file, and when all are arranged together.
EnvelopeInv ==
  query.at \in {"reading", "answered"} => \A s \in StreamSet :
    /\ Shows(query.trace[s], Read(s), query.window)
    /\ query.at = "answered" \/ Len(Paths) = 1 =>
         InTime(query.trace[s]) /\ Len(query.trace[s]) <= Bound

\* The samples of records that were read have times, and values.
LEMMA SamplesRight ==
  ASSUME DiskType, NEW seq \in Seq(Held(Files, StreamSet)), NEW s
  PROVE  Timed(Samples(ToSet(seq), s))
<1> DEFINE N == Len(seq)
           all == Samples(ToSet(seq), s)
           end == [i \in 1 .. N |-> At(seq[i]).start + At(seq[i]).npts]
<1>1. N \in Nat /\ ToSet(seq) = {seq[i] : i \in 1 .. N} /\ \A i \in 1 .. N : seq[i] \in Held(Files, StreamSet)
  BY DEF ToSet
<1>2. ASSUME NEW i \in 1 .. N
      PROVE  /\ end[i] \in Nat
             /\ \A u \in Span(At(seq[i])) : u \in Nat /\ u \in DOMAIN Signal /\ u <= end[i]
  <2>1. At(seq[i]) \in Record
    BY <1>1, HeldRecord
  <2> DEFINE r == At(seq[i])
  <2>2. end[i] = r.start + r.npts
    OBVIOUS
  <2>3. r \in Record
    BY <2>1
  <2> HIDE DEF r, end
  <2>4. /\ r.start \in Nat /\ r.npts \in Nat \ {0}
        /\ Span(r) = r.start .. (r.start + r.npts - 1) /\ Span(r) \subseteq DOMAIN Signal
    BY <2>3, RecordType
  <2>5. end[i] \in Nat /\ \A u \in Span(r) : u \in Nat /\ u \in DOMAIN Signal /\ u <= end[i]
    BY <2>2, <2>4
  <2>6. QED
    BY <2>5 DEF r
<1>3. ASSUME NEW u \in all PROVE \E i \in 1 .. N : u \in Span(At(seq[i]))
  BY <1>1, <1>3 DEF Samples
<1> HIDE DEF all, end, N
<1>4. PICK top \in Nat : \A i \in 1 .. N : end[i] <= top
  BY <1>1, <1>2, BoundedValues
<1>5. \A u \in all : u \in Nat /\ u \in DOMAIN Signal /\ u <= top
  <2> SUFFICES ASSUME NEW u \in all PROVE u \in Nat /\ u \in DOMAIN Signal /\ u <= top
    OBVIOUS
  <2>1. PICK i \in 1 .. N : u \in Span(At(seq[i]))
    BY <1>3
  <2>2. u \in Nat /\ u \in DOMAIN Signal /\ u <= end[i] /\ end[i] \in Nat /\ end[i] <= top
    BY <1>2, <1>4, <2>1
  <2>3. QED
    BY <2>2
<1>6. QED
  BY <1>5 DEF Timed, all

\* What a step of ReadFile reads.
LEMMA ReadFilePart ==
  ASSUME AnswerInv, ReadFile
  PROVE  \E part \in Seq(Held(Files, StreamSet)) :
           /\ disk' = disk /\ query'.at = "reading" /\ query'.window = query.window
           /\ query'.got = query.got \o part
           /\ query'.trace = [s \in StreamSet |->
                query.trace[s] \o Downsample(Points(ToSet(part), s, query.window))]
<1> DEFINE f == Head(query.todo)
           left == IF Len(query.got) < query.limit THEN query.limit - Len(query.got) ELSE 0
           budget == IF left = 0 THEN 1 ELSE left
           part == FileRecords(f, query.components, query.window, budget)
           trace == [s \in StreamSet |-> query.trace[s] \o Downsample(Points(ToSet(part), s, query.window))]
<1>1. /\ disk' = disk /\ DiskType /\ QueryType /\ Asking
      /\ query.at = "reading" /\ query.todo # << >>
  BY DEF ReadFile, AnswerInv
<1>2. query' = [query EXCEPT !.todo = Tail(query.todo), !.got = query.got \o part,
                  !.truncated = query.truncated \/ Len(part) >= budget, !.trace = trace]
  BY DEF ReadFile
<1>3. PICK k \in 0 .. Len(Paths) : query.todo = SubSeq(Paths, k + 1, Len(Paths))
  BY <1>1 DEF AnswerInv, Gathered
<1>4. f \in Files
  <2>1. k < Len(Paths)
    <3>1. k # Len(Paths)
      BY <1>1, <1>3, PathsRest
    <3>2. k \in Nat /\ k <= Len(Paths) /\ Len(Paths) \in Nat
      BY PathsRight
    <3>3. QED
      BY <3>1, <3>2
  <2> DEFINE todo == query.todo
  <2>2. todo = SubSeq(Paths, k + 1, Len(Paths)) /\ f = Head(todo)
    BY <1>3
  <2> HIDE DEF todo, f
  <2>3. Head(todo) = Paths[k + 1] /\ k + 1 \in 1 .. Len(Paths)
    BY <2>1, <2>2, PathsRest
  <2>4. QED
    BY <2>2, <2>3, PathsRight
<1>5. budget \in Nat
  <2>1. Len(query.got) \in Nat /\ query.limit \in Nat
    BY <1>1 DEF Asking
  <2>2. QED
    BY <2>1
<1> HIDE DEF f, left, budget
<1>6. part \in Seq(Held(Files, StreamSet))
  <2> DEFINE c == query.components
             w == query.window
  <2>1. part = FileRecords(f, c, w, budget)
    OBVIOUS
  <2> HIDE DEF c, w, part
  <2>2. part \in Seq(Held({f}, StreamSet))
    BY <1>1, <1>4, <1>5, <2>1, FileRecordsRight
  <2>3. Held({f}, StreamSet) \subseteq Held(Files, StreamSet)
    BY <1>4, HeldGrows
  <2>4. QED
    BY <2>2, <2>3, SeqWider, Zenon
<1> HIDE DEF part
<1>7. trace = [s \in StreamSet |-> query.trace[s] \o Downsample(Points(ToSet(part), s, query.window))]
  OBVIOUS
<1> HIDE DEF trace
<1>8. query' = [at |-> query.at, components |-> query.components, window |-> query.window,
                limit |-> query.limit, todo |-> Tail(query.todo), got |-> query.got \o part,
                truncated |-> (query.truncated \/ Len(part) >= budget),
                skipped |-> query.skipped, due |-> query.due, trace |-> trace]
  BY <1>1, <1>2, Zenon DEF QueryType
<1>9. /\ query'.at = "reading" /\ query'.window = query.window
      /\ query'.got = query.got \o part /\ query'.trace = trace
  BY <1>1, <1>8
<1>10. QED
  BY <1>1, <1>6, <1>7, <1>9

\* A file adds a trace that shows its samples.
LEMMA EnvelopeRead ==
  ASSUME AnswerInv, EnvelopeInv, ReadFile
  PROVE  EnvelopeInv'
<1>1. /\ DiskType /\ query.got \in Seq(Held(Files, StreamSet)) /\ query.window \in Windows
      /\ query.at = "reading" /\ query.todo # << >>
  BY DEF ReadFile, AnswerInv, Asking
<1>2. PICK part \in Seq(Held(Files, StreamSet)) :
        /\ disk' = disk /\ query'.at = "reading" /\ query'.window = query.window
        /\ query'.got = query.got \o part
        /\ query'.trace = [s \in StreamSet |->
             query.trace[s] \o Downsample(Points(ToSet(part), s, query.window))]
  BY ReadFilePart
<1>3. ToSet(query'.got) = ToSet(query.got) \cup ToSet(part)
  BY <1>1, <1>2, Concatenated
<1>4. ASSUME NEW s \in StreamSet
      PROVE  /\ Shows(query'.trace[s], Read(s)', query'.window)
             /\ Len(Paths) = 1 => InTime(query'.trace[s]) /\ Len(query'.trace[s]) <= Bound
  <2> DEFINE old == query.trace[s]
             w == query.window
             read == Read(s)
             also == Samples(ToSet(part), s)
             points == Points(ToSet(part), s, w)
             more == Downsample(points)
  <2>1. query'.trace[s] = old \o more
    BY <1>2
  <2>2. Read(s)' = read \cup also
    <3>1. \A p : At(p)' = At(p)
      BY <1>2, SameDisk
    <3>2. QED
      BY <1>3, <3>1 DEF Read, Samples
  <2>3. Shows(old, read, w)
    BY <1>1 DEF EnvelopeInv
  <2>4. Timed(also)
    BY <1>1, SamplesRight
  <2> HIDE DEF also
  <2>5. w \in Windows /\ also = Samples(ToSet(part), s)
    BY <1>1 DEF also
  <2> HIDE DEF w
  <2>6. Shows(points, also, w) /\ InTime(points)
    BY <2>4, <2>5, PointsRight
  <2> HIDE DEF points
  <2>7. points \in Seq(Point)
    BY <2>6 DEF Shows
  <2>8. Thinned(more, points) /\ Len(more) <= Bound
    BY <2>7, DownsampleRight
  <2> HIDE DEF more, old, read
  <2>9. Shows(more, also, w) /\ InTime(more)
    BY <2>4, <2>6, <2>8, ThinnedShows
  <2>10. Shows(old \o more, read \cup also, w)
    BY <2>3, <2>9, TogetherShows
  <2>11. ASSUME Len(Paths) = 1 PROVE old \o more = more
    <3>1. PICK k \in 0 .. Len(Paths) : Gathered(k)
      BY <1>1 DEF AnswerInv
    <3>2. k = 0
      <4>1. query.todo = SubSeq(Paths, k + 1, Len(Paths))
        BY <3>1 DEF Gathered
      <4>2. k # Len(Paths)
        BY <1>1, <4>1, PathsRest
      <4>3. QED
        BY <2>11, <4>2
    <3>3. ToSet(query.got) = {}
      BY <3>1, <3>2 DEF Gathered
    <3>4. read = {}
      BY <3>3 DEF read, Read, Samples
    <3>5. old \in Seq(Point) /\ \A i \in 1 .. Len(old) : FALSE
      BY <2>3, <3>4 DEF Shows
    <3>6. old = << >>
      BY <3>5
    <3>7. more \in Seq(Point)
      BY <2>9 DEF Shows
    <3>8. QED
      BY <3>6, <3>7
  <2>12. Shows(query'.trace[s], Read(s)', query'.window)
    BY <1>2, <2>1, <2>2, <2>10 DEF w
  <2>13. QED
    BY <2>1, <2>8, <2>9, <2>11, <2>12
<1>5. QED
  BY <1>2, <1>4 DEF EnvelopeInv

\* The traces of several files are arranged and thinned together.
LEMMA EnvelopeAnswer ==
  ASSUME AnswerInv, EnvelopeInv, Answer
  PROVE  EnvelopeInv'
<1> DEFINE trace == IF Len(Paths) = 1 THEN query.trace
                    ELSE [s \in StreamSet |-> Downsample(ByTime(query.trace[s]))]
<1>1. /\ disk' = disk /\ DiskType /\ QueryType /\ query.got \in Seq(Held(Files, StreamSet))
      /\ query.at = "reading"
  BY DEF Answer, AnswerInv, Asking
<1>2. query' = [query EXCEPT !.at = "answered", !.trace = trace]
  BY DEF Answer
<1>3. /\ Len(Paths) = 1 => trace = query.trace
      /\ Len(Paths) # 1 => trace = [s \in StreamSet |-> Downsample(ByTime(query.trace[s]))]
  OBVIOUS
<1> HIDE DEF trace
<1>4. query' = [at |-> "answered", components |-> query.components, window |-> query.window,
                limit |-> query.limit, todo |-> query.todo, got |-> query.got,
                truncated |-> query.truncated, skipped |-> query.skipped, due |-> query.due,
                trace |-> trace]
  BY <1>1, <1>2, Zenon DEF QueryType
<1>5. query'.window = query.window /\ query'.got = query.got /\ query'.trace = trace
  BY <1>4
<1>6. ASSUME NEW s \in StreamSet
      PROVE  /\ Shows(query'.trace[s], Read(s)', query'.window)
             /\ InTime(query'.trace[s]) /\ Len(query'.trace[s]) <= Bound
  <2> DEFINE old == query.trace[s]
             w == query.window
             read == Read(s)
             points == ByTime(old)
             new == Downsample(points)
  <2>1. Read(s)' = read
    <3>1. \A p : At(p)' = At(p)
      BY <1>1, SameDisk
    <3>2. QED
      BY <1>5, <3>1 DEF Read, Samples
  <2>2. Shows(old, read, w) /\ (Len(Paths) = 1 => InTime(old) /\ Len(old) <= Bound)
    BY <1>1 DEF EnvelopeInv
  <2>3. Timed(read)
    BY <1>1, SamplesRight DEF Read
  <2>4. CASE Len(Paths) = 1
    BY <1>3, <1>5, <2>1, <2>2, <2>4
  <2>5. CASE Len(Paths) # 1
    <3>1. query'.trace[s] = new
      BY <1>3, <1>5, <2>5
    <3> HIDE DEF old, w, read
    <3>2. Shows(points, read, w) /\ InTime(points)
      BY <2>2, ByTimeShows
    <3> HIDE DEF points
    <3>3. points \in Seq(Point)
      BY <3>2 DEF Shows
    <3>4. Thinned(new, points) /\ Len(new) <= Bound
      BY <3>3, DownsampleRight
    <3> HIDE DEF new
    <3>5. Shows(new, read, w) /\ InTime(new)
      BY <2>3, <3>2, <3>4, ThinnedShows
    <3>6. QED
      BY <1>5, <2>1, <3>1, <3>4, <3>5 DEF w
  <2>6. QED
    BY <2>4, <2>5
<1>7. QED
  BY <1>6 DEF EnvelopeInv

\* A new query has read and shows nothing.
LEMMA EnvelopeAsk ==
  ASSUME NEW c, NEW w, NEW limit, Ask(c, w, limit)
  PROVE  EnvelopeInv'
<1>1. query' = [at |-> "reading", components |-> c, window |-> w, limit |-> limit, todo |-> Paths,
                got |-> << >>, truncated |-> FALSE, skipped |-> FALSE,
                due |-> Stored(Files, w, c), trace |-> [s \in StreamSet |-> << >>]]
  BY Zenon DEF Ask, NoQuery
<1>2. query'.at = "reading" /\ query'.got = << >> /\ \A s \in StreamSet : query'.trace[s] = << >>
  BY <1>1
<1>3. \A s \in StreamSet : Read(s)' = {}
  <2>1. ToSet(<< >>) = {}
    BY DEF ToSet
  <2>2. QED
    BY <1>2, <2>1 DEF Read, Samples
<1>4. << >> \in Seq(Point) /\ Len(<< >>) = 0 /\ 1 .. 0 = {} /\ 0 <= Bound
  BY LimitsAssumption DEF Bound
<1>5. Shows(<< >>, {}, query'.window) /\ InTime(<< >>)
  BY <1>4 DEF Shows, InTime
<1>6. QED
  BY <1>2, <1>3, <1>4, <1>5 DEF EnvelopeInv

\* A step that leaves the traces, and what was read, as they are.
LEMMA EnvelopeStays ==
  ASSUME EnvelopeInv, query'.at = query.at, query'.window = query.window,
         query'.got = query.got, query'.trace = query.trace,
         \A p \in ToSet(query.got) : At(p)' = At(p)
  PROVE  EnvelopeInv'
<1>1. \A s : Read(s)' = Read(s)
  BY DEF Read, Samples
<1>2. QED
  BY <1>1 DEF EnvelopeInv

\* Thinning loses no peak and invents none; see EnvelopeKept.
THEOREM EnvelopesKept == ReaderSpec => []EnvelopeKept
<1> DEFINE Inv == AnswerInv /\ EnvelopeInv
<1>1. ReaderInit => Inv
  <2> SUFFICES ASSUME ReaderInit PROVE Inv
    OBVIOUS
  <2>1. query.at = "idle"
    BY DEF ReaderInit, NoQuery
  <2>2. QED
    BY <2>1, AnswerStarts DEF EnvelopeInv
<1>2. Inv /\ [ReaderNext]_readerVars => Inv'
  <2> SUFFICES ASSUME Inv, [ReaderNext]_readerVars PROVE Inv'
    OBVIOUS
  <2>1. AnswerInv'
    BY AnswerStep
  <2>2. ASSUME NEW c \in Requests, NEW w \in Windows, NEW limit \in Limits,
               Ask(c, w, limit) \/ Export(c, w, limit)
        PROVE  EnvelopeInv'
    <3>1. ASSUME Export(c, w, limit) PROVE EnvelopeInv'
      <4>1. query'.at = "exported"
        BY <3>1, Zenon DEF Export, NoQuery
      <4>2. QED
        BY <4>1 DEF EnvelopeInv
    <3>2. QED
      BY <2>2, <3>1, EnvelopeAsk
  <2>3. ASSUME ReadFile PROVE EnvelopeInv'
    BY <2>3, EnvelopeRead
  <2>4. ASSUME SkipFile PROVE EnvelopeInv'
    <3>1. query' = [query EXCEPT !.todo = Tail(query.todo), !.skipped = TRUE] /\ disk' = disk
      BY <2>4 DEF SkipFile
    <3>2. query' = [at |-> query.at, components |-> query.components, window |-> query.window,
                    limit |-> query.limit, todo |-> Tail(query.todo), got |-> query.got,
                    truncated |-> query.truncated, skipped |-> TRUE, due |-> query.due,
                    trace |-> query.trace]
      BY <3>1, Zenon DEF AnswerInv, QueryType
    <3>3. /\ query'.at = query.at /\ query'.window = query.window
          /\ query'.got = query.got /\ query'.trace = query.trace
      BY <3>2
    <3>4. QED
      BY <3>1, <3>3, EnvelopeStays, SameDisk
  <2>5. ASSUME Answer PROVE EnvelopeInv'
    BY <2>5, EnvelopeAnswer
  <2>6. ASSUME AskAgain PROVE EnvelopeInv'
    BY <2>6 DEF AskAgain, NoQuery, EnvelopeInv
  <2>7. ASSUME NEW f \in Files, NEW s \in StreamSet, NEW r \in Arriving, AppendRecord(f, s, r)
        PROVE  EnvelopeInv'
    <3>1. query' = query /\ DiskType /\ query.got \in Seq(Held(Files, StreamSet))
      BY <2>7 DEF AppendRecord, AnswerInv, Asking
    <3>2. \A p \in ToSet(query.got) : p \in Held(Files, StreamSet)
      BY <3>1 DEF ToSet
    <3>3. \A p \in ToSet(query.got) : At(p)' = At(p)
      BY <2>7, <3>1, <3>2, AppendPlaces
    <3>4. QED
      BY <3>1, <3>3, EnvelopeStays
  <2>8. ASSUME UNCHANGED readerVars PROVE EnvelopeInv'
    <3>1. query' = query /\ disk' = disk
      BY <2>8 DEF readerVars
    <3>2. QED
      BY <3>1, EnvelopeStays, SameDisk
  <2>9. EnvelopeInv'
    BY <2>2, <2>3, <2>4, <2>5, <2>6, <2>7, <2>8 DEF ReaderNext
  <2>10. QED
    BY <2>1, <2>9
<1>3. Inv => EnvelopeKept
  <2> SUFFICES ASSUME Inv, query.at = "answered", NEW s \in StreamSet
               PROVE  LET trace == query.trace[s]
                          read == Samples(ToSet(query.got), s)
                          shown == {trace[i].y : i \in DOMAIN trace}
                          inside == {Signal[t] : t \in {u \in read : query.window[1] <= u /\ u <= query.window[2]}}
                          within(V, W) == \A v \in V : \E low, high \in W : low <= v /\ v <= high
                      IN /\ within(inside, shown) /\ within(shown, {Signal[t] : t \in read})
                         /\ \A i, j \in DOMAIN trace : i < j => trace[i].t <= trace[j].t
                         /\ Len(trace) <= IF MaxPoints < LeastPoints THEN LeastPoints ELSE MaxPoints
    BY DEF EnvelopeKept
  <2> DEFINE trace == query.trace[s]
             read == Samples(ToSet(query.got), s)
             w == query.window
             shown == {trace[i].y : i \in DOMAIN trace}
  <2>1. Shows(trace, read, w) /\ InTime(trace) /\ Len(trace) <= Bound
    BY DEF EnvelopeInv, Read
  <2> HIDE DEF trace, read, w
  <2>2. trace \in Seq(Point) /\ DOMAIN trace = 1 .. Len(trace)
    BY <2>1 DEF Shows
  <2>3. ASSUME NEW v \in {Signal[t] : t \in {u \in read : w[1] <= u /\ u <= w[2]}}
        PROVE  \E low, high \in shown : low <= v /\ v <= high
    <3>1. PICK u \in read : w[1] <= u /\ u <= w[2] /\ v = Signal[u]
      BY <2>3
    <3>2. PICK i \in 1 .. Len(trace), j \in 1 .. Len(trace) :
            trace[i].y <= Signal[u] /\ Signal[u] <= trace[j].y
      BY <2>1, <3>1 DEF Shows
    <3>3. trace[i].y \in shown /\ trace[j].y \in shown
      BY <2>2
    <3>4. QED
      BY <3>1, <3>2, <3>3
  <2>4. ASSUME NEW v \in shown
        PROVE  \E low, high \in {Signal[t] : t \in read} : low <= v /\ v <= high
    <3>1. PICK i \in 1 .. Len(trace) : v = trace[i].y
      BY <2>2, <2>4
    <3>2. PICK t \in read, u \in read : Signal[t] <= trace[i].y /\ trace[i].y <= Signal[u]
      BY <2>1 DEF Shows
    <3>3. QED
      BY <3>1, <3>2
  <2>5. \A i, j \in DOMAIN trace : i < j => trace[i].t <= trace[j].t
    BY <2>1, <2>2 DEF InTime
  <2>6. Len(trace) <= IF MaxPoints < LeastPoints THEN LeastPoints ELSE MaxPoints
    BY <2>1 DEF Bound
  <2> HIDE DEF shown
  <2>7. QED
    BY <2>3, <2>4, <2>5, <2>6, Zenon DEF trace, read, w, shown
<1>4. QED
  BY <1>1, <1>2, <1>3, PTL DEF ReaderSpec

=============================================================================
