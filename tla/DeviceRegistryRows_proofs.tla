--------------------- MODULE DeviceRegistryRows_proofs ---------------------
(***************************************************************************)
(* Proofs about the rows of DeviceRegistry, for any files, keys, rules and  *)
(* forms, and any number of events: each file has one row, whatever runs    *)
(* side by side; no row is hidden without a reason; the merge tool puts     *)
(* files together only that do not overlap; and an undisturbed sync leaves  *)
(* no shown device without the customer it is due.                          *)
(***************************************************************************)
EXTENDS DeviceRegistry_proofs, SequenceTheorems, FiniteSetTheorems

Distinct(seq) == \A i, j \in DOMAIN seq : seq[i] = seq[j] => i = j
\* f comes before g.
Ahead(seq, f, g) == \E i, j \in DOMAIN seq : i < j /\ seq[i] = f /\ seq[j] = g

\* part holds the elements of seq that are in S, in the order of seq.
Embedding(e, part, seq, S) ==
  /\ e \in [1 .. Len(part) -> 1 .. Len(seq)]
  /\ \A i, j \in 1 .. Len(part) : i < j => e[i] < e[j]
  /\ \A i \in 1 .. Len(part) : part[i] = seq[e[i]] /\ part[i] \in S
  /\ \A n \in 1 .. Len(seq) : seq[n] \in S => \E i \in 1 .. Len(part) : e[i] = n
IsPart(part, seq, S) == \E e : Embedding(e, part, seq, S)
-----------------------------------------------------------------------------
(* Sequences of rows. *)

\* The elements, their distinctness and their order in a part of a sequence.
LEMMA PartFacts ==
  ASSUME NEW T, NEW seq \in Seq(T), NEW part \in Seq(T), NEW S, IsPart(part, seq, S)
  PROVE  /\ ToSet(part) = ToSet(seq) \cap S
         /\ Distinct(seq) => Distinct(part)
         /\ Distinct(seq) =>
              \A f, g : f \in S /\ g \in S => (Ahead(part, f, g) <=> Ahead(seq, f, g))
<1>1. PICK e : Embedding(e, part, seq, S)
  BY DEF IsPart
<1>2. /\ DOMAIN seq = 1 .. Len(seq) /\ DOMAIN part = 1 .. Len(part)
      /\ Len(seq) \in Nat /\ Len(part) \in Nat
  OBVIOUS
<1>3. ToSet(part) = ToSet(seq) \cap S
  <2>1. ASSUME NEW x \in ToSet(part) PROVE x \in ToSet(seq) \cap S
    <3>1. PICK i \in 1 .. Len(part) : x = part[i]
      BY <1>2, <2>1 DEF ToSet
    <3>2. x = seq[e[i]] /\ x \in S /\ e[i] \in 1 .. Len(seq)
      BY <1>1, <3>1 DEF Embedding
    <3>3. QED
      BY <1>2, <3>2 DEF ToSet
  <2>2. ASSUME NEW x \in ToSet(seq) \cap S PROVE x \in ToSet(part)
    <3>1. PICK n \in 1 .. Len(seq) : x = seq[n]
      BY <1>2, <2>2 DEF ToSet
    <3>2. PICK i \in 1 .. Len(part) : e[i] = n
      BY <1>1, <2>2, <3>1 DEF Embedding
    <3>3. x = part[i]
      BY <1>1, <3>1, <3>2 DEF Embedding
    <3>4. QED
      BY <1>2, <3>3 DEF ToSet
  <2>3. QED
    BY <2>1, <2>2
<1>4. ASSUME Distinct(seq)
      PROVE  Distinct(part)
  <2> SUFFICES ASSUME NEW i \in 1 .. Len(part), NEW j \in 1 .. Len(part), part[i] = part[j], i < j
               PROVE  FALSE
    BY <1>2 DEF Distinct
  <2>1. e[i] < e[j] /\ e[i] \in 1 .. Len(seq) /\ e[j] \in 1 .. Len(seq) /\ seq[e[i]] = seq[e[j]]
    BY <1>1 DEF Embedding
  <2>2. e[i] = e[j]
    BY <1>2, <1>4, <2>1 DEF Distinct
  <2>3. QED
    BY <2>1, <2>2
<1>5. ASSUME Distinct(seq), NEW f \in S, NEW g \in S
      PROVE  Ahead(part, f, g) <=> Ahead(seq, f, g)
  <2>1. ASSUME Ahead(part, f, g) PROVE Ahead(seq, f, g)
    <3>1. PICK i \in 1 .. Len(part), j \in 1 .. Len(part) : i < j /\ part[i] = f /\ part[j] = g
      BY <1>2, <2>1 DEF Ahead
    <3>2. e[i] < e[j] /\ e[i] \in 1 .. Len(seq) /\ e[j] \in 1 .. Len(seq) /\ seq[e[i]] = f /\ seq[e[j]] = g
      BY <1>1, <3>1 DEF Embedding
    <3>3. QED
      BY <1>2, <3>2 DEF Ahead
  <2>2. ASSUME Ahead(seq, f, g) PROVE Ahead(part, f, g)
    <3>1. PICK m \in 1 .. Len(seq), n \in 1 .. Len(seq) : m < n /\ seq[m] = f /\ seq[n] = g
      BY <1>2, <2>2 DEF Ahead
    <3>2. PICK i \in 1 .. Len(part), j \in 1 .. Len(part) : e[i] = m /\ e[j] = n
      BY <1>1, <3>1 DEF Embedding
    <3>3. i < j
      <4>1. CASE j < i
        <5>1. e[j] < e[i]
          BY <1>1, <4>1 DEF Embedding
        <5>2. QED
          BY <3>1, <3>2, <5>1
      <4>2. CASE i = j
        BY <3>1, <3>2, <4>2
      <4>3. QED
        BY <4>1, <4>2
    <3>4. part[i] = f /\ part[j] = g
      BY <1>1, <3>1, <3>2 DEF Embedding
    <3>5. QED
      BY <1>2, <3>3, <3>4 DEF Ahead
  <2>3. QED
    BY <2>1, <2>2
<1>6. QED
  BY <1>3, <1>4, <1>5

\* RemoveFirst() leaves all elements but one.
LEMMA RemoveFirstPart ==
  ASSUME NEW T, NEW seq \in Seq(T), NEW e, Distinct(seq)
  PROVE  RemoveFirst(seq, e) \in Seq(T) /\ IsPart(RemoveFirst(seq, e), seq, T \ {e})
<1> DEFINE I == {i \in 1 .. Len(seq) : seq[i] = e}
           n == SelectInSeq(seq, LAMBDA v : v = e)
<1>1. CASE ~ \E i \in 1 .. Len(seq) : seq[i] = e
  <2>1. RemoveFirst(seq, e) = seq
    BY <1>1 DEF RemoveFirst
  <2> DEFINE map == [i \in 1 .. Len(seq) |-> i]
  <2>2. Embedding(map, seq, seq, T \ {e})
    BY <1>1 DEF Embedding
  <2> HIDE DEF map
  <2>3. QED
    BY <2>1, <2>2 DEF IsPart
<1>2. CASE \E i \in 1 .. Len(seq) : seq[i] = e
  <2>1. n = Min(I)
    BY <1>2 DEF SelectInSeq
  <2>2. Min(I) \in I
    <3>1. I \in SUBSET Nat /\ I # {}
      BY <1>2
    <3>2. QED
      BY <3>1, MinOfNaturals
  <2>3. n \in 1 .. Len(seq) /\ seq[n] = e
    BY <2>1, <2>2
  <2>4. RemoveFirst(seq, e) = SubSeq(seq, 1, n - 1) \o SubSeq(seq, n + 1, Len(seq))
    BY <1>2 DEF RemoveFirst, RemoveAt
  <2> HIDE DEF n
  <2> DEFINE before == SubSeq(seq, 1, n - 1)
             behind == SubSeq(seq, n + 1, Len(seq))
             part == before \o behind
             map == [i \in 1 .. Len(seq) - 1 |-> IF i < n THEN i ELSE i + 1]
  <2>5. /\ before \in Seq(T) /\ Len(before) = n - 1
        /\ \A i \in 1 .. n - 1 : before[i] = seq[i]
    BY <2>3
  <2>6. /\ behind \in Seq(T) /\ Len(behind) = Len(seq) - n
        /\ \A i \in 1 .. Len(seq) - n : behind[i] = seq[n + i]
    BY <2>3
  <2>7. RemoveFirst(seq, e) = part
    BY <2>4
  <2> HIDE DEF before, behind
  <2>8. part \in Seq(T) /\ Len(part) = Len(seq) - 1
    BY <2>3, <2>5, <2>6
  <2>9. \A i \in 1 .. Len(part) : part[i] = IF i < n THEN before[i] ELSE behind[i - (n - 1)]
    BY <2>3, <2>5, <2>6, <2>8
  <2> HIDE DEF part
  <2>10. ASSUME NEW i \in 1 .. Len(part)
         PROVE  map[i] \in 1 .. Len(seq) /\ map[i] # n /\ part[i] = seq[map[i]]
    <3>1. CASE i < n
      BY <2>3, <2>5, <2>8, <2>9, <3>1
    <3>2. CASE ~(i < n)
      <4>1. part[i] = behind[i - (n - 1)] /\ i - (n - 1) \in 1 .. Len(seq) - n
        BY <2>3, <2>8, <2>9, <3>2
      <4>2. part[i] = seq[n + (i - (n - 1))]
        BY <2>6, <4>1
      <4>3. n + (i - (n - 1)) = i + 1 /\ map[i] = i + 1
        BY <2>3, <2>8, <3>2
      <4>4. QED
        BY <2>3, <2>8, <3>2, <4>2, <4>3
    <3>3. QED
      BY <3>1, <3>2
  <2>11. \A i, j \in 1 .. Len(part) : i < j => map[i] < map[j]
    BY <2>3, <2>8
  <2>12. map \in [1 .. Len(part) -> 1 .. Len(seq)]
    BY <2>8, <2>10
  <2>13. ASSUME NEW m \in 1 .. Len(seq), seq[m] \in T \ {e}
         PROVE  \E i \in 1 .. Len(part) : map[i] = m
    <3>1. m # n
      BY <2>3, <2>13
    <3>2. CASE m < n
      <4>1. m \in 1 .. Len(part) /\ map[m] = m
        BY <2>3, <2>8, <3>2
      <4>2. QED
        BY <4>1
    <3>3. CASE m > n
      <4>1. m - 1 \in 1 .. Len(part) /\ map[m - 1] = m
        BY <2>3, <2>8, <3>3
      <4>2. QED
        BY <4>1
    <3>4. m < n \/ m > n
      BY <2>3, <3>1
    <3>5. QED
      BY <3>2, <3>3, <3>4
  <2> HIDE DEF map
  <2>14. \A i \in 1 .. Len(part) : part[i] = seq[map[i]] /\ part[i] \in T \ {e}
    <3> SUFFICES ASSUME NEW i \in 1 .. Len(part) PROVE part[i] = seq[map[i]] /\ part[i] \in T \ {e}
      OBVIOUS
    <3>1. map[i] \in 1 .. Len(seq) /\ map[i] # n /\ part[i] = seq[map[i]]
      BY <2>10
    <3>2. seq[map[i]] # e
      BY <2>3, <3>1 DEF Distinct
    <3>3. QED
      BY <3>1, <3>2
  <2>15. Embedding(map, part, seq, T \ {e})
    BY <2>11, <2>12, <2>13, <2>14 DEF Embedding
  <2>16. QED
    BY <2>7, <2>8, <2>15 DEF IsPart
<1>3. QED
  BY <1>1, <1>2

\* Only() is computed along the sequence.  The steps up to n are a function that exists
\* for every n: if not, take the least n without one.
UpToSteps(h, seq, S, n) ==
  /\ DOMAIN h = 0 .. n
  /\ h[0] = << >>
  /\ \A m \in 1 .. n : h[m] = IF seq[m] \in S THEN Append(h[m - 1], seq[m]) ELSE h[m - 1]
LEMMA UpToStepsExist ==
  ASSUME NEW seq, NEW S, NEW n \in Nat
  PROVE  \E h : UpToSteps(h, seq, S, n)
<1> DEFINE Without == {m \in Nat : ~ \E h : UpToSteps(h, seq, S, m)}
<1> SUFFICES ASSUME Without # {} PROVE FALSE
  OBVIOUS
<1>1. PICK m \in Without : \A k \in Without : m <= k
  <2>1. Without \in SUBSET Nat
    OBVIOUS
  <2> HIDE DEF Without
  <2>2. QED
    BY <2>1, LeastOfNaturals
<1>2. m # 0
  <2> DEFINE g == [k \in 0 .. 0 |-> << >>]
  <2>1. UpToSteps(g, seq, S, 0)
    <3>1. DOMAIN g = 0 .. 0 /\ g[0] = << >>
      OBVIOUS
    <3>2. ~ \E k \in 1 .. 0 : TRUE
      OBVIOUS
    <3> HIDE DEF g
    <3>3. QED
      BY <3>1, <3>2 DEF UpToSteps
  <2>2. QED
    BY <1>1, <2>1
<1>3. m - 1 \in Nat /\ m - 1 \notin Without
  BY <1>1, <1>2
<1>4. PICK h : UpToSteps(h, seq, S, m - 1)
  BY <1>3
<1> DEFINE last == IF seq[m] \in S THEN Append(h[m - 1], seq[m]) ELSE h[m - 1]
           g == [k \in 0 .. m |-> IF k < m THEN h[k] ELSE last]
<1>5. UpToSteps(g, seq, S, m)
  <2>1. DOMAIN g = 0 .. m /\ g[0] = << >>
    BY <1>1, <1>2, <1>4 DEF UpToSteps
  <2>2. ASSUME NEW k \in 1 .. m
        PROVE  g[k] = IF seq[k] \in S THEN Append(g[k - 1], seq[k]) ELSE g[k - 1]
    <3>1. k - 1 \in 0 .. m /\ g[k - 1] = h[k - 1]
      BY <1>1
    <3>2. CASE k = m
      <4>1. g[k] = last
        BY <1>1, <3>2
      <4>2. QED
        BY <3>1, <3>2, <4>1
    <3>3. CASE k < m
      <4>1. g[k] = h[k] /\ k \in 1 .. m - 1
        BY <1>1, <3>3
      <4>2. h[k] = IF seq[k] \in S THEN Append(h[k - 1], seq[k]) ELSE h[k - 1]
        BY <1>4, <4>1 DEF UpToSteps
      <4> HIDE DEF g
      <4>3. QED
        BY <3>1, <4>1, <4>2
    <3>4. QED
      BY <1>1, <3>2, <3>3
  <2> HIDE DEF g
  <2>3. QED
    BY <2>1, <2>2 DEF UpToSteps
<1>6. QED
  BY <1>1, <1>5

LEMMA OnlySteps ==
  ASSUME NEW T, NEW seq \in Seq(T), NEW S
  PROVE  \E h : UpToSteps(h, seq, S, Len(seq)) /\ Only(seq, S) = h[Len(seq)]
<1> DEFINE Right(h) ==
      h = [n \in 0 .. Len(seq) |->
             IF n = 0 THEN << >> ELSE IF seq[n] \in S THEN Append(h[n - 1], seq[n]) ELSE h[n - 1]]
<1>0. Len(seq) \in Nat
  OBVIOUS
<1>1. PICK h : UpToSteps(h, seq, S, Len(seq))
  BY <1>0, UpToStepsExist
<1> DEFINE f == [n \in 0 .. Len(seq) |-> h[n]]
<1>2. \A n \in 0 .. Len(seq) :
        f[n] = IF n = 0 THEN << >> ELSE IF seq[n] \in S THEN Append(f[n - 1], seq[n]) ELSE f[n - 1]
  <2> SUFFICES ASSUME NEW n \in 0 .. Len(seq)
               PROVE  f[n] = IF n = 0 THEN << >> ELSE IF seq[n] \in S THEN Append(f[n - 1], seq[n]) ELSE f[n - 1]
    OBVIOUS
  <2>1. CASE n = 0
    BY <1>1, <2>1 DEF UpToSteps
  <2>2. CASE n # 0
    <3>1. n \in 1 .. Len(seq) /\ n - 1 \in 0 .. Len(seq)
      BY <1>0, <2>2
    <3>2. f[n] = h[n] /\ f[n - 1] = h[n - 1]
      BY <3>1
    <3>3. h[n] = IF seq[n] \in S THEN Append(h[n - 1], seq[n]) ELSE h[n - 1]
      BY <1>1, <3>1 DEF UpToSteps
    <3> HIDE DEF f
    <3>4. QED
      BY <2>2, <3>2, <3>3
  <2>3. QED
    BY <2>1, <2>2
<1>3. Right(f)
  <2>1. f = [n \in 0 .. Len(seq) |-> f[n]]
    OBVIOUS
  <2> HIDE DEF f
  <2>2. QED
    BY <1>2, <2>1
<1> DEFINE c == CHOOSE h_ : Right(h_)
<1>4. Right(c)
  BY <1>3
<1>5. Only(seq, S) = c[Len(seq)]
  BY DEF Only
<1> HIDE DEF c
<1>6. UpToSteps(c, seq, S, Len(seq))
  <2>1. DOMAIN c = 0 .. Len(seq) /\ c[0] = << >>
    BY <1>0, <1>4
  <2>2. ASSUME NEW m \in 1 .. Len(seq)
        PROVE  c[m] = IF seq[m] \in S THEN Append(c[m - 1], seq[m]) ELSE c[m - 1]
    <3>1. \A n \in 0 .. Len(seq) :
            c[n] = IF n = 0 THEN << >> ELSE IF seq[n] \in S THEN Append(c[n - 1], seq[n]) ELSE c[n - 1]
      BY <1>4, Zenon
    <3>2. m \in 0 .. Len(seq) /\ m # 0
      BY <1>0
    <3>3. QED
      BY <3>1, <3>2, Zenon
  <2> HIDE DEF Right
  <2>3. QED
    BY <2>1, <2>2 DEF UpToSteps
<1>7. QED
  BY <1>5, <1>6

\* By the least counterexample again: after n steps, the result is the part of the first n.
PartTo(e, part, seq, n, S) ==
  /\ e \in [1 .. Len(part) -> 1 .. n]
  /\ \A i, j \in 1 .. Len(part) : i < j => e[i] < e[j]
  /\ \A i \in 1 .. Len(part) : part[i] = seq[e[i]] /\ part[i] \in S
  /\ \A m \in 1 .. n : seq[m] \in S => \E i \in 1 .. Len(part) : e[i] = m
LEMMA OnlyStep ==
  ASSUME NEW T, NEW seq \in Seq(T), NEW S, NEW n \in 1 .. Len(seq), NEW part \in Seq(T), NEW e,
         PartTo(e, part, seq, n - 1, S)
  PROVE  IF seq[n] \in S THEN \E d : PartTo(d, Append(part, seq[n]), seq, n, S)
                         ELSE \E d : PartTo(d, part, seq, n, S)
<1>0. n \in Nat /\ n - 1 \in Nat /\ Len(part) \in Nat
  OBVIOUS
<1>1. /\ e \in [1 .. Len(part) -> 1 .. n - 1]
      /\ \A i, j \in 1 .. Len(part) : i < j => e[i] < e[j]
      /\ \A i \in 1 .. Len(part) : part[i] = seq[e[i]] /\ part[i] \in S
      /\ \A m \in 1 .. n - 1 : seq[m] \in S => \E i \in 1 .. Len(part) : e[i] = m
  BY DEF PartTo
<1>2. ASSUME seq[n] \notin S
      PROVE  PartTo(e, part, seq, n, S)
  <2>1. e \in [1 .. Len(part) -> 1 .. n]
    BY <1>0, <1>1
  <2>2. ASSUME NEW m \in 1 .. n, seq[m] \in S PROVE \E i \in 1 .. Len(part) : e[i] = m
    <3>1. m # n
      BY <1>2, <2>2
    <3>2. m \in 1 .. n - 1
      BY <1>0, <3>1
    <3>3. QED
      BY <1>1, <2>2, <3>2
  <2>3. QED
    BY <1>1, <2>1, <2>2 DEF PartTo
<1>3. ASSUME seq[n] \in S
      PROVE  \E d : PartTo(d, Append(part, seq[n]), seq, n, S)
  <2> DEFINE k == Len(part) + 1
             d == [i \in 1 .. k |-> IF i = k THEN n ELSE e[i]]
             more == Append(part, seq[n])
  <2>1. Len(more) = k /\ more[k] = seq[n] /\ \A i \in 1 .. Len(part) : more[i] = part[i]
    OBVIOUS
  <2>2. k \in Nat /\ k = Len(part) + 1
    BY <1>0
  <2>3. d[k] = n /\ \A i \in 1 .. Len(part) : d[i] = e[i]
    BY <1>0
  <2>4. DOMAIN d = 1 .. k /\ d = [i \in 1 .. k |-> d[i]]
    OBVIOUS
  <2> HIDE DEF d, k, more
  <2>5. ASSUME NEW i \in 1 .. k
        PROVE  i = k \/ i \in 1 .. Len(part)
    BY <1>0, <2>2
  <2>6. ASSUME NEW i \in 1 .. k
        PROVE  d[i] \in 1 .. n /\ more[i] = seq[d[i]] /\ more[i] \in S
    <3>1. CASE i = k
      BY <1>0, <1>3, <2>1, <2>3, <3>1
    <3>2. CASE i \in 1 .. Len(part)
      <4>1. d[i] = e[i] /\ more[i] = part[i] /\ e[i] \in 1 .. n - 1
        BY <1>1, <2>1, <2>3, <3>2
      <4>2. e[i] \in 1 .. n
        BY <1>0, <4>1
      <4>3. QED
        BY <1>1, <3>2, <4>1, <4>2
    <3>3. QED
      BY <2>5, <3>1, <3>2
  <2>7. ASSUME NEW i \in 1 .. k, NEW j \in 1 .. k, i < j
        PROVE  d[i] < d[j]
    <3>1. i \in 1 .. Len(part)
      BY <1>0, <2>2, <2>7
    <3>2. e[i] \in 1 .. n - 1 /\ d[i] = e[i]
      BY <1>1, <2>3, <3>1
    <3>3. CASE j = k
      BY <1>0, <2>3, <3>2, <3>3
    <3>4. CASE j \in 1 .. Len(part)
      BY <1>1, <2>3, <2>7, <3>1, <3>2, <3>4
    <3>5. QED
      BY <2>5, <3>3, <3>4
  <2>8. ASSUME NEW m \in 1 .. n, seq[m] \in S
        PROVE  \E i \in 1 .. k : d[i] = m
    <3>1. CASE m = n
      <4>1. k \in 1 .. k
        BY <1>0, <2>2
      <4>2. QED
        BY <2>3, <3>1, <4>1
    <3>2. CASE m # n
      <4>1. m \in 1 .. n - 1
        BY <1>0, <3>2
      <4>2. PICK i \in 1 .. Len(part) : e[i] = m
        BY <1>1, <2>8, <4>1
      <4>3. i \in 1 .. k
        BY <1>0, <2>2
      <4>4. QED
        BY <2>3, <4>2, <4>3
    <3>3. QED
      BY <3>1, <3>2
  <2>9. d \in [1 .. k -> 1 .. n]
    BY <2>4, <2>6
  <2>10. PartTo(d, more, seq, n, S)
    BY <2>1, <2>6, <2>7, <2>8, <2>9 DEF PartTo
  <2>11. QED
    BY <2>10 DEF more
<1>4. QED
  BY <1>2, <1>3

LEMMA OnlyPart ==
  ASSUME NEW T, NEW seq \in Seq(T), NEW S
  PROVE  Only(seq, S) \in Seq(T) /\ IsPart(Only(seq, S), seq, S)
<1>1. PICK h : UpToSteps(h, seq, S, Len(seq)) /\ Only(seq, S) = h[Len(seq)]
  BY OnlySteps
<1> DEFINE Good(n) == h[n] \in Seq(T) /\ \E e : PartTo(e, h[n], seq, n, S)
           Wrong == {n \in Nat : n <= Len(seq) /\ ~Good(n)}
<1>2. Len(seq) \in Nat
  OBVIOUS
<1>3. Good(0)
  <2>1. h[0] = << >>
    BY <1>1 DEF UpToSteps
  <2> DEFINE e == [i \in 1 .. 0 |-> 1]
  <2>2. PartTo(e, << >>, seq, 0, S)
    <3>1. Len(<< >>) = 0 /\ ~(\E i \in 1 .. 0 : TRUE) /\ e \in [1 .. 0 -> 1 .. 0]
      OBVIOUS
    <3> HIDE DEF e
    <3>2. QED
      BY <3>1 DEF PartTo
  <2>3. << >> \in Seq(T)
    OBVIOUS
  <2>4. QED
    BY <2>1, <2>2, <2>3
<1>4. ASSUME NEW n \in 1 .. Len(seq), Good(n - 1)
      PROVE  Good(n)
  <2>1. h[n] = IF seq[n] \in S THEN Append(h[n - 1], seq[n]) ELSE h[n - 1]
    BY <1>1 DEF UpToSteps
  <2>2. PICK e : PartTo(e, h[n - 1], seq, n - 1, S)
    BY <1>4
  <2>3. h[n - 1] \in Seq(T) /\ seq[n] \in T
    BY <1>4
  <2>4. h[n] \in Seq(T)
    BY <2>1, <2>3
  <2>5. IF seq[n] \in S THEN \E d : PartTo(d, Append(h[n - 1], seq[n]), seq, n, S)
                        ELSE \E d : PartTo(d, h[n - 1], seq, n, S)
    BY <2>2, <2>3, OnlyStep
  <2>6. \E d : PartTo(d, h[n], seq, n, S)
    BY <2>1, <2>5
  <2>7. QED
    BY <2>4, <2>6
<1> HIDE DEF Good
<1>5. Wrong = {}
  <2> SUFFICES ASSUME Wrong # {} PROVE FALSE
    OBVIOUS
  <2>1. Wrong \in SUBSET Nat
    OBVIOUS
  <2>2. PICK n \in Wrong : \A m \in Wrong : n <= m
    <3> HIDE DEF Wrong
    <3>1. QED
      BY <2>1, LeastOfNaturals
  <2>3. n \in 1 .. Len(seq) /\ n - 1 \notin Wrong
    BY <1>2, <1>3, <2>2
  <2>4. Good(n - 1)
    BY <1>2, <2>3
  <2>5. QED
    BY <1>4, <2>2, <2>3, <2>4
<1>6. Good(Len(seq))
  BY <1>2, <1>5
<1>7. QED
  BY <1>1, <1>6 DEF Good, PartTo, IsPart, Embedding

\* A sequence without repetitions is as long as the set of its elements.
LEMMA DistinctCounts ==
  ASSUME NEW T, NEW seq \in Seq(T), Distinct(seq)
  PROVE  IsFiniteSet(ToSet(seq)) /\ Cardinality(ToSet(seq)) = Len(seq)
<1>1. Len(seq) \in Nat /\ DOMAIN seq = 1 .. Len(seq)
  OBVIOUS
<1> DEFINE f == [i \in 1 .. Len(seq) |-> seq[i]]
<1>2. f \in [1 .. Len(seq) -> ToSet(seq)]
  BY <1>1 DEF ToSet
<1>3. f \in Bijection(1 .. Len(seq), ToSet(seq))
  <2>1. \A i, j \in 1 .. Len(seq) : f[i] = f[j] => i = j
    BY <1>1 DEF Distinct
  <2>2. \A x \in ToSet(seq) : \E i \in 1 .. Len(seq) : f[i] = x
    BY <1>1 DEF ToSet
  <2> HIDE DEF f
  <2>3. QED
    BY <1>2, <2>1, <2>2 DEF Bijection, Injection, Surjection, IsInjective
<1>4. ExistsBijection(1 .. Len(seq), ToSet(seq))
  BY <1>3 DEF ExistsBijection
<1>5. QED
  BY <1>1, <1>4, FS_CountingElements, FS_NatBijection

\* Two sequences with different elements, one behind the other.
LEMMA Joined ==
  ASSUME NEW T, NEW a \in Seq(T), NEW b \in Seq(T), Distinct(a), Distinct(b), ToSet(a) \cap ToSet(b) = {}
  PROVE  /\ a \o b \in Seq(T) /\ Distinct(a \o b) /\ ToSet(a \o b) = ToSet(a) \cup ToSet(b)
         /\ \A f, g \in ToSet(a) : Ahead(a \o b, f, g) <=> Ahead(a, f, g)
         /\ \A f \in ToSet(a), g \in ToSet(b) : Ahead(a \o b, f, g)
<1> DEFINE c == a \o b
<1>1. /\ c \in Seq(T) /\ Len(c) = Len(a) + Len(b) /\ Len(a) \in Nat /\ Len(b) \in Nat
      /\ DOMAIN a = 1 .. Len(a) /\ DOMAIN b = 1 .. Len(b) /\ DOMAIN c = 1 .. Len(c)
  OBVIOUS
<1>2. \A i \in 1 .. Len(a) : c[i] = a[i] /\ i \in 1 .. Len(c)
  OBVIOUS
<1>3. \A j \in 1 .. Len(b) : c[Len(a) + j] = b[j] /\ Len(a) + j \in 1 .. Len(c)
  OBVIOUS
<1> HIDE DEF c
<1>4. ASSUME NEW n \in 1 .. Len(c)
      PROVE  n \in 1 .. Len(a) \/ n - Len(a) \in 1 .. Len(b)
  BY <1>1
<1>5. \A i \in 1 .. Len(a) : c[i] \in ToSet(a)
  BY <1>1, <1>2 DEF ToSet
<1>6. ASSUME NEW n \in 1 .. Len(c), n - Len(a) \in 1 .. Len(b)
      PROVE  c[n] = b[n - Len(a)] /\ c[n] \in ToSet(b)
  <2>1. Len(a) + (n - Len(a)) = n
    BY <1>1
  <2>2. c[n] = b[n - Len(a)]
    BY <1>3, <1>6, <2>1
  <2>3. QED
    BY <1>1, <1>6, <2>2 DEF ToSet
<1>7. ToSet(c) = ToSet(a) \cup ToSet(b)
  <2>1. ToSet(c) \subseteq ToSet(a) \cup ToSet(b)
    BY <1>1, <1>4, <1>5, <1>6 DEF ToSet
  <2>2. ToSet(a) \subseteq ToSet(c)
    BY <1>1, <1>2 DEF ToSet
  <2>3. ToSet(b) \subseteq ToSet(c)
    BY <1>1, <1>3 DEF ToSet
  <2>4. QED
    BY <2>1, <2>2, <2>3
<1>8. ASSUME NEW m \in 1 .. Len(c), NEW n \in 1 .. Len(c), c[m] = c[n]
      PROVE  m = n
  <2>1. CASE m \in 1 .. Len(a) /\ n \in 1 .. Len(a)
    BY <1>1, <1>2, <1>8, <2>1 DEF Distinct
  <2>2. CASE m - Len(a) \in 1 .. Len(b) /\ n - Len(a) \in 1 .. Len(b)
    <3>1. b[m - Len(a)] = b[n - Len(a)]
      BY <1>6, <1>8, <2>2
    <3>2. m - Len(a) = n - Len(a)
      BY <1>1, <2>2, <3>1 DEF Distinct
    <3>3. QED
      BY <1>1, <3>2
  <2>3. CASE m \in 1 .. Len(a) /\ n - Len(a) \in 1 .. Len(b)
    BY <1>5, <1>6, <1>8, <2>3
  <2>4. CASE m - Len(a) \in 1 .. Len(b) /\ n \in 1 .. Len(a)
    BY <1>5, <1>6, <1>8, <2>4
  <2>5. QED
    BY <1>4, <2>1, <2>2, <2>3, <2>4
<1>9. Distinct(c)
  BY <1>1, <1>8 DEF Distinct
<1>10. ASSUME NEW f \in ToSet(a), NEW g \in ToSet(a)
       PROVE  Ahead(c, f, g) <=> Ahead(a, f, g)
  <2>1. ASSUME Ahead(a, f, g) PROVE Ahead(c, f, g)
    BY <1>1, <1>2, <2>1 DEF Ahead
  <2>2. ASSUME Ahead(c, f, g) PROVE Ahead(a, f, g)
    <3>1. PICK m \in 1 .. Len(c), n \in 1 .. Len(c) : m < n /\ c[m] = f /\ c[n] = g
      BY <1>1, <2>2 DEF Ahead
    <3>2. m \in 1 .. Len(a) /\ n \in 1 .. Len(a)
      BY <1>4, <1>6, <3>1
    <3>3. a[m] = f /\ a[n] = g
      BY <1>2, <3>1, <3>2
    <3>4. QED
      BY <1>1, <3>1, <3>2, <3>3 DEF Ahead
  <2>3. QED
    BY <2>1, <2>2
<1>11. ASSUME NEW f \in ToSet(a), NEW g \in ToSet(b)
       PROVE  Ahead(c, f, g)
  <2>1. PICK i \in 1 .. Len(a) : a[i] = f
    BY <1>1 DEF ToSet
  <2>2. PICK j \in 1 .. Len(b) : b[j] = g
    BY <1>1 DEF ToSet
  <2>3. c[i] = f /\ c[Len(a) + j] = g /\ i \in 1 .. Len(c) /\ Len(a) + j \in 1 .. Len(c)
    BY <1>2, <1>3, <2>1, <2>2
  <2>4. i < Len(a) + j
    BY <1>1
  <2>5. QED
    BY <1>1, <2>3, <2>4 DEF Ahead
<1>12. QED
  BY <1>1, <1>7, <1>9, <1>10, <1>11 DEF c

\* The order of a sequence without repetitions is a strict one.
LEMMA AheadOnce ==
  ASSUME NEW T, NEW seq \in Seq(T), Distinct(seq), NEW f, NEW g, Ahead(seq, f, g)
  PROVE  ~Ahead(seq, g, f) /\ f # g /\ f \in ToSet(seq) /\ g \in ToSet(seq)
<1>1. DOMAIN seq = 1 .. Len(seq) /\ Len(seq) \in Nat
  OBVIOUS
<1>2. PICK i \in 1 .. Len(seq), j \in 1 .. Len(seq) : i < j /\ seq[i] = f /\ seq[j] = g
  BY <1>1 DEF Ahead
<1>3. f \in ToSet(seq) /\ g \in ToSet(seq)
  BY <1>1, <1>2 DEF ToSet
<1>4. f # g
  BY <1>1, <1>2 DEF Distinct
<1>5. ASSUME Ahead(seq, g, f) PROVE FALSE
  <2>1. PICK m \in 1 .. Len(seq), n \in 1 .. Len(seq) : m < n /\ seq[m] = g /\ seq[n] = f
    BY <1>1, <1>5 DEF Ahead
  <2>2. m = j /\ n = i
    BY <1>1, <1>2, <2>1 DEF Distinct
  <2>3. QED
    BY <1>2, <2>1, <2>2
<1>6. QED
  BY <1>3, <1>4, <1>5

\* Touch() puts a row behind the others, and leaves the others in their order.
LEMMA Touched ==
  ASSUME NEW T, NEW seq \in Seq(T), Distinct(seq), NEW f \in T
  PROVE  /\ Touch(seq, f) \in Seq(T) /\ Distinct(Touch(seq, f))
         /\ ToSet(Touch(seq, f)) = ToSet(seq) \cup {f}
         /\ \A g, h \in ToSet(seq) \ {f} : Ahead(Touch(seq, f), g, h) <=> Ahead(seq, g, h)
         /\ \A g \in ToSet(seq) \ {f} : Ahead(Touch(seq, f), g, f)
<1> DEFINE rest == RemoveFirst(seq, f)
           one == <<f>>
<1>1. /\ rest \in Seq(T) /\ Distinct(rest) /\ ToSet(rest) = ToSet(seq) \cap (T \ {f})
      /\ \A g, h : g \in T \ {f} /\ h \in T \ {f} => (Ahead(rest, g, h) <=> Ahead(seq, g, h))
  <2>1. rest \in Seq(T) /\ IsPart(rest, seq, T \ {f})
    BY RemoveFirstPart
  <2> HIDE DEF rest
  <2>2. QED
    BY <2>1, PartFacts
<1>2. one \in Seq(T) /\ Distinct(one) /\ ToSet(one) = {f}
  BY DEF Distinct, ToSet
<1>3. ToSet(seq) \subseteq T
  BY DEF ToSet
<1>4. Touch(seq, f) = rest \o one
  <2>1. Touch(seq, f) = Append(rest, f)
    BY DEF Touch
  <2> HIDE DEF rest
  <2>2. QED
    BY <1>1, <2>1
<1>5. ToSet(rest) = ToSet(seq) \ {f}
  BY <1>1, <1>3
<1> HIDE DEF rest, one
<1>6. ToSet(rest) \cap ToSet(one) = {}
  BY <1>2, <1>5
<1>7. /\ rest \o one \in Seq(T) /\ Distinct(rest \o one) /\ ToSet(rest \o one) = ToSet(rest) \cup ToSet(one)
      /\ \A g, h \in ToSet(rest) : Ahead(rest \o one, g, h) <=> Ahead(rest, g, h)
      /\ \A g \in ToSet(rest), h \in ToSet(one) : Ahead(rest \o one, g, h)
  BY <1>1, <1>2, <1>6, Joined
<1>8. QED
  BY <1>1, <1>2, <1>3, <1>4, <1>5, <1>7

\* The rows hidden together get behind the others, and the others stay in their order.
LEMMA Sunk ==
  ASSUME NEW T, NEW seq \in Seq(T), NEW order \in Seq(T), Distinct(seq), Distinct(order),
         ToSet(order) = ToSet(seq), NEW S
  PROVE  LET new == Only(seq, T \ S) \o Only(order, S)
         IN /\ new \in Seq(T) /\ Distinct(new) /\ ToSet(new) = ToSet(seq)
            /\ \A g, h \in ToSet(seq) \ S : Ahead(new, g, h) <=> Ahead(seq, g, h)
<1> DEFINE a == Only(seq, T \ S)
           b == Only(order, S)
<1>1. ToSet(seq) \subseteq T
  BY DEF ToSet
<1>2. /\ a \in Seq(T) /\ Distinct(a) /\ ToSet(a) = ToSet(seq) \cap (T \ S)
      /\ \A g, h : g \in T \ S /\ h \in T \ S => (Ahead(a, g, h) <=> Ahead(seq, g, h))
  BY OnlyPart, PartFacts
<1>3. b \in Seq(T) /\ Distinct(b) /\ ToSet(b) = ToSet(seq) \cap S
  BY OnlyPart, PartFacts
<1> HIDE DEF a, b
<1>4. ToSet(a) \cap ToSet(b) = {} /\ ToSet(a) \cup ToSet(b) = ToSet(seq) /\ ToSet(a) = ToSet(seq) \ S
  BY <1>1, <1>2, <1>3
<1>5. /\ a \o b \in Seq(T) /\ Distinct(a \o b) /\ ToSet(a \o b) = ToSet(a) \cup ToSet(b)
      /\ \A g, h \in ToSet(a) : Ahead(a \o b, g, h) <=> Ahead(a, g, h)
  BY <1>2, <1>3, <1>4, Joined
<1>6. \A g, h \in ToSet(seq) \ S : Ahead(a \o b, g, h) <=> Ahead(seq, g, h)
  BY <1>1, <1>2, <1>4, <1>5
<1>7. QED
  BY <1>4, <1>5, <1>6 DEF a, b
-----------------------------------------------------------------------------
(* The strengthening of TypeOK: rows are never deleted, so whatever a sync or the *)
(* merge tool has once read of a row is still there when it writes.               *)

FilesOK ==
  /\ arrived \in [Files -> Nat] /\ \A f \in Files : arrived[f] <= Len(Arrivals[f])
  /\ data \in [Files -> SUBSET Nat] /\ \A f \in Files : IsFiniteSet(data[f])
OrderOK ==
  /\ ids \in Seq(Files) /\ Distinct(ids)
  /\ recent \in Seq(Files) /\ Distinct(recent) /\ ToSet(recent) = Known
KnownOK ==
  /\ active \subseteq Known /\ missed \subseteq Known
  /\ \A f \in Files : customer[f] # None => f \in Known
  /\ members \subseteq Known \X Known
AccessOK == Distinct(rules) /\ account \in [Users -> Account] /\ grants \subseteq Users \X Known
EventsOK == events \in 0 .. MaxEvents

\* A sync has the files it writes to in its table, but the one it inserts.
Rowed(s, known) ==
  /\ s.at \in {"read", "assign"} \/ (s.at = "write" /\ s.row # "new") => s.file \in known
  /\ s.pass = "apply" => s.todo \subseteq known
SyncRows == \A a \in Syncers : Rowed(sync[a], Known)

\* The merge tool works on pairs of rows.
MergeRows ==
  /\ merge.plan \subseteq Known \X Known /\ merge.todo \subseteq merge.plan
  /\ merge.at = "hide" => merge.file \in Known
  /\ merge.at = "clear" => merge.todo = {}

RowsInv ==
  FilesOK /\ OrderOK /\ KnownOK /\ AccessOK /\ EventsOK /\ SyncRows /\ MergeRows

\* An event is counted.
LEMMA EventCounted ==
  ASSUME EventsOK, Event \/ UNCHANGED events
  PROVE  EventsOK'
BY BoundAssumption DEF EventsOK, Event

\* What does not touch the table, the access rules, the mappings or the files.
LEMMA TableKept ==
  ASSUME RowsInv, UNCHANGED <<rows, members, missed, grants>>
  PROVE  OrderOK' /\ KnownOK' /\ grants' \subseteq Users \X Known' /\ Known' = Known
<1>1. Known' = Known
  BY DEF rows, Known
<1>2. OrderOK'
  BY <1>1 DEF RowsInv, OrderOK, rows
<1>3. KnownOK'
  BY <1>1 DEF RowsInv, KnownOK, rows
<1>4. QED
  BY <1>1, <1>2, <1>3 DEF RowsInv, AccessOK

\* One sync moves, in a table that has not lost a row.
LEMMA SyncMoves ==
  ASSUME RightInv, SyncRows, NEW a \in Syncers, NEW t, Rowed(t, Known'),
         sync' = [sync EXCEPT ![a] = t], Known \subseteq Known'
  PROVE  SyncRows'
<1>1. sync \in [Syncers -> SyncState]
  BY DEF RightInv, RightTypes
<1>2. ASSUME NEW b \in Syncers PROVE Rowed(sync'[b], Known')
  <2>1. CASE b = a
    BY <1>1, <2>1
  <2>2. CASE b # a
    <3>1. sync'[b] = sync[b] /\ Rowed(sync[b], Known)
      BY <1>1, <2>2 DEF SyncRows
    <3>2. QED
      BY <3>1 DEF Rowed
  <2>3. QED
    BY <2>1, <2>2
<1>3. QED
  BY <1>2 DEF SyncRows

\* The merge tool's pairs stay those of rows, if it does not move.
LEMMA MergeStays ==
  ASSUME MergeRows, merge' = merge, Known \subseteq Known'
  PROVE  MergeRows'
BY DEF MergeRows

\* A step of a sync leaves what it does not write as it is.
LEMMA SyncLeaves ==
  ASSUME RowsInv, NEW a \in Syncers, SyncNext(a), OrderOK', KnownOK', SyncRows', Known \subseteq Known'
  PROVE  RowsInv'
<1>1. UNCHANGED <<arrived, data, rules, account, grants, merge>>
  BY DEF SyncNext, files, access
<1>2. Event \/ UNCHANGED events
  BY DEF SyncNext, SyncStep, Discover, LookUp, WriteRow, RowConflict, Decide, Assign, EndPass,
     DeactivateMissing, ListActive, ApplyNext, AssignFails, SyncInterrupted
<1>3. FilesOK' /\ AccessOK'
  BY <1>1 DEF RowsInv, FilesOK, AccessOK
<1>4. EventsOK'
  BY <1>2, EventCounted DEF RowsInv
<1>5. MergeRows'
  BY <1>1, MergeStays DEF RowsInv
<1>6. QED
  BY <1>3, <1>4, <1>5 DEF RowsInv

\* The steps of a sync that only read.
LEMMA SyncReads ==
  ASSUME RightInv, RowsInv, NEW a \in Syncers, NEW t, Rowed(t, Known), SyncNext(a),
         sync' = [sync EXCEPT ![a] = t], UNCHANGED <<rows, members, missed>>
  PROVE  RowsInv'
<1>1. UNCHANGED grants
  BY DEF SyncNext, access
<1>2. OrderOK' /\ KnownOK' /\ Known' = Known
  BY <1>1, TableKept
<1>3. SyncRows'
  BY <1>2, SyncMoves DEF RowsInv
<1>4. QED
  BY <1>2, <1>3, SyncLeaves

\* A sync that has decided on the row of f, or goes on.
LEMMA DecidedRowed ==
  ASSUME NEW s \in SyncState, NEW f \in Files, NEW known, f \in known, s.pass = "apply" => s.todo \subseteq known,
         Decision(f) \in Customers \cup {None}
  PROVE  Rowed(Decided(s, f), known)
<1>1. CASE Decision(f) = None
  <2>1. /\ Decided(s, f).at = "next" /\ Decided(s, f).pass = s.pass
        /\ Decided(s, f).todo = s.todo \ {f}
    BY <1>1, Zenon DEF Decided, NextFile, SyncState
  <2>2. QED
    BY <2>1 DEF Rowed
<1>2. CASE Decision(f) # None
  <2>1. /\ Decided(s, f).at = "assign" /\ Decided(s, f).pass = s.pass
        /\ Decided(s, f).todo = s.todo \ {f} /\ Decided(s, f).file = f
    BY <1>2, Zenon DEF Decided, SyncState
  <2>2. QED
    BY <2>1 DEF Rowed
<1>3. QED
  BY <1>1, <1>2
LEMMA NextFileRowed ==
  ASSUME NEW s \in SyncState, NEW known, s.pass = "apply" => s.todo \subseteq known
  PROVE  Rowed(NextFile(s), known)
<1>1. /\ NextFile(s).at = "next" /\ NextFile(s).pass = s.pass /\ NextFile(s).todo = s.todo
  BY Zenon DEF NextFile, SyncState
<1>2. QED
  BY <1>1 DEF Rowed
LEMMA IdleRowed == \A known : Rowed(Idle, known)
BY DEF Rowed, Idle
-----------------------------------------------------------------------------
(* The steps of a sync keep the rows. *)

\* What the types say of a syncer and of the row it is about to look at.
LEMMA SyncerType ==
  ASSUME RightInv, RowsInv, NEW a \in Syncers
  PROVE  /\ sync[a] \in SyncState /\ Rowed(sync[a], Known) /\ HasFile(sync[a])
         /\ \A f \in Files : Decision(f) \in Customers \cup {None}
<1>1. sync[a] \in SyncState /\ HasFile(sync[a]) /\ Rowed(sync[a], Known)
  BY DEF RightInv, RightTypes, SyncsGiven, RowsInv, SyncRows
<1>2. ASSUME NEW f \in Files PROVE Decision(f) \in Customers \cup {None}
  <2>1. CASE Decision(f) = None
    BY <2>1
  <2>2. CASE Decision(f) # None
    BY <2>2, DecisionGiven DEF RightInv, RightTypes
  <2>3. QED
    BY <2>1, <2>2
<1>3. QED
  BY <1>1, <1>2

LEMMA ReadingSteps ==
  ASSUME RightInv, RowsInv, NEW a \in Syncers, SyncNext(a),
         \/ Discover(a) \/ LookUp(a) \/ RowConflict(a) \/ EndPass(a) \/ ListActive(a) \/ SyncInterrupted(a)
  PROVE  RowsInv'
<1> DEFINE s == sync[a]
<1>1. s \in SyncState /\ Rowed(s, Known) /\ HasFile(s)
  BY SyncerType
<1>2. CASE Discover(a)
  <2>1. PICK unreadable : sync' = [sync EXCEPT ![a] = [Idle EXCEPT
            !.at = "next", !.pass = "upsert",
            !.todo = OnDisk \ unreadable,
            !.found = IF a = "tool" THEN OnDisk \ unreadable ELSE {}]]
    BY <1>2 DEF Discover
  <2> DEFINE t == [Idle EXCEPT !.at = "next", !.pass = "upsert", !.todo = OnDisk \ unreadable,
                     !.found = IF a = "tool" THEN OnDisk \ unreadable ELSE {}]
  <2>2. t.at = "next" /\ t.pass = "upsert"
    BY RestingSyncs, Zenon DEF SyncState
  <2>3. sync' = [sync EXCEPT ![a] = t] /\ UNCHANGED <<rows, members, missed>>
    BY <1>2, <2>1 DEF Discover
  <2> HIDE DEF t
  <2>4. Rowed(t, Known)
    BY <2>2 DEF Rowed
  <2>5. QED
    BY <2>3, <2>4, SyncReads
<1>3. CASE LookUp(a)
  <2> HIDE DEF s
  <2>1. PICK f \in s.todo : /\ sync' = [sync EXCEPT ![a] = LookedUp(s, f)] /\ s.pass = "upsert"
                            /\ UNCHANGED <<rows, members, missed>>
    BY <1>3 DEF LookUp, s
  <2>2. /\ LookedUp(s, f).at = "write" /\ LookedUp(s, f).file = f /\ LookedUp(s, f).pass = s.pass
        /\ LookedUp(s, f).row = Wanted(f)
    BY <1>1, Zenon DEF LookedUp, SyncState
  <2>3. Wanted(f) # "new" => f \in Known
    BY DEF Wanted
  <2>4. Rowed(LookedUp(s, f), Known)
    BY <2>1, <2>2, <2>3 DEF Rowed
  <2>5. QED
    BY <2>1, <2>4, SyncReads
<1>4. CASE RowConflict(a) \/ SyncInterrupted(a)
  <2>1. sync' = [sync EXCEPT ![a] = Idle] /\ UNCHANGED <<rows, members, missed>>
    BY <1>4 DEF RowConflict, SyncInterrupted
  <2>2. QED
    BY <2>1, IdleRowed, SyncReads
<1>5. CASE EndPass(a)
  <2> HIDE DEF s
  <2> DEFINE u == [s EXCEPT !.at = "deactivate"]
             t == IF a = "tool" /\ s.pass = "upsert" THEN u ELSE Idle
  <2>1. sync' = [sync EXCEPT ![a] = t] /\ UNCHANGED <<rows, members, missed>>
    BY <1>5 DEF EndPass, s
  <2>2. u.at = "deactivate" /\ u.pass = s.pass /\ u.todo = s.todo
    BY <1>1 DEF SyncState
  <2> HIDE DEF u
  <2>3. Rowed(t, Known)
    BY <1>1, <2>2, IdleRowed DEF Rowed
  <2> HIDE DEF t
  <2>4. QED
    BY <2>1, <2>3, SyncReads
<1>6. CASE ListActive(a)
  <2> HIDE DEF s
  <2> DEFINE t == [s EXCEPT !.at = "next", !.pass = "apply", !.todo = active]
  <2>1. sync' = [sync EXCEPT ![a] = t] /\ UNCHANGED <<rows, members, missed>>
    BY <1>6 DEF ListActive, s
  <2>2. t.at = "next" /\ t.todo = active
    BY <1>1, Zenon DEF SyncState
  <2>3. active \subseteq Known
    BY DEF RowsInv, KnownOK
  <2> HIDE DEF t
  <2>4. Rowed(t, Known)
    BY <2>2, <2>3 DEF Rowed
  <2>5. QED
    BY <2>1, <2>4, SyncReads
<1>7. QED
  BY <1>2, <1>3, <1>4, <1>5, <1>6

LEMMA DecidingSteps ==
  ASSUME RightInv, RowsInv, NEW a \in Syncers, SyncNext(a), Decide(a) \/ ApplyNext(a) \/ AssignFails(a)
  PROVE  RowsInv'
<1> DEFINE s == sync[a]
<1>1. s \in SyncState /\ Rowed(s, Known) /\ HasFile(s) /\ \A f \in Files : Decision(f) \in Customers \cup {None}
  BY SyncerType
<1>2. CASE Decide(a)
  <2>1. /\ s.at = "read" /\ sync' = [sync EXCEPT ![a] = Decided(s, s.file)]
        /\ UNCHANGED <<rows, members, missed>>
    BY <1>2 DEF Decide
  <2> HIDE DEF s
  <2>2. s.file \in Files /\ s.file \in Known /\ (s.pass = "apply" => s.todo \subseteq Known)
    BY <1>1, <2>1 DEF Rowed, HasFile
  <2>3. Rowed(Decided(s, s.file), Known)
    BY <1>1, <2>2, DecidedRowed
  <2>4. QED
    BY <2>1, <2>3, SyncReads
<1>3. CASE ApplyNext(a)
  <2>1. PICK f \in s.todo : /\ sync' = [sync EXCEPT ![a] = Decided(s, f)] /\ s.pass = "apply"
                            /\ UNCHANGED <<rows, members, missed>>
    BY <1>3 DEF ApplyNext
  <2> HIDE DEF s
  <2>2. f \in Files /\ f \in Known /\ s.todo \subseteq Known
    BY <1>1, <2>1 DEF Rowed, SyncState
  <2>3. Rowed(Decided(s, f), Known)
    BY <1>1, <2>2, DecidedRowed
  <2>4. QED
    BY <2>1, <2>3, SyncReads
<1>4. CASE AssignFails(a)
  <2>1. sync' = [sync EXCEPT ![a] = NextFile(s)] /\ UNCHANGED <<rows, members, missed>>
    BY <1>4 DEF AssignFails
  <2> HIDE DEF s
  <2>2. s.pass = "apply" => s.todo \subseteq Known
    BY <1>1 DEF Rowed
  <2>3. Rowed(NextFile(s), Known)
    BY <1>1, <2>2, NextFileRowed
  <2>4. QED
    BY <2>1, <2>3, SyncReads
<1>5. QED
  BY <1>2, <1>3, <1>4

\* An insertion numbers one more row, an update none.
LEMMA WrittenIds ==
  ASSUME OrderOK, NEW f \in Files, NEW new \in BOOLEAN, new => f \notin Known, ~new => f \in Known,
         ids' = IF new THEN Append(ids, f) ELSE ids
  PROVE  ids' \in Seq(Files) /\ Distinct(ids)' /\ Known' = Known \cup {f}
<1>1. ids \in Seq(Files) /\ Distinct(ids)
  BY DEF OrderOK
<1>2. CASE new
  <2> DEFINE one == <<f>>
  <2>1. one \in Seq(Files) /\ Distinct(one) /\ ToSet(one) = {f}
    BY DEF Distinct, ToSet
  <2>2. ids' = ids \o one
    BY <1>1, <1>2
  <2> HIDE DEF one
  <2>3. ToSet(ids) \cap ToSet(one) = {}
    BY <1>2, <2>1 DEF Known
  <2>4. ids \o one \in Seq(Files) /\ Distinct(ids \o one) /\ ToSet(ids \o one) = ToSet(ids) \cup ToSet(one)
    BY <1>1, <2>1, <2>3, Joined
  <2>5. QED
    BY <2>1, <2>2, <2>4 DEF Known, Distinct
<1>3. CASE ~new
  BY <1>1, <1>3 DEF Known, Distinct
<1>4. QED
  BY <1>2, <1>3

\* A row is touched: the order of updated_at is again one of the rows.
LEMMA TouchedOrder ==
  ASSUME OrderOK, NEW f \in Files, ids' \in Seq(Files), Distinct(ids)', Known' = Known \cup {f},
         recent' = Touch(recent, f)
  PROVE  OrderOK'
<1>1. recent \in Seq(Files) /\ Distinct(recent) /\ ToSet(recent) = Known
  BY DEF OrderOK
<1>2. /\ Touch(recent, f) \in Seq(Files) /\ Distinct(Touch(recent, f))
      /\ ToSet(Touch(recent, f)) = ToSet(recent) \cup {f}
  BY <1>1, Touched
<1>3. Distinct(recent') /\ ToSet(recent') = Known'
  BY <1>1, <1>2
<1>4. QED
  BY <1>2, <1>3 DEF OrderOK, Distinct

LEMMA WritingStep ==
  ASSUME RightInv, RowsInv, NEW a \in Syncers, SyncNext(a), WriteRow(a)
  PROVE  RowsInv'
<1> DEFINE s == sync[a]
           f == s.file
           t == [s EXCEPT !.at = "read", !.row = "none"]
<1>1. s \in SyncState /\ Rowed(s, Known) /\ HasFile(s)
  BY SyncerType
<1>2. /\ s.at = "write" /\ (s.row = "new" => f \notin Known)
      /\ ids' = IF s.row = "new" THEN Append(ids, f) ELSE ids
      /\ active' \subseteq active \cup {f} /\ missed' = missed \ {f} /\ recent' = Touch(recent, f)
      /\ sync' = [sync EXCEPT ![a] = t] /\ UNCHANGED <<customer, members>>
  BY DEF WriteRow
<1>3. t.at = "read" /\ t.file = f /\ t.pass = s.pass /\ t.todo = s.todo
  BY <1>1, Zenon DEF SyncState
<1> HIDE DEF s, t
<1>4. f \in Files /\ (s.row # "new" => f \in Known)
  BY <1>1, <1>2 DEF HasFile, Rowed
<1> HIDE DEF f
<1>5. OrderOK /\ KnownOK /\ SyncRows
  BY DEF RowsInv
<1>6. ids' \in Seq(Files) /\ Distinct(ids)' /\ Known' = Known \cup {f}
  <2> DEFINE new == s.row = "new"
  <2>1. new \in BOOLEAN /\ (new => f \notin Known) /\ (~new => f \in Known)
        /\ ids' = IF new THEN Append(ids, f) ELSE ids
    BY <1>2, <1>4
  <2> HIDE DEF new
  <2>2. QED
    BY <1>4, <1>5, <2>1, WrittenIds
<1>7. OrderOK'
  BY <1>2, <1>4, <1>5, <1>6, TouchedOrder
<1>8. KnownOK'
  BY <1>2, <1>5, <1>6 DEF KnownOK
<1>9. Rowed(t, Known')
  BY <1>1, <1>3, <1>6 DEF Rowed
<1>10. SyncRows'
  BY <1>2, <1>5, <1>6, <1>9, SyncMoves
<1>11. QED
  BY <1>6, <1>7, <1>8, <1>10, SyncLeaves

LEMMA AssigningStep ==
  ASSUME RightInv, RowsInv, NEW a \in Syncers, SyncNext(a), Assign(a)
  PROVE  RowsInv'
<1> DEFINE s == sync[a]
           f == s.file
<1>1. s \in SyncState /\ Rowed(s, Known) /\ HasFile(s)
  BY SyncerType
<1>2. /\ s.at = "assign" /\ customer' = [customer EXCEPT ![f] = s.value]
      /\ recent' = Touch(recent, f) /\ sync' = [sync EXCEPT ![a] = NextFile(s)]
      /\ UNCHANGED <<ids, active, members, missed>>
  BY DEF Assign
<1> HIDE DEF s
<1>3. f \in Files /\ f \in Known /\ (s.pass = "apply" => s.todo \subseteq Known)
  BY <1>1, <1>2 DEF HasFile, Rowed
<1> HIDE DEF f
<1>4. OrderOK /\ KnownOK /\ SyncRows
  BY DEF RowsInv
<1>5. Known' = Known /\ Known' = Known \cup {f} /\ ids' \in Seq(Files) /\ Distinct(ids)'
  BY <1>2, <1>3, <1>4 DEF OrderOK, Known, Distinct
<1>6. OrderOK'
  BY <1>2, <1>3, <1>4, <1>5, TouchedOrder
<1>7. KnownOK'
  <2>1. customer \in [Files -> Customers \cup {None}]
    BY DEF RightInv, RightTypes
  <2>2. \A g \in Files : customer'[g] # None => g \in Known
    BY <1>2, <1>3, <1>4, <2>1 DEF KnownOK
  <2>3. QED
    BY <1>2, <1>4, <1>5, <2>2 DEF KnownOK
<1>8. Rowed(NextFile(s), Known')
  BY <1>1, <1>3, <1>5, NextFileRowed
<1>9. SyncRows'
  BY <1>2, <1>4, <1>5, <1>8, SyncMoves
<1>10. QED
  BY <1>5, <1>6, <1>7, <1>9, SyncLeaves

LEMMA HidingStep ==
  ASSUME RightInv, RowsInv, SyncNext("tool"), DeactivateMissing
  PROVE  RowsInv'
<1> DEFINE missing == active \ sync["tool"].found
           t == [Idle EXCEPT !.at = "list"]
<1>1. /\ active' = active \ missing /\ recent' = Only(recent, Files \ missing) \o Only(ids, missing)
      /\ missed' = missed \cup missing /\ sync' = [sync EXCEPT !["tool"] = t]
      /\ UNCHANGED <<ids, customer, members>>
  BY DEF DeactivateMissing
<1>2. t.at = "list" /\ t.pass = "none"
  BY RestingSyncs DEF SyncState, Idle
<1> HIDE DEF missing, t
<1>3. OrderOK /\ KnownOK /\ SyncRows
  BY DEF RowsInv
<1>4. Known' = Known
  BY <1>1 DEF Known
<1>5. OrderOK'
  <2>1. /\ recent \in Seq(Files) /\ ids \in Seq(Files) /\ Distinct(recent) /\ Distinct(ids)
        /\ ToSet(ids) = ToSet(recent) /\ ToSet(recent) = Known
    BY <1>3 DEF OrderOK, Known
  <2>2. recent' \in Seq(Files) /\ Distinct(recent') /\ ToSet(recent') = ToSet(recent)
    BY <1>1, <2>1, Sunk
  <2>3. QED
    BY <1>1, <1>4, <2>1, <2>2 DEF OrderOK, Distinct
<1>6. missing \subseteq Known
  BY <1>3 DEF KnownOK, missing
<1>7. KnownOK'
  BY <1>1, <1>3, <1>4, <1>6 DEF KnownOK
<1>8. Rowed(t, Known') /\ "tool" \in Syncers
  BY <1>2 DEF Rowed, Syncers
<1>9. SyncRows'
  BY <1>1, <1>3, <1>4, <1>8, SyncMoves
<1>10. QED
  BY <1>4, <1>5, <1>7, <1>8, <1>9, SyncLeaves

LEMMA SyncKeepsRows ==
  ASSUME RightInv, RowsInv, NEW a \in Syncers, SyncNext(a)
  PROVE  RowsInv'
<1>1. CASE WriteRow(a)
  BY <1>1, WritingStep
<1>2. CASE Assign(a)
  BY <1>2, AssigningStep
<1>3. CASE a = "tool" /\ DeactivateMissing
  BY <1>3, HidingStep
<1>4. QED
  BY <1>1, <1>2, <1>3, ReadingSteps, DecidingSteps DEF SyncNext, SyncStep
-----------------------------------------------------------------------------
(* The merge tool, the forms and the receiver keep the rows. *)

\* A step of the merge tool leaves the rest as it is.
LEMMA MergeLeaves ==
  ASSUME RowsInv, MergeNext, OrderOK', KnownOK', MergeRows', Known' = Known
  PROVE  RowsInv'
<1>1. UNCHANGED <<arrived, data, rules, account, grants, sync>>
  BY DEF MergeNext, files, access
<1>2. Event \/ UNCHANGED events
  BY DEF MergeNext, PlanMerges, AddMember, HideMember, StartUndo, ShowMember, ClearMembers, MergeInterrupted
<1>3. FilesOK' /\ AccessOK' /\ SyncRows'
  BY <1>1 DEF RowsInv, FilesOK, AccessOK, SyncRows
<1>4. EventsOK'
  BY <1>2, EventCounted DEF RowsInv
<1>5. QED
  BY <1>3, <1>4 DEF RowsInv

\* A step of it that changes no row, but the mappings.
LEMMA MergeMaps ==
  ASSUME RowsInv, MergeNext, UNCHANGED <<rows, missed>>, members' \subseteq Known \X Known, MergeRows'
  PROVE  RowsInv'
<1>1. Known' = Known
  BY DEF rows, Known
<1>2. OrderOK'
  BY <1>1 DEF RowsInv, OrderOK, rows
<1>3. KnownOK'
  BY <1>1 DEF RowsInv, KnownOK, rows
<1>4. QED
  BY <1>1, <1>2, <1>3, MergeLeaves

\* A step of it that shows or hides a row.
LEMMA MergeShows ==
  ASSUME RightInv, RowsInv, MergeNext, NEW f \in Known, active' \subseteq active \cup {f}, missed' \subseteq missed,
         recent' = Touch(recent, f), UNCHANGED <<ids, customer, members>>, MergeRows'
  PROVE  RowsInv'
<1>1. OrderOK /\ KnownOK
  BY DEF RowsInv
<1>2. f \in Files
  BY <1>1 DEF OrderOK, Known, ToSet
<1>3. Known' = Known /\ Known' = Known \cup {f} /\ ids' \in Seq(Files) /\ Distinct(ids)'
  BY <1>1 DEF OrderOK, Known, Distinct
<1>4. OrderOK'
  BY <1>1, <1>2, <1>3, TouchedOrder
<1>5. KnownOK'
  BY <1>1, <1>3 DEF KnownOK
<1>6. QED
  BY <1>3, <1>4, <1>5, MergeLeaves

LEMMA MergeKeepsRows ==
  ASSUME RightInv, RowsInv, MergeNext
  PROVE  RowsInv'
<1>1. /\ merge \in MergeState /\ merge.plan \subseteq Known \X Known /\ merge.todo \subseteq merge.plan
      /\ members \subseteq Known \X Known /\ active \subseteq Known
  BY DEF RightInv, RightTypes, RowsInv, MergeRows, KnownOK
<1>2. ASSUME UNCHANGED ids PROVE Known' = Known
  BY <1>2 DEF Known
<1>3. ASSUME NEW pair \in merge.todo PROVE pair \in Known \X Known /\ pair[2] \in Known
  BY <1>1
<1>4. CASE PlanMerges
  <2> DEFINE t == [Resting EXCEPT !.at = "add", !.plan = MergePlan, !.todo = MergePlan]
  <2>1. t.at = "add" /\ t.plan = MergePlan /\ t.todo = MergePlan
    BY RestingMerge, Zenon DEF MergeState
  <2>2. merge' = t /\ UNCHANGED <<rows, members, missed>>
    BY <1>4 DEF PlanMerges
  <2>3. MergePlan \subseteq Known \X Known
    BY <1>1 DEF MergePlan
  <2> HIDE DEF t
  <2>4. MergeRows'
    BY <1>2, <2>1, <2>2, <2>3 DEF MergeRows, rows
  <2>5. QED
    BY <1>1, <2>2, <2>4, MergeMaps
<1>5. CASE AddMember
  <2>1. PICK pair \in merge.todo :
          /\ members' = members \cup {pair}
          /\ merge' = [merge EXCEPT !.at = "hide", !.todo = @ \ {pair}, !.file = pair[2]]
    BY <1>5, Zenon DEF AddMember
  <2> DEFINE t == [merge EXCEPT !.at = "hide", !.todo = @ \ {pair}, !.file = pair[2]]
  <2>2. t.at = "hide" /\ t.plan = merge.plan /\ t.todo = merge.todo \ {pair} /\ t.file = pair[2]
    BY <1>1, Zenon DEF MergeState
  <2>3. merge' = t /\ UNCHANGED <<rows, missed>>
    BY <1>5, <2>1 DEF AddMember
  <2> HIDE DEF t
  <2>4. MergeRows'
    BY <1>1, <1>2, <1>3, <2>2, <2>3 DEF MergeRows, rows
  <2>5. members' \subseteq Known \X Known
    BY <1>1, <1>3, <2>1
  <2>6. QED
    BY <2>3, <2>4, <2>5, MergeMaps
<1>6. CASE HideMember
  <2> DEFINE f == merge.file
             t == [merge EXCEPT !.at = "add"]
  <2>1. /\ merge.at = "hide" /\ active' = active \ {f} /\ recent' = Touch(recent, f)
        /\ merge' = IF merge.todo = {} THEN Resting ELSE t
        /\ UNCHANGED <<ids, customer, members, missed>>
    BY <1>6 DEF HideMember
  <2>2. t.at = "add" /\ t.plan = merge.plan /\ t.todo = merge.todo
    BY <1>1 DEF MergeState
  <2>3. f \in Known
    BY <2>1 DEF RowsInv, MergeRows
  <2> HIDE DEF f, t
  <2>4. MergeRows'
    <3>1. CASE merge' = Resting
      BY <3>1 DEF MergeRows, Resting
    <3>2. CASE merge' = t
      BY <1>1, <1>2, <2>1, <2>2, <3>2 DEF MergeRows
    <3>3. QED
      BY <2>1, <3>1, <3>2
  <2>5. QED
    BY <2>1, <2>3, <2>4, MergeShows
<1>7. CASE StartUndo
  <2> DEFINE t == [Resting EXCEPT !.at = "show", !.plan = members, !.todo = members]
  <2>1. t.at = "show" /\ t.plan = members /\ t.todo = members
    BY RestingMerge, Zenon DEF MergeState
  <2>2. merge' = t /\ UNCHANGED <<rows, members, missed>>
    BY <1>7 DEF StartUndo
  <2> HIDE DEF t
  <2>3. MergeRows'
    BY <1>1, <1>2, <2>1, <2>2 DEF MergeRows, rows
  <2>4. QED
    BY <1>1, <2>2, <2>3, MergeMaps
<1>8. CASE ShowMember
  <2>1. PICK pair \in merge.todo :
          /\ merge.at = "show" /\ active' = active \cup {pair[2]} /\ recent' = Touch(recent, pair[2])
          /\ missed' = missed \ {pair[2]}
          /\ merge' = [merge EXCEPT !.todo = @ \ {pair}, !.at = IF merge.todo = {pair} THEN "clear" ELSE @]
    BY <1>8, Zenon DEF ShowMember
  <2> DEFINE at == IF merge.todo = {pair} THEN "clear" ELSE merge.at
             t == [merge EXCEPT !.todo = @ \ {pair}, !.at = at]
  <2>2. merge' = t /\ UNCHANGED <<ids, customer, members>>
    BY <1>8, <2>1 DEF ShowMember
  <2>3. at # "hide" /\ (at = "clear" => merge.todo = {pair})
    BY <2>1
  <2> HIDE DEF at
  <2>4. t.at = at /\ t.plan = merge.plan /\ t.todo = merge.todo \ {pair}
    BY <1>1, Zenon DEF MergeState
  <2> HIDE DEF t
  <2>5. MergeRows'
    BY <1>1, <1>2, <2>2, <2>3, <2>4 DEF MergeRows
  <2>6. pair[2] \in Known
    BY <1>3
  <2>7. QED
    BY <2>1, <2>2, <2>5, <2>6, MergeShows
<1>9. CASE ClearMembers
  <2>1. PICK primary \in {pair[1] : pair \in merge.plan} :
          LET left == {pair \in merge.plan : pair[1] # primary}
          IN /\ merge.at = "clear" /\ members' = {pair \in members : pair[1] # primary}
             /\ merge' = IF left = {} THEN Resting ELSE [merge EXCEPT !.plan = left]
    BY <1>9, Zenon DEF ClearMembers
  <2> DEFINE left == {pair \in merge.plan : pair[1] # primary}
             t == [merge EXCEPT !.plan = left]
  <2>2. /\ members' \subseteq members /\ left \subseteq merge.plan /\ merge.at = "clear"
        /\ merge' = IF left = {} THEN Resting ELSE t
        /\ UNCHANGED <<rows, missed>>
    BY <1>9, <2>1 DEF ClearMembers
  <2> HIDE DEF left
  <2>3. t.at = merge.at /\ t.plan = left /\ t.todo = merge.todo
    BY <1>1 DEF MergeState
  <2> HIDE DEF t
  <2>4. merge.todo = {}
    BY <2>2 DEF RowsInv, MergeRows
  <2>5. MergeRows'
    <3>1. CASE merge' = Resting
      BY <3>1 DEF MergeRows, Resting
    <3>2. CASE merge' = t
      BY <1>1, <1>2, <2>2, <2>3, <2>4, <3>2 DEF MergeRows, rows
    <3>3. QED
      BY <2>2, <3>1, <3>2
  <2>6. QED
    BY <1>1, <2>2, <2>5, MergeMaps
<1>10. CASE MergeInterrupted
  <2>1. merge' = Resting /\ UNCHANGED <<rows, members, missed>>
    BY <1>10 DEF MergeInterrupted
  <2>2. MergeRows'
    BY <2>1 DEF MergeRows, Resting
  <2>3. QED
    BY <1>1, <2>1, <2>2, MergeMaps
<1>11. QED
  BY <1>4, <1>5, <1>6, <1>7, <1>8, <1>9, <1>10 DEF MergeNext

\* A form leaves the rest as it is.
LEMMA AdminLeaves ==
  ASSUME RowsInv, AdminNext, OrderOK', KnownOK', AccessOK', SyncRows', Known' = Known
  PROVE  RowsInv'
<1>1. UNCHANGED <<arrived, data, merge>> /\ Event
  BY DEF AdminNext, files
<1>2. FilesOK' /\ MergeRows'
  BY <1>1, MergeStays DEF RowsInv, FilesOK
<1>3. EventsOK'
  BY <1>1, EventCounted DEF RowsInv
<1>4. QED
  BY <1>2, <1>3 DEF RowsInv

\* A form that does not touch the table of devices.
LEMMA AdminElsewhere ==
  ASSUME RowsInv, AdminNext, UNCHANGED <<rows, members, missed>>, AccessOK', SyncRows'
  PROVE  RowsInv'
<1>1. Known' = Known
  BY DEF rows, Known
<1>2. OrderOK' /\ KnownOK'
  BY <1>1 DEF RowsInv, OrderOK, KnownOK, rows
<1>3. QED
  BY <1>1, <1>2, AdminLeaves

LEMMA AdminKeepsRows ==
  ASSUME RightInv, RowsInv, AdminNext
  PROVE  RowsInv'
<1>1. UNCHANGED <<members, missed>>
  BY DEF AdminNext
<1>2. /\ rules \in Seq(RuleSet) /\ Distinct(rules) /\ account \in [Users -> Account]
      /\ grants \subseteq Users \X Known /\ SyncRows
  BY DEF RightInv, RightTypes, RowsInv, AccessOK
<1>3. ASSUME UNCHANGED rows PROVE Known' = Known
  BY <1>3 DEF rows, Known
<1>4. ASSUME UNCHANGED rows, UNCHANGED sync PROVE SyncRows'
  BY <1>2, <1>3, <1>4 DEF SyncRows
<1>5. ASSUME NEW r \in RuleSet, SaveRule(r) PROVE RowsInv'
  <2> DEFINE t == [Idle EXCEPT !.at = "list"]
  <2>1. /\ rules' = Append(RemoveFirst(rules, r), r) /\ sync' = [sync EXCEPT !["rules"] = t]
        /\ UNCHANGED <<rows, account, grants>>
    BY <1>5 DEF SaveRule
  <2>2. rules' = Touch(rules, r)
    BY <2>1 DEF Touch
  <2>3. Distinct(rules')
    BY <1>2, <2>2, Touched
  <2>4. AccessOK'
    BY <1>2, <1>3, <2>1, <2>3 DEF AccessOK, Distinct
  <2>5. t.at = "list" /\ t.pass = "none"
    BY RestingSyncs DEF SyncState, Idle
  <2> HIDE DEF t
  <2>6. Rowed(t, Known') /\ "rules" \in Syncers
    BY <2>5 DEF Rowed, Syncers
  <2>7. SyncRows'
    BY <1>2, <1>3, <2>1, <2>6, SyncMoves
  <2>8. QED
    BY <1>1, <2>1, <2>4, <2>7, AdminElsewhere
<1>6. ASSUME NEW r \in RuleSet, DeleteRule(r) PROVE RowsInv'
  <2>1. rules' = RemoveFirst(rules, r) /\ UNCHANGED <<rows, sync, account, grants>>
    BY <1>6 DEF DeleteRule
  <2>2. RemoveFirst(rules, r) \in Seq(RuleSet) /\ IsPart(RemoveFirst(rules, r), rules, RuleSet \ {r})
    BY <1>2, RemoveFirstPart
  <2>3. Distinct(RemoveFirst(rules, r))
    BY <1>2, <2>2, PartFacts
  <2>4. AccessOK'
    BY <1>2, <1>3, <2>1, <2>3 DEF AccessOK, Distinct
  <2>5. QED
    BY <1>1, <1>4, <2>1, <2>4, AdminElsewhere
<1>7. ASSUME NEW f \in active, NEW c \in Customers \cup {None}, EditDevice(f, c) PROVE RowsInv'
  <2>1. /\ customer' = [customer EXCEPT ![f] = c] /\ recent' = Touch(recent, f)
        /\ UNCHANGED <<ids, active, rules, account, grants, sync>>
    BY <1>7 DEF EditDevice
  <2>2. OrderOK /\ KnownOK /\ f \in Known /\ f \in Files
    <3>1. OrderOK /\ KnownOK
      BY DEF RowsInv
    <3>2. f \in Known
      BY <3>1 DEF KnownOK
    <3>3. f \in Files
      BY DEF RightInv, RightTypes
    <3>4. QED
      BY <3>1, <3>2, <3>3
  <2>3. Known' = Known /\ Known' = Known \cup {f} /\ ids' \in Seq(Files) /\ Distinct(ids)'
    BY <2>1, <2>2 DEF OrderOK, Known, Distinct
  <2>4. OrderOK'
    BY <2>1, <2>2, <2>3, TouchedOrder
  <2>5. KnownOK'
    <3>1. customer \in [Files -> Customers \cup {None}]
      BY DEF RightInv, RightTypes
    <3>2. \A g \in Files : customer'[g] # None => g \in Known
      BY <2>1, <2>2, <3>1 DEF KnownOK
    <3>3. QED
      BY <1>1, <2>1, <2>2, <2>3, <3>2 DEF KnownOK
  <2>6. AccessOK' /\ SyncRows'
    BY <1>2, <2>1, <2>3 DEF AccessOK, SyncRows, Distinct
  <2>7. QED
    BY <2>3, <2>4, <2>5, <2>6, AdminLeaves
<1>8. ASSUME NEW u \in Users, NEW a \in Account, SaveUser(u, a) PROVE RowsInv'
  <2>1. account' = [account EXCEPT ![u] = a] /\ UNCHANGED <<rows, rules, grants, sync>>
    BY <1>8 DEF SaveUser
  <2>2. AccessOK'
    BY <1>2, <1>3, <2>1 DEF AccessOK, Distinct
  <2>3. QED
    BY <1>1, <1>4, <2>1, <2>2, AdminElsewhere
<1>9. ASSUME NEW u \in Users, NEW c \in Customers \cup {None}, AssignUser(u, c) PROVE RowsInv'
  <2>1. [account[u] EXCEPT !.customer = c] \in Account
    BY <1>2 DEF Account
  <2>2. QED
    BY <1>8, <1>9, <2>1 DEF AssignUser
<1>10. ASSUME NEW u \in Users, NEW f \in Known, NEW granted \in BOOLEAN, SetGrant(u, f, granted) PROVE RowsInv'
  <2>1. grants' \subseteq grants \cup {<<u, f>>} /\ UNCHANGED <<rows, rules, account, sync>>
    BY <1>10 DEF SetGrant
  <2>2. AccessOK'
    BY <1>2, <1>3, <2>1 DEF AccessOK, Distinct
  <2>3. QED
    BY <1>1, <1>4, <2>1, <2>2, AdminElsewhere
<1>11. Forms \subseteq Account
  BY FormsAssumption
<1>12. QED
  BY <1>5, <1>6, <1>7, <1>8, <1>9, <1>10, <1>11 DEF AdminNext

\* Records arrive one by one, and a file that is moved away leaves none.
LEMMA FilesKeepRows ==
  ASSUME RightInv, RowsInv, FilesNext
  PROVE  RowsInv'
<1>1. UNCHANGED <<rows, access, members, sync, merge, missed>>
  BY DEF FilesNext
<1>2. Known' = Known /\ UNCHANGED <<ids, recent, active, customer, rules, account, grants>>
  BY <1>1 DEF rows, Known, access
<1>3. OrderOK' /\ KnownOK' /\ AccessOK' /\ SyncRows' /\ MergeRows'
  BY <1>1, <1>2 DEF RowsInv, OrderOK, KnownOK, AccessOK, SyncRows, MergeRows
<1>4. /\ arrived \in [Files -> Nat] /\ \A f \in Files : arrived[f] <= Len(Arrivals[f])
      /\ data \in [Files -> SUBSET Nat] /\ \A f \in Files : IsFiniteSet(data[f])
  BY DEF RowsInv, FilesOK
<1>5. PICK f \in Files : Arrive(f) \/ MoveAway(f)
  BY DEF FilesNext
<1>6. EventsOK'
  BY <1>5, EventCounted DEF RowsInv, Arrive, MoveAway
<1>7. FilesOK'
  <2>1. CASE Arrive(f)
    <3> DEFINE n == arrived[f] + 1
               new == data[f] \cup {Arrivals[f][n]}
    <3>1. arrived' = [arrived EXCEPT ![f] = n] /\ arrived[f] < Len(Arrivals[f])
      BY <2>1 DEF Arrive
    <3>2. arrived'[f] = n /\ data' = [data EXCEPT ![f] = @ \cup {Arrivals[f][arrived'[f]]}]
      BY <1>4, <2>1, <3>1 DEF Arrive
    <3>3. Arrivals[f] \in Seq(Nat)
      BY FilesAssumption
    <3>4. n \in Nat /\ n \in 1 .. Len(Arrivals[f]) /\ n <= Len(Arrivals[f])
      BY <1>4, <3>1, <3>3
    <3>5. data' = [data EXCEPT ![f] = new]
      BY <3>2
    <3>6. new \in SUBSET Nat /\ IsFiniteSet(new)
      <4>1. data[f] \in SUBSET Nat /\ IsFiniteSet(data[f])
        BY <1>4
      <4>2. Arrivals[f][n] \in Nat
        <5> HIDE DEF n
        <5>1. QED
          BY <3>3, <3>4
      <4>3. IsFiniteSet(new)
        BY <4>1, FS_AddElement
      <4>4. QED
        BY <4>1, <4>2, <4>3
    <3> HIDE DEF n, new
    <3>7. arrived' \in [Files -> Nat] /\ \A g \in Files : arrived'[g] <= Len(Arrivals[g])
      BY <1>4, <3>1, <3>4
    <3>8. data' \in [Files -> SUBSET Nat] /\ \A g \in Files : IsFiniteSet(data'[g])
      BY <1>4, <3>5, <3>6
    <3>9. QED
      BY <3>7, <3>8 DEF FilesOK
  <2>2. CASE MoveAway(f)
    <3>1. data' = [data EXCEPT ![f] = {}] /\ UNCHANGED arrived
      BY <2>2 DEF MoveAway
    <3>2. IsFiniteSet({}) /\ {} \in SUBSET Nat
      BY FS_EmptySet
    <3>3. QED
      BY <1>4, <3>1, <3>2 DEF FilesOK
  <2>3. QED
    BY <1>5, <2>1, <2>2
<1>8. QED
  BY <1>3, <1>6, <1>7 DEF RowsInv

LEMMA RowsInit == Init => RowsInv
<1> SUFFICES ASSUME Init PROVE RowsInv
  OBVIOUS
<1>1. ids = << >> /\ recent = << >> /\ rules = << >> /\ Known = {} /\ ToSet(recent) = {}
  BY DEF Init, Known, ToSet
<1>2. OrderOK /\ KnownOK
  BY <1>1 DEF Init, OrderOK, KnownOK, Distinct
<1>3. AccessOK
  BY <1>1 DEF Init, AccessOK, Account, Distinct
<1>4. EventsOK
  BY BoundAssumption DEF Init, EventsOK
<1>5. SyncRows
  BY IdleRowed DEF Init, SyncRows
<1>6. MergeRows
  BY DEF Init, MergeRows, Resting
<1>7. FilesOK
  <2>1. arrived \in [Files -> Nat] /\ \A f \in Files : arrived[f] <= Len(Arrivals[f])
    BY FilesAssumption DEF Init
  <2>2. ASSUME NEW f \in Files
        PROVE  data[f] \in SUBSET Nat /\ IsFiniteSet(data[f])
    <3> DEFINE n == arrived[f]
               map == [i \in 1 .. n |-> Arrivals[f][i]]
    <3>1. data[f] = {Arrivals[f][i] : i \in 1 .. n}
      BY DEF Init
    <3>2. Arrivals[f] \in Seq(Nat) /\ n \in Nat /\ n <= Len(Arrivals[f])
      BY <2>1, FilesAssumption
    <3>3. data[f] \in SUBSET Nat
      BY <3>1, <3>2
    <3>4. map \in Surjection(1 .. n, data[f])
      BY <3>1 DEF Surjection
    <3>5. IsFiniteSet(1 .. n)
      BY <3>2, FS_Interval
    <3> HIDE DEF map, n
    <3>6. IsFiniteSet(data[f])
      BY <3>4, <3>5, FS_Surjection
    <3>7. QED
      BY <3>3, <3>6
  <2>3. data = [f \in Files |-> data[f]]
    BY DEF Init
  <2>4. data \in [Files -> SUBSET Nat]
    BY <2>2, <2>3
  <2>5. QED
    BY <2>1, <2>2, <2>4 DEF FilesOK
<1>8. QED
  BY <1>2, <1>3, <1>4, <1>5, <1>6, <1>7 DEF RowsInv

LEMMA RowsNext == RightInv /\ RowsInv /\ [Next]_vars => RowsInv'
<1> SUFFICES ASSUME RightInv, RowsInv, [Next]_vars PROVE RowsInv'
  OBVIOUS
<1>1. CASE UNCHANGED vars
  BY <1>1 DEF vars, files, rows, access, RowsInv, FilesOK, OrderOK, KnownOK, AccessOK, EventsOK,
     SyncRows, MergeRows, Known, Distinct
<1>2. QED
  BY <1>1, SyncKeepsRows, MergeKeepsRows, AdminKeepsRows, FilesKeepRows DEF Next

\* Each file has one row, numbered and dated once, whatever syncs insert side by side:
\* nothing but rows is shown, merged, granted or assigned, and a rule is listed once.
THEOREM TypeCorrect == Spec => []TypeOK
<1>1. RightInv /\ RowsInv => TypeOK
  <2> SUFFICES ASSUME RightInv, RowsInv PROVE TypeOK
    OBVIOUS
  <2>1. /\ ids \in Seq(Files) /\ Distinct(ids) /\ recent \in Seq(Files) /\ Distinct(recent)
        /\ ToSet(recent) = Known /\ rules \in Seq(RuleSet) /\ Distinct(rules)
    BY DEF RightInv, RightTypes, RowsInv, OrderOK, AccessOK
  <2>2. Len(ids) = Cardinality(Known) /\ Len(recent) = Cardinality(Known)
    BY <2>1, DistinctCounts DEF Known
  <2>3. Len(rules) = Cardinality(ToSet(rules))
    BY <2>1, DistinctCounts
  <2>4. Known \subseteq Files /\ ToSet(rules) \subseteq RuleSet
    BY <2>1 DEF Known, ToSet
  <2>5. customer \in [Files -> Customers \cup {None}]
    BY DEF RightInv, RightTypes
  <2>6. QED
    BY <2>1, <2>2, <2>3, <2>4, <2>5 DEF RowsInv, FilesOK, KnownOK, AccessOK, EventsOK, TypeOK
<1>2. QED
  BY <1>1, RightInit, RightNext, RowsInit, RowsNext, PTL DEF Spec
-----------------------------------------------------------------------------
(* What the merge tool plans. *)

\* The rows of a plan are those of the table, whose ids differ.
LEMMA IdsDiffer ==
  ASSUME OrderOK
  PROVE  /\ \A f \in Known : IdOf(f) \in Nat
         /\ \A f, g \in Known : IdOf(f) = IdOf(g) => f = g
<1>1. ASSUME NEW f \in Known PROVE IdOf(f) \in DOMAIN ids /\ ids[IdOf(f)] = f
  <2>1. \E i \in DOMAIN ids : ids[i] = f
    BY DEF Known, ToSet
  <2>2. QED
    BY <2>1 DEF IdOf
<1>2. DOMAIN ids \subseteq Nat
  BY DEF OrderOK
<1>3. QED
  BY <1>1, <1>2

\* Before() is a strict total order of the rows.
LEMMA BeforeOrders ==
  ASSUME RowsInv
  PROVE  /\ \A f \in Known : ~Before(f, f)
         /\ \A f, g \in Known : Before(f, g) => ~Before(g, f)
         /\ \A f, g, h \in Known : Before(f, g) /\ Before(g, h) => Before(f, h)
         /\ \A f, g \in Known : f # g => Before(f, g) \/ Before(g, f)
<1> DEFINE size(f) == Cardinality(data[f])
<1>1. /\ \A f \in Known : IdOf(f) \in Nat
      /\ \A f, g \in Known : IdOf(f) = IdOf(g) => f = g
  BY IdsDiffer DEF RowsInv
<1>2. \A f \in Known : size(f) \in Nat
  <2>1. Known \subseteq Files
    BY DEF RowsInv, OrderOK, Known, ToSet
  <2>2. QED
    BY <2>1, FS_CardinalityType DEF RowsInv, FilesOK
<1>3. \A f, g : Before(f, g) <=> size(f) > size(g) \/ (size(f) = size(g) /\ IdOf(f) < IdOf(g))
  BY DEF Before
<1> HIDE DEF size
<1>4. \A f \in Known : ~Before(f, f)
  BY <1>1, <1>2, <1>3
<1>5. \A f, g \in Known : Before(f, g) => ~Before(g, f)
  BY <1>1, <1>2, <1>3
<1>6. \A f, g, h \in Known : Before(f, g) /\ Before(g, h) => Before(f, h)
  BY <1>1, <1>2, <1>3
<1>7. \A f, g \in Known : f # g => Before(f, g) \/ Before(g, f)
  BY <1>1, <1>2, <1>3
<1>8. QED
  BY <1>4, <1>5, <1>6, <1>7

LEMMA KnownIsFinite ==
  ASSUME RowsInv
  PROVE  IsFiniteSet(Known)
BY DistinctCounts DEF RowsInv, OrderOK, Known

\* A set of sets of rows has a smallest one.
LEMMA SmallestSet ==
  ASSUME NEW U, IsFiniteSet(U), NEW T \in SUBSET (SUBSET U), T # {}
  PROVE  \E I \in T : \A J \in T : J \subseteq I => J = I
<1>1. IsWellFoundedOn(StrictSubsetOrdering(U), SUBSET U)
  BY FS_StrictSubsetOrderingWellFounded, FS_FiniteSubsetsOfFinite
<1>2. PICK I \in T : \A J \in T : ~(<<J, I>> \in StrictSubsetOrdering(U))
  BY <1>1, WFMin
<1>3. \A J \in T : J \subseteq I => J = I
  BY <1>2 DEF StrictSubsetOrdering
<1>4. QED
  BY <1>3

\* A set of rows has a last one in the order of the plan.
LEMMA LastRow ==
  ASSUME RowsInv, NEW S \in SUBSET Known, S # {}
  PROVE  \E m \in S : \A g \in S : ~Before(m, g)
<1> DEFINE Without == {I \in SUBSET Known : I # {} /\ ~ \E m \in I : \A g \in I : ~Before(m, g)}
<1> SUFFICES ASSUME Without # {} PROVE FALSE
  OBVIOUS
<1>1. PICK I \in Without : \A J \in Without : J \subseteq I => J = I
  <2>1. Without \in SUBSET (SUBSET Known)
    OBVIOUS
  <2> HIDE DEF Without
  <2>2. QED
    BY <2>1, KnownIsFinite, SmallestSet
<1>2. PICK x \in I : TRUE
  BY <1>1
<1>3. I \subseteq Known /\ ~ \E m \in I : \A g \in I : ~Before(m, g)
  BY <1>1
<1> DEFINE J == I \ {x}
<1>4. J \notin Without /\ J \subseteq Known
  BY <1>1, <1>2, <1>3
<1>5. CASE J = {}
  <2>1. \A g \in I : g = x
    BY <1>5
  <2>2. QED
    BY <1>2, <1>3, <2>1, BeforeOrders
<1>6. CASE J # {}
  <2>1. PICK m \in J : \A g \in J : ~Before(m, g)
    BY <1>4, <1>6
  <2>2. CASE Before(m, x)
    <3>1. \A g \in I : ~Before(x, g)
      <4> SUFFICES ASSUME NEW g \in I, Before(x, g) PROVE FALSE
        OBVIOUS
      <4>1. g # x
        BY <1>2, <1>3, BeforeOrders
      <4>2. Before(m, g)
        BY <1>2, <1>3, <2>1, <2>2, BeforeOrders
      <4>3. QED
        BY <2>1, <4>1, <4>2
    <3>2. QED
      BY <1>2, <1>3, <3>1
  <2>3. CASE ~Before(m, x)
    <3>1. \A g \in I : ~Before(m, g)
      BY <2>1, <2>3
    <3>2. QED
      BY <1>3, <2>1, <3>1
  <2>4. QED
    BY <2>2, <2>3
<1>7. QED
  BY <1>5, <1>6

\* The rows that are compared with those accepted before them, in the order of the
\* plan: the set Accepted() speaks of exists.
Chosen(S, I) == S \in SUBSET I /\ \A f \in I : f \in S <=> \A g \in S : Before(g, f) => Disjoint(f, g)
LEMMA AcceptedExists ==
  ASSUME RowsInv, NEW U \in SUBSET Known
  PROVE  \E S : Chosen(S, U)
<1> DEFINE Closed(I) == \A f \in I, g \in U : Before(g, f) => g \in I
           Without == {I \in SUBSET U : Closed(I) /\ ~ \E S : Chosen(S, I)}
<1> SUFFICES ASSUME ~ \E S : Chosen(S, U) PROVE FALSE
  OBVIOUS
<1>1. PICK I \in Without : \A J \in Without : J \subseteq I => J = I
  <2>1. U \in Without
    OBVIOUS
  <2>2. Without \in SUBSET (SUBSET U) /\ Without # {}
    BY <2>1
  <2>3. IsFiniteSet(U)
    BY KnownIsFinite, FS_Subset
  <2> HIDE DEF Without
  <2>4. QED
    BY <2>2, <2>3, SmallestSet
<1>2. I \subseteq U /\ I \subseteq Known /\ Closed(I) /\ ~ \E S : Chosen(S, I)
  BY <1>1
<1>3. I # {}
  <2>1. Chosen({}, {})
    BY DEF Chosen
  <2>2. QED
    BY <1>2, <2>1
<1>4. PICK m \in I : \A g \in I : ~Before(m, g)
  BY <1>2, <1>3, LastRow
<1> DEFINE J == I \ {m}
<1>5. J \in SUBSET U /\ Closed(J)
  BY <1>2, <1>4
<1>6. J \notin Without
  BY <1>1, <1>4
<1>7. PICK S : Chosen(S, J)
  BY <1>5, <1>6
<1> HIDE DEF Without
<1>8. S \subseteq J /\ \A f \in J : f \in S <=> \A g \in S : Before(g, f) => Disjoint(f, g)
  BY <1>7 DEF Chosen
<1> DEFINE fits == \A g \in S : Before(g, m) => Disjoint(m, g)
           more == IF fits THEN S \cup {m} ELSE S
<1>9. Chosen(more, I)
  <2>1. ASSUME NEW f \in J
        PROVE  f \in more <=> \A g \in more : Before(g, f) => Disjoint(f, g)
    <3>1. f # m /\ (f \in more <=> f \in S)
      OBVIOUS
    <3>2. ~Before(m, f)
      BY <1>4
    <3>3. (\A g \in more : Before(g, f) => Disjoint(f, g)) <=> (\A g \in S : Before(g, f) => Disjoint(f, g))
      BY <3>2
    <3>4. QED
      BY <1>8, <3>1, <3>3
  <2>2. m \in more <=> \A g \in more : Before(g, m) => Disjoint(m, g)
    <3>1. m \notin S /\ ~Before(m, m)
      BY <1>2, <1>4, <1>8, BeforeOrders
    <3>2. (\A g \in more : Before(g, m) => Disjoint(m, g)) <=> fits
      BY <3>1
    <3>3. m \in more <=> fits
      BY <3>1
    <3>4. QED
      BY <3>2, <3>3
  <2>3. more \in SUBSET I
    BY <1>4, <1>8
  <2> HIDE DEF more, fits
  <2>4. \A f \in I : f = m \/ f \in J
    OBVIOUS
  <2>5. QED
    BY <2>1, <2>2, <2>3, <2>4 DEF Chosen
<1>10. QED
  BY <1>2, <1>9

\* The files of a plan: the primaries are none of the members, and those behind one
\* primary do not overlap in time.
PlanDisjoint(plan) ==
  \A p, q \in plan : p[1] = q[1] => Disjoint(p[1], p[2]) /\ (p # q => Disjoint(p[2], q[2]))
LEMMA PlanFacts ==
  ASSUME RowsInv
  PROVE  PlanDisjoint(MergePlan) /\ \A p, q \in MergePlan : p[1] # q[2]
<1>1. active \subseteq Known
  BY DEF RowsInv, KnownOK
<1>2. \A f, g : Disjoint(f, g) <=> Disjoint(g, f)
  BY DEF Disjoint
<1>3. ASSUME NEW p \in MergePlan
      PROVE  /\ p = <<p[1], p[2]>> /\ p[1] # p[2] /\ KeyOf[p[1]] = KeyOf[p[2]]
             /\ p[1] \in Usable(KeyOf[p[1]]) /\ p[2] \in Usable(KeyOf[p[1]])
             /\ p[1] \in Known /\ p[2] \in Known
             /\ IsPrimary(p[1]) /\ p[2] \in Accepted(KeyOf[p[1]])
  <2>1. /\ p \in (active \cap OnDisk) \X (active \cap OnDisk) /\ p[1] # p[2] /\ KeyOf[p[1]] = KeyOf[p[2]]
        /\ IsPrimary(p[1]) /\ p[2] \in Accepted(KeyOf[p[1]])
    BY DEF MergePlan
  <2>2. QED
    BY <1>1, <2>1 DEF Usable
<1>4. ASSUME NEW k
      PROVE  /\ Accepted(k) \subseteq Usable(k)
             /\ \A f \in Usable(k) :
                  f \in Accepted(k) <=> \A g \in Accepted(k) : Before(g, f) => Disjoint(f, g)
  <2> DEFINE U == Usable(k)
             Fit(S) == \A f \in U : f \in S <=> \A g \in S : Before(g, f) => Disjoint(f, g)
  <2>1. U \in SUBSET Known
    BY <1>1 DEF Usable
  <2>2. Accepted(k) = CHOOSE S \in SUBSET U : Fit(S)
    BY DEF Accepted
  <2> HIDE DEF U
  <2>3. PICK S : Chosen(S, U)
    BY <2>1, AcceptedExists
  <2>4. S \in SUBSET U /\ Fit(S)
    BY <2>3 DEF Chosen
  <2> HIDE DEF Fit
  <2>5. Accepted(k) \in SUBSET U /\ Fit(Accepted(k))
    BY <2>2, <2>4
  <2>6. QED
    BY <2>5 DEF U, Fit
<1>5. ASSUME NEW p \in MergePlan, NEW q \in MergePlan PROVE p[1] # q[2]
  <2> SUFFICES ASSUME p[1] = q[2] PROVE FALSE
    OBVIOUS
  <2>1. q[1] # q[2] /\ KeyOf[q[1]] = KeyOf[p[1]] /\ q[1] \in Usable(KeyOf[p[1]]) /\ p[1] \in Usable(KeyOf[q[1]])
    BY <1>3
  <2>2. Before(p[1], q[1]) /\ Before(q[1], p[1])
    BY <1>3, <2>1 DEF IsPrimary
  <2>3. QED
    BY <1>3, <2>2, BeforeOrders
<1>6. ASSUME NEW p \in MergePlan, NEW q \in MergePlan, p[1] = q[1]
      PROVE  Disjoint(p[1], p[2]) /\ (p # q => Disjoint(p[2], q[2]))
  <2> DEFINE k == KeyOf[p[1]]
             f == p[1]
             g == p[2]
             h == q[2]
  <2>1. /\ f \in Usable(k) /\ g \in Usable(k) /\ h \in Usable(k) /\ f \in Known /\ g \in Known /\ h \in Known
        /\ f # g /\ IsPrimary(f) /\ g \in Accepted(k) /\ h \in Accepted(k)
    BY <1>3, <1>6
  <2>2. p # q => g # h
    BY <1>3, <1>6
  <2> HIDE DEF g, h
  <2>3. \A x \in Usable(k) \ {f} : Before(f, x)
    BY <2>1 DEF IsPrimary
  <2> HIDE DEF k, f
  <2>4. Usable(k) \subseteq Known
    BY <1>1 DEF Usable
  <2>5. \A x \in Usable(k) : ~Before(x, f)
    BY <2>1, <2>3, <2>4, BeforeOrders
  <2>6. f \in Accepted(k)
    BY <1>4, <2>1, <2>5
  <2>7. Disjoint(g, f)
    BY <1>4, <2>1, <2>3, <2>6
  <2>8. g # h => Disjoint(g, h)
    <3>1. CASE Before(g, h)
      BY <1>2, <1>4, <2>1, <3>1
    <3>2. CASE Before(h, g)
      BY <1>4, <2>1, <3>2
    <3>3. QED
      BY <2>1, <3>1, <3>2, BeforeOrders
  <2>9. QED
    BY <1>2, <2>2, <2>7, <2>8 DEF f, g, h
<1>7. QED
  BY <1>5, <1>6 DEF PlanDisjoint
-----------------------------------------------------------------------------
(* The steps of the merge tool, field by field. *)
Planned ==
  /\ merge.at = "idle" /\ merge'.at = "add" /\ merge'.plan = MergePlan /\ merge'.todo = MergePlan
  /\ UNCHANGED <<rows, members, missed>>
Mapped(pair) ==
  /\ merge.at = "add" /\ merge'.at = "hide" /\ merge'.plan = merge.plan /\ merge'.file = pair[2]
  /\ pair \in merge.plan /\ members' = members \cup {pair} /\ UNCHANGED <<rows, missed>>
Hidden ==
  /\ merge.at = "hide" /\ active' = active \ {merge.file} /\ UNCHANGED <<ids, members, missed>>
  /\ \/ merge'.at = "idle"
     \/ merge'.at = "add" /\ merge'.plan = merge.plan
Undoing ==
  /\ merge.at = "idle" /\ merge'.at = "show" /\ merge'.plan = members /\ merge'.todo = members
  /\ UNCHANGED <<rows, members, missed>>
Shown(pair) ==
  /\ merge.at = "show" /\ pair \in merge.todo
  /\ merge'.plan = merge.plan /\ merge'.todo = merge.todo \ {pair}
  /\ merge'.at = IF merge.todo = {pair} THEN "clear" ELSE "show"
  /\ active' = active \cup {pair[2]} /\ missed' = missed \ {pair[2]} /\ UNCHANGED <<ids, members>>
Cleared(primary) ==
  LET left == {pair \in merge.plan : pair[1] # primary}
  IN /\ merge.at = "clear" /\ members' = {pair \in members : pair[1] # primary}
     /\ \/ left = {} /\ merge'.at = "idle"
        \/ merge'.at = "clear" /\ merge'.plan = left
     /\ UNCHANGED <<rows, missed>>
Stopped == MergeInterrupted /\ merge'.at = "idle" /\ UNCHANGED <<rows, members, missed>>

LEMMA MergeSteps ==
  ASSUME RightInv, RowsInv, MergeNext
  PROVE  \/ Planned \/ Hidden \/ Undoing \/ Stopped
         \/ \E pair \in merge.plan : Mapped(pair) \/ Shown(pair)
         \/ \E primary : Cleared(primary)
<1>1. merge \in MergeState /\ merge.todo \subseteq merge.plan /\ Resting.at = "idle"
  BY DEF RightInv, RightTypes, RowsInv, MergeRows, Resting
<1>2. CASE PlanMerges
  <2> DEFINE t == [Resting EXCEPT !.at = "add", !.plan = MergePlan, !.todo = MergePlan]
  <2>1. t.at = "add" /\ t.plan = MergePlan /\ t.todo = MergePlan
    BY RestingMerge, Zenon DEF MergeState
  <2>2. merge.at = "idle" /\ merge' = t /\ UNCHANGED <<rows, members, missed>>
    BY <1>2 DEF PlanMerges
  <2> HIDE DEF t
  <2>3. QED
    BY <2>1, <2>2 DEF Planned
<1>3. CASE AddMember
  <2>1. PICK pair \in merge.todo :
          /\ merge.at = "add" /\ members' = members \cup {pair}
          /\ merge' = [merge EXCEPT !.at = "hide", !.todo = @ \ {pair}, !.file = pair[2]]
    BY <1>3, Zenon DEF AddMember
  <2> DEFINE t == [merge EXCEPT !.at = "hide", !.todo = @ \ {pair}, !.file = pair[2]]
  <2>2. t.at = "hide" /\ t.plan = merge.plan /\ t.file = pair[2]
    BY <1>1, Zenon DEF MergeState
  <2>3. merge' = t /\ UNCHANGED <<rows, missed>> /\ pair \in merge.plan
    BY <1>1, <1>3, <2>1 DEF AddMember
  <2> HIDE DEF t
  <2>4. QED
    BY <2>1, <2>2, <2>3 DEF Mapped
<1>4. CASE HideMember
  <2> DEFINE t == [merge EXCEPT !.at = "add"]
  <2>1. /\ merge.at = "hide" /\ active' = active \ {merge.file} /\ UNCHANGED <<ids, members, missed>>
        /\ merge' = Resting \/ merge' = t
    BY <1>4 DEF HideMember
  <2>2. t.at = "add" /\ t.plan = merge.plan
    BY <1>1 DEF MergeState
  <2> HIDE DEF t
  <2>3. QED
    BY <1>1, <2>1, <2>2 DEF Hidden
<1>5. CASE StartUndo
  <2> DEFINE t == [Resting EXCEPT !.at = "show", !.plan = members, !.todo = members]
  <2>1. t.at = "show" /\ t.plan = members /\ t.todo = members
    BY RestingMerge, Zenon DEF MergeState
  <2>2. merge.at = "idle" /\ merge' = t /\ UNCHANGED <<rows, members, missed>>
    BY <1>5 DEF StartUndo
  <2> HIDE DEF t
  <2>3. QED
    BY <2>1, <2>2 DEF Undoing
<1>6. CASE ShowMember
  <2>1. PICK pair \in merge.todo :
          /\ merge.at = "show" /\ active' = active \cup {pair[2]} /\ missed' = missed \ {pair[2]}
          /\ merge' = [merge EXCEPT !.todo = @ \ {pair}, !.at = IF merge.todo = {pair} THEN "clear" ELSE @]
    BY <1>6, Zenon DEF ShowMember
  <2> DEFINE at == IF merge.todo = {pair} THEN "clear" ELSE merge.at
             t == [merge EXCEPT !.todo = @ \ {pair}, !.at = at]
  <2>2. merge' = t /\ UNCHANGED <<ids, members>>
    BY <1>6, <2>1 DEF ShowMember
  <2>3. at = IF merge.todo = {pair} THEN "clear" ELSE "show"
    BY <2>1
  <2> HIDE DEF at
  <2>4. t.at = at /\ t.plan = merge.plan /\ t.todo = merge.todo \ {pair}
    BY <1>1, Zenon DEF MergeState
  <2> HIDE DEF t
  <2>5. Shown(pair) /\ pair \in merge.plan
    BY <1>1, <2>1, <2>2, <2>3, <2>4 DEF Shown
  <2>6. QED
    BY <2>5
<1>7. CASE ClearMembers
  <2>1. PICK primary \in {pair[1] : pair \in merge.plan} :
          LET left == {pair \in merge.plan : pair[1] # primary}
          IN /\ merge.at = "clear" /\ members' = {pair \in members : pair[1] # primary}
             /\ merge' = IF left = {} THEN Resting ELSE [merge EXCEPT !.plan = left]
    BY <1>7, Zenon DEF ClearMembers
  <2> DEFINE left == {pair \in merge.plan : pair[1] # primary}
             t == [merge EXCEPT !.plan = left]
  <2>2. merge' = (IF left = {} THEN Resting ELSE t) /\ UNCHANGED <<rows, missed>> /\ merge.at = "clear"
    BY <1>7, <2>1 DEF ClearMembers
  <2>3. t.at = merge.at /\ t.plan = left
    BY <1>1 DEF MergeState
  <2> HIDE DEF t
  <2>4. \/ left = {} /\ merge'.at = "idle"
        \/ merge'.at = "clear" /\ merge'.plan = left
    BY <1>1, <2>2, <2>3
  <2>5. Cleared(primary)
    BY <2>1, <2>2, <2>4 DEF Cleared
  <2>6. QED
    BY <2>5
<1>8. CASE MergeInterrupted
  BY <1>1, <1>8 DEF MergeInterrupted, Stopped
<1>9. QED
  BY <1>2, <1>3, <1>4, <1>5, <1>6, <1>7, <1>8 DEF MergeNext

\* Anything else leaves the mappings and the merge tool alone.
LEMMA OthersLeaveMerge ==
  ASSUME Next
  PROVE  \/ MergeNext
         \/ /\ UNCHANGED <<merge, members>>
            /\ fresh' = FALSE \/ UNCHANGED <<data, fresh>>
<1>1. ASSUME NEW a \in Syncers, SyncNext(a) PROVE UNCHANGED <<merge, members, data, fresh>>
  BY <1>1 DEF SyncNext, SyncStep, Discover, LookUp, WriteRow, Decide, Assign, EndPass, DeactivateMissing,
       ListActive, ApplyNext, RowConflict, AssignFails, SyncInterrupted, files
<1>2. ASSUME AdminNext PROVE UNCHANGED <<merge, members, data, fresh>>
  BY <1>2 DEF AdminNext, files
<1>3. ASSUME FilesNext PROVE UNCHANGED <<merge, members>> /\ fresh' = FALSE
  BY <1>3 DEF FilesNext
<1>4. QED
  BY <1>1, <1>2, <1>3 DEF Next

\* A plan is free of overlaps when it is made, and stays so as long as the files do.
LEMMA MergedNext ==
  ASSUME RightInv, RowsInv, MergedDisjoint, [Next]_vars
  PROVE  MergedDisjoint'
<1>1. MergedDisjoint <=> (merge.at \in {"add", "hide"} /\ fresh => PlanDisjoint(merge.plan))
  BY DEF MergedDisjoint, PlanDisjoint
<1>2. ASSUME merge'.at \in {"add", "hide"}, fresh', UNCHANGED data, NEW plan, PlanDisjoint(plan), merge'.plan = plan
      PROVE  MergedDisjoint'
  <2>1. \A f, g : Disjoint(f, g)' <=> Disjoint(f, g)
    BY <1>2 DEF Disjoint, FileRange
  <2>2. QED
    BY <1>2, <2>1 DEF MergedDisjoint, PlanDisjoint
<1>3. CASE MergeNext
  <2>1. UNCHANGED data /\ fresh' = (merge'.at \in {"add", "hide"} /\ (merge.at = "idle" \/ fresh))
    BY <1>3 DEF MergeNext, files
  <2>2. CASE Planned
    BY <1>2, <2>1, <2>2, PlanFacts DEF Planned, MergedDisjoint
  <2>3. ASSUME merge.at \in {"add", "hide"}, merge'.plan = merge.plan \/ merge'.at = "idle" PROVE MergedDisjoint'
    BY <1>1, <1>2, <2>1, <2>3 DEF MergedDisjoint
  <2>4. ASSUME merge'.at \notin {"add", "hide"} PROVE MergedDisjoint'
    BY <2>4 DEF MergedDisjoint
  <2>5. QED
    BY <1>3, <2>2, <2>3, <2>4, MergeSteps DEF Mapped, Hidden, Undoing, Shown, Cleared, Stopped
<1>4. CASE UNCHANGED <<merge, data, fresh>>
  BY <1>1, <1>2, <1>4 DEF MergedDisjoint
<1>5. CASE fresh' = FALSE
  BY <1>5 DEF MergedDisjoint
<1>6. QED
  BY <1>3, <1>4, <1>5, OthersLeaveMerge DEF vars, files

\* The merge tool puts files behind a device that overlap neither with it nor with
\* each other, whatever else happens to the rows meanwhile: plan_merges() in
\* tools/merge_duplicate_devices.py.
THEOREM MergedDisjointCorrect == Spec => []MergedDisjoint
<1>1. Init => RightInv /\ RowsInv /\ MergedDisjoint
  BY RightInit, RowsInit DEF Init, MergedDisjoint, Resting
<1>2. RightInv /\ RowsInv /\ MergedDisjoint /\ [Next]_vars => (RightInv /\ RowsInv /\ MergedDisjoint)'
  BY RightNext, RowsNext, MergedNext
<1>3. QED
  BY <1>1, <1>2, PTL DEF Spec
-----------------------------------------------------------------------------
(* Every hidden row is hidden for a reason. *)

\* While the merge tool runs to its end and beside no sync: no sync is running, when
\* it is; a row is hidden because its file was missing or because it is a member ...
Alone == merge.at # "idle" => \A a \in Syncers : sync[a].at = "idle"
Reasons == Known \ (active \cup missed) \subseteq MemberFiles
\* ... members do not hide each other in a circle (while mappings are cleared, all
\* members are shown) ...
Forest ==
  merge.at # "clear" =>
    \A S \in (SUBSET MemberFiles) \ {{}} : \E pair \in members : pair[2] \in S /\ pair[1] \notin S
\* ... a sync that has looked a row up hides it just in case it is a member ...
Hides(s, mapped) == s.at = "write" => (s.row = "hide" <=> s.file \in mapped)
SyncsHide == \A a \in Syncers : Hides(sync[a], MemberFiles)
\* ... no member is shown but the one that the tool is about to hide ...
MembersHidden ==
  /\ merge.at \in {"idle", "add"} => active \cap MemberFiles = {}
  /\ merge.at = "hide" => active \cap MemberFiles \subseteq {merge.file} /\ merge.file \in MemberFiles
\* ... the primaries it has planned with are none, and will not become members ...
Primaries ==
  merge.at \in {"add", "hide"} => \A p, q \in merge.plan : p[1] \notin MemberFiles /\ p[1] # q[2]
\* ... and it clears the mappings it has read, all of whose members it has shown.
Undoes ==
  /\ merge.at = "show" => members = merge.plan /\ \A pair \in merge.plan \ merge.todo : pair[2] \in active
  /\ merge.at = "clear" => members = merge.plan /\ Known \subseteq active \cup missed

Unbroken == Alone /\ Reasons /\ Forest /\ SyncsHide /\ MembersHidden /\ Primaries /\ Undoes
OrphanInv == crossed \/ Unbroken

\* What a step that has not crossed the merge tool with a sync is like.
LEMMA Uncrossed ==
  ASSUME Crossing, ~crossed'
  PROVE  ~crossed /\ ~MergeInterrupted /\ Alone'
BY DEF Crossing, Syncing, Alone

\* The mappings are those of rows.
LEMMA MembersKnown == RowsInv => MemberFiles \subseteq Known
BY DEF RowsInv, KnownOK, MemberFiles

\* A step of a sync, field by field.
SyncReadsOn(a) ==
  /\ UNCHANGED <<ids, active, missed>>
  /\ sync'[a].at = "write" => sync'[a].row = Wanted(sync'[a].file)
SyncWrites(a) ==
  LET f == sync[a].file
  IN /\ sync[a].at = "write" /\ (sync[a].row = "new" => f \notin Known)
     /\ Known' = Known \cup {f} /\ missed' = missed \ {f}
     /\ active' = IF sync[a].row = "hide" THEN active \ {f} ELSE active \cup {f}
     /\ sync'[a].at # "write"
SyncHides(a) ==
  /\ UNCHANGED ids /\ sync'[a].at # "write"
  /\ active' \subseteq active /\ missed' = missed \cup (active \ active')

LEMMA SyncSteps ==
  ASSUME RightInv, RowsInv, NEW a \in Syncers, SyncNext(a)
  PROVE  /\ UNCHANGED <<members, merge>> /\ \A b \in Syncers \ {a} : sync'[b] = sync[b]
         /\ sync[a].at # "idle" \/ sync'[a].at # "idle"
         /\ SyncReadsOn(a) \/ SyncWrites(a) \/ SyncHides(a)
<1> DEFINE s == sync[a]
<1>1. s \in SyncState /\ sync \in [Syncers -> SyncState]
  BY DEF RightInv, RightTypes
<1>2. UNCHANGED <<members, merge>>
  BY DEF SyncNext, SyncStep, Discover, LookUp, WriteRow, Decide, Assign, EndPass, DeactivateMissing,
     ListActive, ApplyNext, RowConflict, AssignFails, SyncInterrupted
<1>3. ASSUME NEW t, sync' = [sync EXCEPT ![a] = t]
      PROVE  sync'[a] = t /\ \A b \in Syncers \ {a} : sync'[b] = sync[b]
  BY <1>1, <1>3
<1>4. ASSUME NEW t, sync' = [sync EXCEPT ![a] = t], UNCHANGED <<rows, missed>>, t.at # "write",
             s.at # "idle" \/ t.at # "idle"
      PROVE  /\ \A b \in Syncers \ {a} : sync'[b] = sync[b]
             /\ s.at # "idle" \/ sync'[a].at # "idle"
             /\ SyncReadsOn(a)
  BY <1>3, <1>4 DEF SyncReadsOn, rows
<1>5. CASE a \in {"tool", "web"} /\ Discover(a)
  <2>1. PICK unreadable :
          sync' = [sync EXCEPT ![a] = [Idle EXCEPT
            !.at = "next", !.pass = "upsert",
            !.todo = OnDisk \ unreadable,
            !.found = IF a = "tool" THEN OnDisk \ unreadable ELSE {}]]
    BY <1>5, Zenon DEF Discover
  <2> DEFINE t == [Idle EXCEPT !.at = "next", !.pass = "upsert", !.todo = OnDisk \ unreadable,
                               !.found = IF a = "tool" THEN OnDisk \ unreadable ELSE {}]
  <2>2. t.at = "next"
    BY RestingSyncs, Zenon DEF SyncState
  <2>3. sync' = [sync EXCEPT ![a] = t] /\ UNCHANGED <<rows, missed>>
    BY <1>5, <2>1 DEF Discover
  <2> HIDE DEF t, s
  <2>4. QED
    BY <1>2, <1>4, <2>2, <2>3 DEF s
<1>6. CASE LookUp(a)
  <2>1. PICK f : sync' = [sync EXCEPT ![a] = LookedUp(s, f)] /\ s.at = "next" /\ UNCHANGED <<rows, missed>>
    BY <1>6 DEF LookUp
  <2> HIDE DEF s
  <2>2. LookedUp(s, f).row = Wanted(f) /\ LookedUp(s, f).file = f
    BY <1>1, Zenon DEF LookedUp, SyncState
  <2>3. sync'[a] = LookedUp(s, f) /\ \A b \in Syncers \ {a} : sync'[b] = sync[b]
    BY <1>3, <2>1
  <2>4. SyncReadsOn(a)
    BY <2>1, <2>2, <2>3 DEF SyncReadsOn, rows
  <2>5. QED
    BY <1>2, <2>1, <2>3, <2>4 DEF s
<1>7. CASE WriteRow(a)
  <2> DEFINE t == [s EXCEPT !.at = "read", !.row = "none"]
  <2>1. t.at = "read"
    BY <1>1, Zenon DEF SyncState
  <2>2. sync' = [sync EXCEPT ![a] = t]
    BY <1>7 DEF WriteRow
  <2>3. s.row # "new" => s.file \in Known
    BY <1>7 DEF WriteRow, RowsInv, SyncRows, Rowed
  <2>4. s.file \in Files
    BY <1>7 DEF WriteRow, RightInv, SyncsGiven, HasFile
  <2> DEFINE new == s.row = "new"
  <2>5. Known' = Known \cup {s.file}
    <3>1. new \in BOOLEAN /\ (new => s.file \notin Known) /\ (~new => s.file \in Known)
          /\ ids' = IF new THEN Append(ids, s.file) ELSE ids
      BY <1>7, <2>3 DEF WriteRow
    <3>2. OrderOK
      BY DEF RowsInv
    <3> HIDE DEF new, s
    <3>3. QED
      BY <2>4, <3>1, <3>2, WrittenIds
  <2>6. sync'[a] = t /\ \A b \in Syncers \ {a} : sync'[b] = sync[b]
    BY <1>3, <2>2
  <2> HIDE DEF t
  <2>7. SyncWrites(a) /\ s.at # "idle"
    BY <1>7, <2>1, <2>5, <2>6 DEF WriteRow, SyncWrites
  <2>8. QED
    BY <1>2, <2>6, <2>7
<1>8. CASE RowConflict(a) \/ SyncInterrupted(a)
  <2>1. s.at # "idle" /\ sync' = [sync EXCEPT ![a] = Idle] /\ UNCHANGED <<rows, missed>> /\ Idle.at # "write"
    BY <1>8 DEF RowConflict, SyncInterrupted, Idle
  <2>2. QED
    BY <1>2, <1>4, <2>1
<1>9. CASE Decide(a) \/ ApplyNext(a)
  <2>1. PICK f : sync' = [sync EXCEPT ![a] = Decided(s, f)] /\ s.at # "idle" /\ UNCHANGED <<rows, missed>>
    BY <1>9 DEF Decide, ApplyNext
  <2> HIDE DEF s
  <2>2. Decided(s, f).at \in {"next", "assign"}
    <3>1. CASE Decision(f) = None
      BY <1>1, <3>1, Zenon DEF Decided, NextFile, SyncState
    <3>2. CASE Decision(f) # None
      BY <1>1, <3>2, Zenon DEF Decided, SyncState
    <3>3. QED
      BY <3>1, <3>2
  <2>3. QED
    BY <1>2, <1>4, <2>1, <2>2 DEF s
<1>10. CASE Assign(a) \/ AssignFails(a)
  <2>1. /\ s.at = "assign" /\ sync' = [sync EXCEPT ![a] = NextFile(s)]
        /\ UNCHANGED <<ids, active, missed>>
    BY <1>10 DEF Assign, AssignFails, rows
  <2> HIDE DEF s
  <2>2. NextFile(s).at = "next"
    BY <1>1, Zenon DEF NextFile, SyncState
  <2>3. sync'[a] = NextFile(s) /\ \A b \in Syncers \ {a} : sync'[b] = sync[b]
    BY <1>3, <2>1
  <2>4. SyncReadsOn(a)
    BY <2>1, <2>2, <2>3 DEF SyncReadsOn
  <2>5. QED
    BY <1>2, <2>1, <2>3, <2>4 DEF s
<1>11. CASE EndPass(a)
  <2> DEFINE t == IF a = "tool" /\ s.pass = "upsert" THEN [s EXCEPT !.at = "deactivate"] ELSE Idle
  <2>1. s.at = "next" /\ sync' = [sync EXCEPT ![a] = t] /\ UNCHANGED <<rows, missed>>
    BY <1>11 DEF EndPass
  <2>2. t.at # "write"
    BY <1>1 DEF SyncState, Idle
  <2> HIDE DEF t
  <2>3. QED
    BY <1>2, <1>4, <2>1, <2>2
<1>12. CASE a = "tool" /\ DeactivateMissing
  <2> DEFINE t == [Idle EXCEPT !.at = "list"]
  <2>1. /\ s.at = "deactivate" /\ UNCHANGED ids /\ active' = active \ (active \ s.found)
        /\ missed' = missed \cup (active \ s.found) /\ sync' = [sync EXCEPT ![a] = t]
    BY <1>12 DEF DeactivateMissing
  <2>2. t.at = "list"
    BY RestingSyncs DEF SyncState
  <2>3. sync'[a] = t /\ \A b \in Syncers \ {a} : sync'[b] = sync[b]
    BY <1>3, <2>1
  <2> HIDE DEF t, s
  <2>4. active \ active' = active \ s.found /\ active' \subseteq active
    BY <2>1
  <2>5. SyncHides(a)
    BY <2>1, <2>2, <2>3, <2>4 DEF SyncHides
  <2>6. QED
    BY <1>2, <2>1, <2>3, <2>5 DEF s
<1>13. CASE ListActive(a)
  <2> DEFINE t == [s EXCEPT !.at = "next", !.pass = "apply", !.todo = active]
  <2>1. s.at = "list" /\ sync' = [sync EXCEPT ![a] = t] /\ UNCHANGED <<rows, missed>>
    BY <1>13 DEF ListActive
  <2>2. t.at = "next"
    BY <1>1, Zenon DEF SyncState
  <2> HIDE DEF t
  <2>3. QED
    BY <1>2, <1>4, <2>1, <2>2
<1>14. QED
  BY <1>5, <1>6, <1>7, <1>8, <1>9, <1>10, <1>11, <1>12, <1>13 DEF SyncNext, SyncStep

\* A sync has looked its row up among the mappings there are.
LEMMA LooksUp ==
  ASSUME RowsInv, NEW f
  PROVE  Wanted(f) = "hide" <=> f \in MemberFiles
BY MembersKnown DEF Wanted

\* The steps of a sync.
LEMMA OrphansSync ==
  ASSUME RightInv, RowsInv, Unbroken, NEW a \in Syncers, SyncNext(a), Alone'
  PROVE  Unbroken'
<1>1. UNCHANGED <<members, merge>> /\ \A b \in Syncers \ {a} : sync'[b] = sync[b]
  BY SyncSteps
<1>2. merge.at = "idle"
  BY <1>1, SyncSteps DEF Unbroken, Alone
<1>3. MemberFiles' = MemberFiles /\ Forest' /\ Primaries' /\ Undoes'
  BY <1>1, <1>2 DEF Unbroken, Forest, Primaries, Undoes, MemberFiles
<1>4. ASSUME Hides(sync'[a], MemberFiles), active' \cap MemberFiles = {},
             Known' \ (active' \cup missed') \subseteq MemberFiles
      PROVE  Unbroken'
  <2>1. SyncsHide'
    BY <1>1, <1>3, <1>4 DEF Unbroken, SyncsHide
  <2>2. MembersHidden'
    BY <1>1, <1>2, <1>3, <1>4 DEF MembersHidden
  <2>3. Reasons'
    BY <1>3, <1>4 DEF Reasons
  <2>4. QED
    BY <1>3, <2>1, <2>2, <2>3 DEF Unbroken
<1>5. /\ active \cap MemberFiles = {} /\ Known \ (active \cup missed) \subseteq MemberFiles
      /\ Hides(sync[a], MemberFiles) /\ active \subseteq Known
  BY <1>2 DEF Unbroken, MembersHidden, Reasons, SyncsHide, RowsInv, KnownOK
<1>6. CASE SyncReadsOn(a)
  <2>1. Hides(sync'[a], MemberFiles)
    BY <1>6, LooksUp DEF SyncReadsOn, Hides
  <2>2. Known' = Known
    BY <1>6 DEF SyncReadsOn, Known
  <2>3. QED
    BY <1>4, <1>5, <1>6, <2>1, <2>2 DEF SyncReadsOn
<1>7. CASE SyncWrites(a)
  <2> DEFINE f == sync[a].file
  <2>1. /\ Known' = Known \cup {f} /\ missed' = missed \ {f}
        /\ active' = IF f \in MemberFiles THEN active \ {f} ELSE active \cup {f}
        /\ Hides(sync'[a], MemberFiles)
    BY <1>5, <1>7 DEF SyncWrites, Hides
  <2> HIDE DEF f
  <2>2. active' \cap MemberFiles = {}
    BY <1>5, <2>1
  <2>3. Known' \ (active' \cup missed') \subseteq MemberFiles
    BY <1>5, <2>1
  <2>4. QED
    BY <1>4, <2>1, <2>2, <2>3
<1>8. CASE SyncHides(a)
  <2>1. Known' = Known /\ Hides(sync'[a], MemberFiles)
    BY <1>8 DEF SyncHides, Known, Hides
  <2>2. active' \cap MemberFiles = {} /\ Known' \ (active' \cup missed') \subseteq MemberFiles
    BY <1>5, <1>8, <2>1 DEF SyncHides
  <2>3. QED
    BY <1>4, <2>1, <2>2
<1>9. QED
  BY <1>6, <1>7, <1>8, SyncSteps

\* No mapping has changed, or no sync is running.
LEMMA SyncsStillHide ==
  ASSUME Unbroken, UNCHANGED sync, MemberFiles' = MemberFiles \/ merge.at # "idle"
  PROVE  SyncsHide'
<1>1. CASE MemberFiles' = MemberFiles
  BY <1>1 DEF Unbroken, SyncsHide
<1>2. CASE merge.at # "idle"
  BY <1>2 DEF Unbroken, Alone, SyncsHide, Hides
<1>3. QED
  BY <1>1, <1>2

\* The steps of the merge tool.
LEMMA OrphansMerge ==
  ASSUME RightInv, RowsInv, Unbroken, MergeNext, ~MergeInterrupted, Alone'
  PROVE  Unbroken'
<1> USE DEF rows
<1>1. UNCHANGED sync /\ merge.at \in {"idle", "add", "hide", "show", "clear"}
  BY DEF MergeNext, RightInv, RightTypes, MergeState
<1>2. active \subseteq Known /\ members \subseteq Known \X Known
  BY DEF RowsInv, KnownOK
<1>3. CASE Planned
  <2>1. \A p, q \in MergePlan : p[1] # q[2]
    BY PlanFacts
  <2>2. \A p \in MergePlan : p[1] \in active
    BY DEF MergePlan
  <2>3. UNCHANGED <<members, active, missed>> /\ Known' = Known /\ MemberFiles' = MemberFiles
        /\ active \cap MemberFiles = {}
    BY <1>3 DEF Planned, Known, MemberFiles, Unbroken, MembersHidden
  <2>4. Primaries'
    <3>1. merge'.plan = MergePlan
      BY <1>3 DEF Planned
    <3>2. \A p, q \in MergePlan : p[1] \notin MemberFiles /\ p[1] # q[2]
      BY <2>1, <2>2, <2>3
    <3>3. QED
      BY <2>3, <3>1, <3>2 DEF Primaries
  <2>5. Reasons' /\ Forest' /\ MembersHidden' /\ Undoes'
    BY <1>3, <2>3 DEF Planned, Unbroken, Reasons, Forest, MembersHidden, Undoes
  <2>6. QED
    BY <1>1, <2>3, <2>4, <2>5, SyncsStillHide DEF Unbroken
<1>4. CASE Hidden
  <2>1. MemberFiles' = MemberFiles /\ Known' = Known /\ merge.file \in MemberFiles
        /\ active \cap MemberFiles \subseteq {merge.file} /\ active' = active \ {merge.file}
        /\ UNCHANGED <<members, missed>> /\ merge.at = "hide"
    BY <1>4 DEF Hidden, MemberFiles, Known, Unbroken, MembersHidden
  <2>2. Reasons'
    BY <2>1 DEF Unbroken, Reasons
  <2>3. MembersHidden'
    <3>1. active' \cap MemberFiles' = {} /\ merge'.at # "hide"
      BY <1>4, <2>1 DEF Hidden
    <3>2. QED
      BY <3>1 DEF MembersHidden
  <2>4. Forest' /\ Primaries' /\ Undoes'
    BY <1>4, <2>1 DEF Hidden, Unbroken, Forest, Primaries, Undoes
  <2>5. QED
    BY <1>1, <2>1, <2>2, <2>3, <2>4, SyncsStillHide DEF Unbroken
<1>5. CASE Undoing
  <2>1. UNCHANGED <<members, active, missed>> /\ Known' = Known /\ MemberFiles' = MemberFiles
        /\ merge.at = "idle"
    BY <1>5 DEF Undoing, Known, MemberFiles
  <2>2. Reasons' /\ Forest' /\ MembersHidden' /\ Primaries' /\ Undoes'
    BY <1>5, <2>1 DEF Undoing, Unbroken, Reasons, Forest, MembersHidden, Primaries, Undoes
  <2>3. QED
    BY <1>1, <2>1, <2>2, SyncsStillHide DEF Unbroken
<1>6. ASSUME NEW pair \in merge.plan, Mapped(pair) PROVE Unbroken'
  <2>1. /\ merge.at = "add" /\ merge'.at = "hide" /\ merge'.plan = merge.plan /\ merge'.file = pair[2]
        /\ members' = members \cup {pair} /\ UNCHANGED <<active, missed>> /\ Known' = Known
    BY <1>6 DEF Mapped, Known
  <2>2. MemberFiles' = MemberFiles \cup {pair[2]}
    BY <2>1 DEF MemberFiles
  <2>3. \A p, q \in merge.plan : p[1] \notin MemberFiles /\ p[1] # q[2]
    BY <2>1 DEF Unbroken, Primaries
  <2>4. Reasons'
    BY <2>1, <2>2 DEF Unbroken, Reasons
  <2>5. Forest'
    <3>1. ASSUME NEW S \in (SUBSET MemberFiles') \ {{}} PROVE \E p \in members' : p[2] \in S /\ p[1] \notin S
      <4>1. CASE pair[2] \in S
        <5>1. pair \in members' /\ pair[1] \notin S
          BY <2>1, <2>2, <2>3
        <5>2. QED
          BY <4>1, <5>1
      <4>2. CASE pair[2] \notin S
        <5>1. S \in (SUBSET MemberFiles) \ {{}}
          BY <2>2, <4>2
        <5>2. \E p \in members : p[2] \in S /\ p[1] \notin S
          BY <2>1, <5>1 DEF Unbroken, Forest
        <5>3. QED
          BY <2>1, <5>2
      <4>3. QED
        BY <4>1, <4>2
    <3>2. QED
      BY <3>1 DEF Forest
  <2>6. MembersHidden' /\ Primaries' /\ Undoes'
    <3>1. active \cap MemberFiles = {}
      BY <2>1 DEF Unbroken, MembersHidden
    <3>2. MembersHidden'
      BY <2>1, <2>2, <3>1 DEF MembersHidden
    <3>3. Primaries'
      BY <2>1, <2>2, <2>3 DEF Primaries
    <3>4. QED
      BY <2>1, <3>2, <3>3 DEF Undoes
  <2>7. QED
    BY <1>1, <2>1, <2>4, <2>5, <2>6, SyncsStillHide DEF Unbroken
<1>7. ASSUME NEW pair \in merge.plan, Shown(pair) PROVE Unbroken'
  <2>1. /\ merge.at = "show" /\ pair \in merge.todo /\ merge'.plan = merge.plan
        /\ merge'.todo = merge.todo \ {pair}
        /\ merge'.at = (IF merge.todo = {pair} THEN "clear" ELSE "show")
        /\ active' = active \cup {pair[2]} /\ missed' = missed \ {pair[2]} /\ members' = members
        /\ Known' = Known /\ MemberFiles' = MemberFiles
    BY <1>7 DEF Shown, Known, MemberFiles
  <2>2. members = merge.plan /\ \A p \in merge.plan \ merge.todo : p[2] \in active
    BY <2>1 DEF Unbroken, Undoes
  <2>3. \A p \in merge'.plan \ merge'.todo : p[2] \in active'
    BY <2>1, <2>2
  <2>4. Known' \ (active' \cup missed') \subseteq MemberFiles'
    BY <2>1 DEF Unbroken, Reasons
  <2>5. ASSUME merge'.at = "clear" PROVE Known' \subseteq active' \cup missed'
    <3>1. merge'.todo = {}
      BY <2>1, <2>5
    <3>2. MemberFiles' \subseteq active'
      BY <2>1, <2>2, <2>3, <3>1 DEF MemberFiles
    <3>3. QED
      BY <2>4, <3>2
  <2>6. Undoes'
    BY <2>1, <2>2, <2>3, <2>5 DEF Undoes
  <2>7. Reasons' /\ Forest' /\ MembersHidden' /\ Primaries'
    BY <2>1, <2>4 DEF Unbroken, Reasons, Forest, MembersHidden, Primaries
  <2>8. QED
    BY <1>1, <2>1, <2>6, <2>7, SyncsStillHide DEF Unbroken
<1>8. ASSUME NEW primary, Cleared(primary) PROVE Unbroken'
  <2>1. /\ merge.at = "clear" /\ members = merge.plan /\ Known \subseteq active \cup missed
        /\ members' = {p \in members : p[1] # primary} /\ UNCHANGED <<active, missed>> /\ Known' = Known
        /\ \/ members' = {} /\ merge'.at = "idle"
           \/ merge'.at = "clear" /\ merge'.plan = members'
    BY <1>8 DEF Cleared, Known, Unbroken, Undoes
  <2>2. members' = {} => MemberFiles' = {}
    BY DEF MemberFiles
  <2>3. Reasons' /\ Undoes' /\ Primaries'
    BY <2>1 DEF Reasons, Undoes, Primaries
  <2>4. Forest' /\ MembersHidden'
    BY <2>1, <2>2 DEF Forest, MembersHidden
  <2>5. QED
    BY <1>1, <2>1, <2>3, <2>4, SyncsStillHide DEF Unbroken
<1>9. QED
  BY <1>3, <1>4, <1>5, <1>6, <1>7, <1>8, MergeSteps DEF Stopped

\* The forms change neither the mappings nor what is shown; a new rule starts a sync
\* with no row looked up.
LEMMA OrphansAdmin ==
  ASSUME RightInv, Unbroken, AdminNext, Alone'
  PROVE  Unbroken'
<1>1. /\ UNCHANGED <<ids, active, missed, members, merge>>
      /\ sync' = sync \/ sync' = [sync EXCEPT !["rules"] = [Idle EXCEPT !.at = "list"]]
  BY DEF AdminNext, SaveRule, DeleteRule, EditDevice, SaveUser, AssignUser, SetGrant, rows
<1>2. MemberFiles' = MemberFiles /\ Known' = Known
  BY <1>1 DEF MemberFiles, Known
<1>3. SyncsHide'
  <2>1. CASE sync' = sync
    BY <1>2, <2>1 DEF Unbroken, SyncsHide
  <2>2. CASE sync' = [sync EXCEPT !["rules"] = [Idle EXCEPT !.at = "list"]]
    <3>1. [Idle EXCEPT !.at = "list"].at = "list"
      BY RestingSyncs DEF SyncState
    <3>2. sync \in [Syncers -> SyncState]
      BY DEF RightInv, RightTypes
    <3>3. \A a \in Syncers : sync'[a].at = "list" \/ sync'[a] = sync[a]
      BY <2>2, <3>1, <3>2
    <3>4. QED
      BY <1>2, <3>3 DEF Unbroken, SyncsHide, Hides
  <2>3. QED
    BY <1>1, <2>1, <2>2
<1>4. Reasons' /\ Forest' /\ MembersHidden' /\ Primaries' /\ Undoes'
  BY <1>1, <1>2 DEF Unbroken, Reasons, Forest, MembersHidden, Primaries, Undoes
<1>5. QED
  BY <1>3, <1>4 DEF Unbroken

LEMMA OrphansKept ==
  ASSUME Unbroken, UNCHANGED <<rows, members, missed, sync, merge>>
  PROVE  Unbroken'
<1>1. UNCHANGED <<ids, active, members, missed, sync, merge>>
  BY DEF rows
<1>2. MemberFiles' = MemberFiles /\ Known' = Known
  BY <1>1 DEF MemberFiles, Known
<1>3. Alone' /\ Reasons' /\ Forest' /\ SyncsHide'
  BY <1>1, <1>2 DEF Unbroken, Alone, Reasons, Forest, SyncsHide
<1>4. MembersHidden' /\ Primaries' /\ Undoes'
  BY <1>1, <1>2 DEF Unbroken, MembersHidden, Primaries, Undoes
<1>5. QED
  BY <1>3, <1>4 DEF Unbroken

LEMMA OrphanNext == RightInv /\ RowsInv /\ OrphanInv /\ [Next]_vars => OrphanInv'
<1> SUFFICES ASSUME RightInv, RowsInv, OrphanInv, [Next]_vars, ~crossed' PROVE Unbroken'
  BY DEF OrphanInv
<1>1. CASE Next
  <2>1. ~crossed /\ ~MergeInterrupted /\ Alone' /\ Unbroken
    BY <1>1, Uncrossed DEF Next, OrphanInv
  <2>2. ASSUME FilesNext PROVE Unbroken'
    BY <2>1, <2>2, OrphansKept DEF FilesNext
  <2>3. QED
    BY <1>1, <2>1, <2>2, OrphansSync, OrphansMerge, OrphansAdmin DEF Next
<1>2. CASE UNCHANGED vars
  <2>1. UNCHANGED <<rows, members, missed, sync, merge, crossed>>
    BY <1>2 DEF vars
  <2>2. QED
    BY <2>1, OrphansKept DEF OrphanInv
<1>3. QED
  BY <1>1, <1>2

LEMMA OrphanInit == Init => OrphanInv
<1> SUFFICES ASSUME Init PROVE Unbroken
  BY DEF OrphanInv
<1>1. /\ Known = {} /\ MemberFiles = {} /\ active = {} /\ merge.at = "idle"
      /\ \A a \in Syncers : sync[a].at = "idle"
  BY DEF Init, Known, MemberFiles, ToSet, Resting, Idle
<1>2. Alone /\ Reasons /\ Forest /\ SyncsHide
  BY <1>1 DEF Alone, Reasons, Forest, SyncsHide, Hides
<1>3. MembersHidden /\ Primaries /\ Undoes
  BY <1>1 DEF MembersHidden, Primaries, Undoes
<1>4. QED
  BY <1>2, <1>3 DEF Unbroken

LEMMA OrphanSafe == OrphanInv => NoOrphans
<1> SUFFICES ASSUME Unbroken, NEW S \in (SUBSET (Known \ (active \cup missed))) \ {{}}
             PROVE  \E pair \in members : pair[2] \in S /\ pair[1] \notin S
  BY DEF OrphanInv, NoOrphans
<1>1. S \in (SUBSET MemberFiles) \ {{}}
  BY DEF Unbroken, Reasons
<1>2. merge.at # "clear"
  BY DEF Unbroken, Undoes
<1>3. QED
  BY <1>1, <1>2 DEF Unbroken, Forest

\* As long as the merge tool runs to its end and beside no sync, every row that is
\* hidden leads, over the mappings, to a device that is shown or whose file was
\* missing, for any number of files, merges and undos: the tools
\* merge_duplicate_devices.py and sync_devices.py over upsert_device(),
\* add_device_member(), set_device_active() and clear_device_members().
THEOREM NoOrphansCorrect == Spec => []NoOrphans
<1>1. Init => RightInv /\ RowsInv /\ OrphanInv
  BY RightInit, RowsInit, OrphanInit
<1>2. RightInv /\ RowsInv /\ OrphanInv /\ [Next]_vars => (RightInv /\ RowsInv /\ OrphanInv)'
  BY RightNext, RowsNext, OrphanNext
<1>3. OrphanInv => NoOrphans
  BY OrphanSafe
<1>4. QED
  BY <1>1, <1>2, <1>3, PTL DEF Spec
-----------------------------------------------------------------------------
(* The customers of the shown devices, when a sync has run to its end and     *)
(* nobody else has acted meanwhile.                                          *)

\* The files the upserts are done with, and the one they are at.
Handled(s) == s.found \ (s.todo \cup (IF s.at = "write" THEN {s.file} ELSE {}))
Current(s) == IF s.at \in {"read", "assign"} THEN {s.file} ELSE {}

\* Of two rows of one key, the one updated later has a customer, if the other has.
Rises(order, owner, S) ==
  \A f, g \in S : KeyOf[f] = KeyOf[g] /\ Ahead(order, f, g) /\ owner[f] # None => owner[g] # None

\* What is to be true of each shown row at the end.
Unruled(f, made) == \A r \in ToSet(made) : KeyOf[f] \notin r.keys
Settled(f, owner, shown, made) ==
  owner[f] = None => Unruled(f, made) /\ \A g \in shown : KeyOf[g] = KeyOf[f] => owner[g] = None

\* S is what was updated last, and f has been updated after all others.
Behind(order, known, S) == S \subseteq known /\ \A h \in S, x \in known \ S : Ahead(order, x, h)
Newly(order, known, S) == \A f \in S, x \in known : x # f => Ahead(order, x, f)

Passes(s) ==
  /\ s.at \in {"write", "read", "deactivate"} => s.pass = "upsert"
  /\ s.at \in {"next", "assign"} => s.pass \in {"upsert", "apply"}
  /\ s.at \in {"idle", "list"} => s.pass = "none"
  /\ s.at = "assign" => s.value # None

\* The upserts put the rows they are done with behind the others, and among these the
\* customers rise ...
Upserting(s, order, owner, shown, known) ==
  s.pass = "upsert" =>
    /\ s.todo \subseteq s.found
    /\ s.at \in {"write", "read", "assign"} => s.file \in s.found \ s.todo
    /\ s.at = "deactivate" => s.todo = {}
    /\ Behind(order, known, Handled(s)) /\ Newly(order, known, Current(s))
    /\ Rises(order, owner, (Handled(s) \ Current(s)) \cap shown)

\* ... so that the newest row of a key tells the pass over all shown rows whether any
\* other has a customer.
Applying(s, order, owner, shown, made) ==
  s.pass = "apply" =>
    /\ Rises(order, owner, shown) /\ s.todo \subseteq shown
    /\ \A f \in shown \ (s.todo \cup Current(s)) : Settled(f, owner, shown, made)
    /\ s.at = "assign" => s.file \in shown \ s.todo /\ ~Settled(s.file, owner, shown, made)

ToolOK(s, order, owner, shown, known, made) ==
  /\ Passes(s) /\ Upserting(s, order, owner, shown, known) /\ Applying(s, order, owner, shown, made)
  /\ s.at = "list" => Rises(order, owner, shown)
  /\ s.at = "idle" => \A f \in shown : Settled(f, owner, shown, made)
ToolNow == ToolOK(sync["tool"], recent, customer, active, Known, rules)
AssignInv == quiet => ToolNow

LEMMA ToolMoves ==
  ASSUME UNCHANGED rules, NEW t, sync'["tool"] = t, ToolOK(t, recent', customer', active', Known', rules)
  PROVE  AssignInv'
BY DEF AssignInv, ToolNow

\* ORDER BY updated_at DESC LIMIT 1: the last of S in the sequence.
LEMMA NewestIsLast ==
  ASSUME NEW T, NEW seq \in Seq(T), Distinct(seq), NEW S \in SUBSET ToSet(seq), S # {}
  PROVE  \E z \in S : Newest(seq, S) = {z} /\ \A x \in S : x # z => Ahead(seq, x, z)
<1> DEFINE I == {i \in 1 .. Len(seq) : seq[i] \in S}
           D == {Len(seq) - i : i \in I}
<1>1. DOMAIN seq = 1 .. Len(seq) /\ Len(seq) \in Nat
  OBVIOUS
<1>2. \A x \in S : \E i \in I : x = seq[i]
  BY <1>1 DEF ToSet
<1>3. PICK m \in I : \A j \in I : j <= m
  <2>1. D \in SUBSET Nat /\ D # {}
    BY <1>1, <1>2
  <2>2. PICK d \in D : \A y \in D : d <= y
    BY <2>1, LeastOfNaturals
  <2>3. PICK m \in I : d = Len(seq) - m
    BY <2>2
  <2>4. ASSUME NEW j \in I PROVE j <= m
    <3>1. Len(seq) - j \in D
      OBVIOUS
    <3>2. Len(seq) - m <= Len(seq) - j
      BY <2>2, <2>3, <3>1
    <3>3. QED
      BY <1>1, <3>2
  <2>5. QED
    BY <2>4
<1> DEFINE top == {i \in DOMAIN seq : seq[i] \in S /\ \A j \in DOMAIN seq : seq[j] \in S => j <= i}
<1>4. m \in top
  BY <1>1, <1>3
<1>5. \A i \in top : i = m
  <2> SUFFICES ASSUME NEW i \in top PROVE i = m
    OBVIOUS
  <2>1. i \in I /\ m <= i
    BY <1>1, <1>3
  <2>2. QED
    BY <1>1, <1>3, <2>1
<1>6. Newest(seq, S) = {seq[i] : i \in top}
  BY DEF Newest
<1>7. Newest(seq, S) = {seq[m]}
  BY <1>4, <1>5, <1>6
<1>8. ASSUME NEW x \in S, x # seq[m] PROVE Ahead(seq, x, seq[m])
  <2>1. PICK i \in I : x = seq[i]
    BY <1>2
  <2>2. i <= m /\ i # m
    BY <1>3, <1>8, <2>1
  <2>3. i < m
    BY <2>1, <2>2, <1>1, <1>3
  <2>4. QED
    BY <1>1, <1>3, <2>1, <2>3 DEF Ahead
<1>9. seq[m] \in S
  BY <1>3
<1>10. QED
  BY <1>7, <1>8, <1>9

LEMMA RecentRows ==
  ASSUME RowsInv
  PROVE  recent \in Seq(Files) /\ Distinct(recent) /\ ToSet(recent) = Known /\ Known \subseteq Files
<1>1. recent \in Seq(Files) /\ Distinct(recent) /\ ToSet(recent) = Known
  BY DEF RowsInv, OrderOK
<1>2. ToSet(recent) \subseteq Files
  BY <1>1 DEF ToSet
<1>3. QED
  BY <1>1, <1>2

\* No customer is found, then there is no rule, and the newest other row has none ...
LEMMA NoneFound ==
  ASSUME RightInv, RowsInv, NEW f \in Files, Decision(f) = None, customer[f] = None
  PROVE  /\ Unruled(f, rules)
         /\ SameKey(f) # {} => \E z \in SameKey(f) :
              customer[z] = None /\ \A x \in SameKey(f) : x # z => Ahead(recent, x, z)
<1>1. Inherited(f) = None /\ ByRule(f) = None
  BY DEF Decision
<1>2. ASSUME Matching(f) # {} PROVE FALSE
  <2> DEFINE M == Matching(f)
  <2>1. M \in SUBSET ToSet(rules) /\ rules \in Seq(RuleSet) /\ Distinct(rules) /\ M # {}
    BY <1>2 DEF Matching, RightInv, RightTypes, RowsInv, AccessOK
  <2>2. ByRule(f) = LET rule == Newest(rules, M)
                    IN IF rule = {} THEN None ELSE (CHOOSE r \in rule : TRUE).customer
    BY DEF ByRule
  <2> HIDE DEF M
  <2>3. PICK z \in M : Newest(rules, M) = {z}
    BY <2>1, NewestIsLast
  <2>4. (CHOOSE r \in {z} : TRUE) = z
    OBVIOUS
  <2>5. ByRule(f) = z.customer
    BY <2>2, <2>3, <2>4
  <2>6. z \in RuleSet
    BY <2>1, <2>3 DEF ToSet
  <2>7. z.customer \in Customers
    BY <2>6, FormsAssumption DEF Rule
  <2>8. QED
    BY <1>1, <2>5, <2>7, FormsAssumption
<1>3. ASSUME SameKey(f) # {}
      PROVE  \E z \in SameKey(f) : customer[z] = None /\ \A x \in SameKey(f) : x # z => Ahead(recent, x, z)
  <2> DEFINE S == SameKey(f)
  <2>1. S \in SUBSET ToSet(recent) /\ recent \in Seq(Files) /\ Distinct(recent) /\ S # {}
    BY <1>3 DEF SameKey, RowsInv, OrderOK, KnownOK
  <2>2. Inherited(f) = LET row == Newest(recent, S)
                       IN IF row = {} THEN None ELSE customer[CHOOSE g \in row : TRUE]
    BY DEF Inherited
  <2> HIDE DEF S
  <2>3. PICK z \in S : Newest(recent, S) = {z} /\ \A x \in S : x # z => Ahead(recent, x, z)
    BY <2>1, NewestIsLast
  <2>4. (CHOOSE g \in {z} : TRUE) = z
    OBVIOUS
  <2>5. customer[z] = None
    BY <1>1, <2>2, <2>3, <2>4
  <2>6. QED
    BY <2>3, <2>5 DEF S
<1>4. Unruled(f, rules)
  BY <1>2 DEF Matching, Unruled
<1>5. QED
  BY <1>3, <1>4

\* ... nor have those updated before it.
LEMMA NoneBefore ==
  ASSUME RightInv, RowsInv, NEW f \in Files, Decision(f) = None, customer[f] = None,
         NEW S \in SUBSET SameKey(f), \A h \in S, x \in SameKey(f) \ S : Ahead(recent, x, h),
         Rises(recent, customer, S)
  PROVE  Unruled(f, rules) /\ \A x \in S : customer[x] = None
<1>1. recent \in Seq(Files) /\ Distinct(recent)
  BY DEF RowsInv, OrderOK
<1>2. ASSUME NEW x \in S PROVE customer[x] = None
  <2>1. PICK z \in SameKey(f) : customer[z] = None /\ \A y \in SameKey(f) : y # z => Ahead(recent, y, z)
    BY <1>2, NoneFound
  <2>2. CASE x = z
    BY <2>1, <2>2
  <2>3. CASE x # z
    <3>1. Ahead(recent, x, z) /\ ~Ahead(recent, z, x)
      BY <1>1, <2>1, <2>3, AheadOnce
    <3>2. z \in S
      BY <3>1
    <3>3. KeyOf[x] = KeyOf[z]
      BY DEF SameKey
    <3>4. QED
      BY <2>1, <3>1, <3>2, <3>3 DEF Rises
  <2>4. QED
    BY <2>2, <2>3
<1>3. QED
  BY <1>2, NoneFound

\* A customer is found, then from a rule or from another row.
LEMMA SomeFound ==
  ASSUME NEW f, Decision(f) # None
  PROVE  /\ customer[f] = None
         /\ ~Unruled(f, rules) \/ \E g \in active : KeyOf[g] = KeyOf[f] /\ customer[g] # None
<1>1. customer[f] = None /\ (Inherited(f) # None \/ ByRule(f) # None)
  BY DEF Decision
<1>2. CASE Inherited(f) # None
  <2>1. Newest(recent, SameKey(f)) # {} /\ Inherited(f) = customer[CHOOSE g \in Newest(recent, SameKey(f)) : TRUE]
    BY <1>2 DEF Inherited
  <2>2. PICK g \in Newest(recent, SameKey(f)) : customer[g] # None
    BY <1>2, <2>1
  <2>3. g \in SameKey(f)
    BY <2>2 DEF Newest
  <2>4. QED
    BY <1>1, <2>2, <2>3 DEF SameKey
<1>3. CASE ByRule(f) # None
  <2>1. Newest(rules, Matching(f)) # {}
    BY <1>3 DEF ByRule
  <2>2. ~Unruled(f, rules)
    BY <2>1 DEF Newest, Matching, Unruled
  <2>3. QED
    BY <1>1, <2>2
<1>4. QED
  BY <1>1, <1>2, <1>3

\* A row that gets a customer is the newest one, and lets the customers rise on.
LEMMA AssignedRises ==
  ASSUME RightInv, RowsInv, NEW f \in Known, NEW v, v # None, NEW S \in SUBSET Known,
         Rises(recent, customer, S \ {f})
  PROVE  Rises(Touch(recent, f), [customer EXCEPT ![f] = v], S)
<1> DEFINE order == Touch(recent, f)
           owner == [customer EXCEPT ![f] = v]
<1>1. recent \in Seq(Files) /\ Distinct(recent) /\ ToSet(recent) = Known /\ Known \subseteq Files
  BY RecentRows
<1>2. /\ order \in Seq(Files) /\ Distinct(order)
      /\ \A g, h \in Known \ {f} : Ahead(order, g, h) <=> Ahead(recent, g, h)
      /\ \A g \in Known \ {f} : Ahead(order, g, f)
  BY <1>1, Touched
<1>3. customer \in [Files -> Customers \cup {None}]
  BY DEF RightInv, RightTypes
<1>4. owner[f] = v /\ \A g \in Files : g # f => owner[g] = customer[g]
  BY <1>1, <1>3
<1> HIDE DEF order, owner
<1>5. ASSUME NEW g \in S, NEW h \in S, KeyOf[g] = KeyOf[h], Ahead(order, g, h), owner[g] # None
      PROVE  owner[h] # None
  <2>1. CASE h = f
    BY <1>4, <2>1
  <2>2. CASE h # f /\ g = f
    <3>1. Ahead(order, h, f)
      BY <1>2, <2>2
    <3>2. QED
      BY <1>2, <1>5, <2>2, <3>1, AheadOnce
  <2>3. CASE h # f /\ g # f
    <3>1. Ahead(recent, g, h) /\ owner[g] = customer[g] /\ owner[h] = customer[h]
      BY <1>1, <1>2, <1>4, <1>5, <2>3
    <3>2. QED
      BY <1>5, <2>3, <3>1 DEF Rises
  <2>4. QED
    BY <2>1, <2>2, <2>3
<1>6. QED
  BY <1>5 DEF Rises, order, owner

LEMMA UpsertingOK ==
  ASSUME NEW t, t.pass = "upsert", t.at \in {"next", "write", "read", "assign", "deactivate"},
         t.at = "assign" => t.value # None,
         NEW order, NEW owner, NEW shown, NEW known, NEW made, Upserting(t, order, owner, shown, known)
  PROVE  ToolOK(t, order, owner, shown, known, made)
BY DEF ToolOK, Passes, Applying

LEMMA ApplyingOK ==
  ASSUME NEW t, t.pass = "apply", t.at \in {"next", "assign"}, t.at = "assign" => t.value # None,
         NEW order, NEW owner, NEW shown, NEW known, NEW made, Applying(t, order, owner, shown, made)
  PROVE  ToolOK(t, order, owner, shown, known, made)
BY DEF ToolOK, Passes, Upserting

\* The fields of a sync that has decided, or goes on with the next row.
LEMMA DecidedFields ==
  ASSUME NEW s \in SyncState, NEW f
  PROVE  LET t == Decided(s, f)
         IN /\ t.pass = s.pass /\ t.todo = s.todo \ {f} /\ t.found = s.found
            /\ Decision(f) = None => t.at = "next"
            /\ Decision(f) # None => t.at = "assign" /\ t.file = f /\ t.value = Decision(f)
<1>1. CASE Decision(f) = None
  BY <1>1, Zenon DEF Decided, NextFile, SyncState
<1>2. CASE Decision(f) # None
  BY <1>2, Zenon DEF Decided, SyncState
<1>3. QED
  BY <1>1, <1>2
LEMMA NextFileFields ==
  ASSUME NEW s \in SyncState
  PROVE  LET t == NextFile(s) IN t.at = "next" /\ t.pass = s.pass /\ t.todo = s.todo /\ t.found = s.found
BY Zenon DEF NextFile, SyncState

\* What the invariants say when the tool takes a step.
LEMMA ToolFacts ==
  ASSUME RightInv, RowsInv, SyncNext("tool")
  PROVE  /\ sync["tool"] \in SyncState /\ UNCHANGED rules
         /\ \A t : sync' = [sync EXCEPT !["tool"] = t] => sync'["tool"] = t
         /\ recent \in Seq(Files) /\ Distinct(recent) /\ ToSet(recent) = Known
         /\ Known \subseteq Files /\ active \subseteq Known
         /\ customer \in [Files -> Customers \cup {None}]
<1>1. sync \in [Syncers -> SyncState] /\ "tool" \in Syncers /\ customer \in [Files -> Customers \cup {None}]
  BY DEF RightInv, RightTypes, Syncers
<1>2. UNCHANGED rules
  BY DEF SyncNext, access
<1>3. /\ recent \in Seq(Files) /\ Distinct(recent) /\ ToSet(recent) = Known
      /\ Known \subseteq Files /\ active \subseteq Known
  BY RecentRows DEF RowsInv, KnownOK
<1>4. QED
  BY <1>1, <1>2, <1>3

LEMMA ToolDiscovers ==
  ASSUME RightInv, RowsInv, SyncNext("tool"), Discover("tool")
  PROVE  AssignInv'
<1>1. PICK unreadable :
        sync' = [sync EXCEPT !["tool"] = [Idle EXCEPT
          !.at = "next", !.pass = "upsert",
          !.todo = OnDisk \ unreadable,
          !.found = IF "tool" = "tool" THEN OnDisk \ unreadable ELSE {}]]
  BY Zenon DEF Discover
<1> DEFINE seen == OnDisk \ unreadable
           t == [Idle EXCEPT !.at = "next", !.pass = "upsert", !.todo = seen, !.found = seen]
<1>2. t.at = "next" /\ t.pass = "upsert" /\ t.todo = seen /\ t.found = seen
  BY RestingSyncs, Zenon DEF SyncState
<1>3. sync'["tool"] = t
  BY <1>1, ToolFacts
<1> HIDE DEF t, seen
<1>4. Handled(t) = {} /\ Current(t) = {}
  BY <1>2 DEF Handled, Current
<1>5. Upserting(t, recent', customer', active', Known')
  BY <1>2, <1>4 DEF Upserting, Behind, Newly, Rises
<1>6. ToolOK(t, recent', customer', active', Known', rules)
  BY <1>2, <1>5, UpsertingOK
<1>7. QED
  BY <1>3, <1>6, ToolFacts, ToolMoves

LEMMA ToolLooksUp ==
  ASSUME RightInv, RowsInv, ToolNow, SyncNext("tool"), LookUp("tool")
  PROVE  AssignInv'
<1> DEFINE s == sync["tool"]
<1>1. PICK f \in s.todo : /\ s.at = "next" /\ s.pass = "upsert" /\ sync' = [sync EXCEPT !["tool"] = LookedUp(s, f)]
                          /\ UNCHANGED <<ids, recent, active, customer>>
  BY DEF LookUp, rows
<1> DEFINE t == LookedUp(s, f)
<1>2. s \in SyncState /\ sync'["tool"] = t
  BY <1>1, ToolFacts
<1>3. t.at = "write" /\ t.todo = s.todo \ {f} /\ t.file = f /\ t.pass = s.pass /\ t.found = s.found
  BY <1>2, Zenon DEF LookedUp, SyncState
<1>4. Upserting(s, recent, customer, active, Known)
  BY DEF ToolNow, ToolOK
<1> HIDE DEF s, t
<1>5. Handled(t) = Handled(s) /\ Current(t) = {} /\ Current(s) = {} /\ Known' = Known
  BY <1>1, <1>3 DEF Handled, Current, Known
<1>6. Upserting(t, recent', customer', active', Known')
  BY <1>1, <1>3, <1>4, <1>5 DEF Upserting
<1>7. ToolOK(t, recent', customer', active', Known', rules)
  BY <1>1, <1>3, <1>6, UpsertingOK
<1>8. QED
  BY <1>2, <1>7, ToolFacts, ToolMoves

LEMMA ToolWrites ==
  ASSUME RightInv, RowsInv, ToolNow, SyncNext("tool"), WriteRow("tool")
  PROVE  AssignInv'
<1> DEFINE s == sync["tool"]
           f == s.file
           t == [s EXCEPT !.at = "read", !.row = "none"]
<1>1. /\ s.at = "write" /\ recent' = Touch(recent, f) /\ customer' = customer
      /\ active' = (IF s.row = "hide" THEN active \ {f} ELSE active \cup {f})
      /\ sync' = [sync EXCEPT !["tool"] = t]
  BY DEF WriteRow
<1>2. s \in SyncState /\ sync'["tool"] = t
  BY <1>1, ToolFacts
<1>3. t.at = "read" /\ t.todo = s.todo /\ t.file = f /\ t.pass = s.pass /\ t.found = s.found
  BY <1>2, Zenon DEF SyncState
<1>4. Upserting(s, recent, customer, active, Known) /\ s.pass = "upsert"
  BY <1>1 DEF ToolNow, ToolOK, Passes
<1>5. f \in Files /\ (s.row = "new" => f \notin Known) /\ (s.row # "new" => f \in Known)
      /\ ids' = IF s.row = "new" THEN Append(ids, f) ELSE ids
  BY <1>1, SyncerType DEF WriteRow, HasFile, Rowed, Syncers
<1> HIDE DEF s, t, f
<1>6. Known' = Known \cup {f}
  <2> DEFINE new == s.row = "new"
  <2>1. new \in BOOLEAN /\ (new => f \notin Known) /\ (~new => f \in Known)
        /\ ids' = IF new THEN Append(ids, f) ELSE ids
    BY <1>5
  <2>2. OrderOK
    BY DEF RowsInv
  <2> HIDE DEF new
  <2>3. QED
    BY <1>5, <2>1, <2>2, WrittenIds
<1>7. s.todo \subseteq s.found /\ f \in s.found \ s.todo /\ Behind(recent, Known, Handled(s))
      /\ Rises(recent, customer, (Handled(s) \ Current(s)) \cap active)
  BY <1>1, <1>4 DEF Upserting, f
<1>8. Handled(s) = (s.found \ s.todo) \ {f} /\ Handled(t) = s.found \ s.todo /\ Current(s) = {} /\ Current(t) = {f}
  BY <1>1, <1>3 DEF Handled, Current, f
<1>9. /\ \A g, h \in Known \ {f} : Ahead(recent', g, h) <=> Ahead(recent, g, h)
      /\ \A g \in Known \ {f} : Ahead(recent', g, f)
  BY <1>1, <1>5, ToolFacts, Touched
<1>10. Behind(recent', Known', Handled(t))
  BY <1>6, <1>7, <1>8, <1>9 DEF Behind
<1>11. Newly(recent', Known', Current(t))
  BY <1>6, <1>8, <1>9 DEF Newly
<1>12. Rises(recent', customer', (Handled(t) \ Current(t)) \cap active')
  <2>1. (Handled(t) \ Current(t)) \cap active' \subseteq ((Handled(s) \ Current(s)) \cap active) \ {f}
    BY <1>1, <1>8
  <2>2. (Handled(s) \ Current(s)) \cap active \subseteq Known
    BY <1>7 DEF Behind
  <2>3. QED
    BY <1>1, <1>7, <1>9, <2>1, <2>2 DEF Rises
<1>13. Upserting(t, recent', customer', active', Known')
  BY <1>3, <1>7, <1>10, <1>11, <1>12 DEF Upserting
<1>14. ToolOK(t, recent', customer', active', Known', rules)
  BY <1>3, <1>4, <1>13, UpsertingOK
<1>15. QED
  BY <1>2, <1>14, ToolFacts, ToolMoves

LEMMA ToolDecides ==
  ASSUME RightInv, RowsInv, ToolNow, SyncNext("tool"), Decide("tool")
  PROVE  AssignInv'
<1> DEFINE s == sync["tool"]
           f == s.file
           t == Decided(s, f)
<1>1. s.at = "read" /\ sync' = [sync EXCEPT !["tool"] = t] /\ UNCHANGED <<ids, recent, active, customer>>
  BY DEF Decide, rows
<1>2. s \in SyncState /\ sync'["tool"] = t
  BY <1>1, ToolFacts
<1>3. /\ t.pass = s.pass /\ t.todo = s.todo \ {f} /\ t.found = s.found
      /\ Decision(f) = None => t.at = "next"
      /\ Decision(f) # None => t.at = "assign" /\ t.file = f /\ t.value = Decision(f)
  BY <1>2, DecidedFields
<1>4. Upserting(s, recent, customer, active, Known) /\ s.pass = "upsert"
  BY <1>1 DEF ToolNow, ToolOK, Passes
<1>5. f \in Files
  BY <1>1 DEF RightInv, SyncsGiven, HasFile, Syncers
<1> HIDE DEF s, t
<1>6. /\ s.todo \subseteq s.found /\ f \in s.found \ s.todo
      /\ Behind(recent, Known, Handled(s)) /\ Newly(recent, Known, Current(s))
      /\ Rises(recent, customer, (Handled(s) \ Current(s)) \cap active)
  BY <1>1, <1>4 DEF Upserting
<1> HIDE DEF f
<1>7. Known' = Known /\ Current(s) = {f} /\ Handled(s) = s.found \ s.todo /\ t.todo = s.todo
  BY <1>1, <1>3, <1>6 DEF Known, Handled, Current, f
<1>8. CASE Decision(f) # None
  <2>1. Handled(t) = Handled(s) /\ Current(t) = Current(s)
    BY <1>3, <1>7, <1>8 DEF Handled, Current
  <2>2. Upserting(t, recent', customer', active', Known')
    BY <1>1, <1>3, <1>6, <1>7, <1>8, <2>1 DEF Upserting
  <2>3. ToolOK(t, recent', customer', active', Known', rules)
    BY <1>3, <1>4, <1>8, <2>2, UpsertingOK
  <2>4. QED
    BY <1>2, <2>3, ToolFacts, ToolMoves
<1>9. CASE Decision(f) = None
  <2>1. Handled(t) = Handled(s) /\ Current(t) = {}
    BY <1>3, <1>7, <1>9 DEF Handled, Current
  <2> DEFINE H == (Handled(s) \ {f}) \cap active
             S == SameKey(f) \cap H
  <2>2. ASSUME customer[f] = None PROVE \A x \in S : customer[x] = None
    <3>1. S \in SUBSET SameKey(f)
      OBVIOUS
    <3>2. \A h \in S, x \in SameKey(f) \ S : Ahead(recent, x, h)
      <4>1. \A x \in SameKey(f) \ S : x \in Known \ Handled(s)
        BY ToolFacts DEF SameKey
      <4>2. QED
        BY <1>6, <4>1 DEF Behind
    <3>3. Rises(recent, customer, S)
      BY <1>6, <1>7 DEF Rises
    <3> HIDE DEF S
    <3>4. QED
      BY <1>5, <1>9, <2>2, <3>1, <3>2, <3>3, NoneBefore
  <2>3. \A x \in Known : x # f => Ahead(recent, x, f) /\ ~Ahead(recent, f, x)
    <3>1. \A x \in Known : x # f => Ahead(recent, x, f)
      BY <1>6, <1>7 DEF Newly
    <3>2. QED
      BY <3>1, ToolFacts, AheadOnce
  <2>4. ~Ahead(recent, f, f)
    BY ToolFacts, AheadOnce
  <2>5. Rises(recent, customer, Handled(s) \cap active)
    <3>1. ASSUME NEW g \in Handled(s) \cap active, NEW h \in Handled(s) \cap active,
                 KeyOf[g] = KeyOf[h], Ahead(recent, g, h), customer[g] # None
          PROVE  customer[h] # None
      <4>1. g \in Known /\ h \in Known
        BY ToolFacts
      <4>2. g # f
        BY <2>3, <2>4, <3>1, <4>1
      <4>3. CASE h = f
        <5>1. g \in S
          BY <3>1, <4>2, <4>3 DEF SameKey
        <5>2. QED
          BY <2>2, <3>1, <4>3, <5>1
      <4>4. CASE h # f
        BY <1>6, <1>7, <3>1, <4>2, <4>4 DEF Rises
      <4>5. QED
        BY <4>3, <4>4
    <3>2. QED
      BY <3>1 DEF Rises
  <2>6. Upserting(t, recent', customer', active', Known')
    <3>1. Rises(recent', customer', (Handled(t) \ Current(t)) \cap active')
      <4>1. (Handled(t) \ Current(t)) \cap active = Handled(s) \cap active
        BY <2>1
      <4>2. QED
        BY <1>1, <2>5, <4>1
    <3>2. Newly(recent', Known', Current(t)) /\ Behind(recent', Known', Handled(t))
      BY <1>1, <1>6, <1>7, <2>1 DEF Newly
    <3>3. QED
      BY <1>3, <1>6, <1>7, <1>9, <3>1, <3>2 DEF Upserting
  <2>7. ToolOK(t, recent', customer', active', Known', rules)
    BY <1>3, <1>4, <1>9, <2>6, UpsertingOK
  <2>8. QED
    BY <1>2, <2>7, ToolFacts, ToolMoves
<1>10. QED
  BY <1>8, <1>9

\* A customer is written, in either pass.
LEMMA ToolAssigns ==
  ASSUME RightInv, RowsInv, ToolNow, SyncNext("tool"), Assign("tool")
  PROVE  AssignInv'
<1> DEFINE s == sync["tool"]
           f == s.file
           v == s.value
           t == NextFile(s)
<1>1. /\ s.at = "assign" /\ customer' = [customer EXCEPT ![f] = v] /\ recent' = Touch(recent, f)
      /\ sync' = [sync EXCEPT !["tool"] = t] /\ UNCHANGED <<ids, active>>
  BY DEF Assign
<1>2. s \in SyncState /\ sync'["tool"] = t
  BY <1>1, ToolFacts
<1>3. t.at = "next" /\ t.pass = s.pass /\ t.todo = s.todo /\ t.found = s.found
  BY <1>2, NextFileFields
<1>4. /\ Upserting(s, recent, customer, active, Known) /\ Applying(s, recent, customer, active, rules)
      /\ s.pass \in {"upsert", "apply"} /\ v # None
  BY <1>1 DEF ToolNow, ToolOK, Passes
<1>5. f \in Known
  BY <1>1 DEF RowsInv, SyncRows, Rowed, Syncers
<1>6. f \in Files
  BY <1>5, ToolFacts
<1> HIDE DEF s, t, v
<1>7. Current(s) = {f} /\ Handled(s) = s.found \ s.todo /\ Handled(t) = Handled(s) /\ Current(t) = {}
      /\ Known' = Known
  BY <1>1, <1>3 DEF Known, Handled, Current
<1>8. /\ \A g, h \in Known \ {f} : Ahead(recent', g, h) <=> Ahead(recent, g, h)
      /\ \A g \in Known \ {f} : Ahead(recent', g, f)
  BY <1>1, <1>6, ToolFacts, Touched
<1>9. CASE s.pass = "upsert"
  <2>1. /\ s.todo \subseteq s.found /\ f \in s.found \ s.todo /\ Behind(recent, Known, Handled(s))
        /\ Rises(recent, customer, (Handled(s) \ Current(s)) \cap active)
    BY <1>1, <1>4, <1>9 DEF Upserting
  <2> HIDE DEF f
  <2> DEFINE S == Handled(s) \cap active
  <2>2. S \in SUBSET Known /\ Rises(recent, customer, S \ {f})
    <3>1. (Handled(s) \ Current(s)) \cap active = S \ {f}
      BY <1>7
    <3>2. QED
      BY <2>1, <3>1, ToolFacts
  <2> HIDE DEF S
  <2>3. Rises(recent', customer', S)
    BY <1>1, <1>4, <1>5, <2>2, AssignedRises
  <2>4. Behind(recent', Known', Handled(t))
    BY <1>7, <1>8, <2>1 DEF Behind
  <2>5. Rises(recent', customer', (Handled(t) \ Current(t)) \cap active')
    <3>1. (Handled(t) \ Current(t)) \cap active' = S
      BY <1>1, <1>7 DEF S
    <3>2. QED
      BY <2>3, <3>1
  <2>6. Upserting(t, recent', customer', active', Known')
    BY <1>3, <1>7, <2>1, <2>4, <2>5 DEF Upserting, Newly
  <2>7. ToolOK(t, recent', customer', active', Known', rules)
    BY <1>3, <1>9, <2>6, UpsertingOK
  <2>8. QED
    BY <1>2, <2>7, ToolFacts, ToolMoves
<1>10. CASE s.pass = "apply"
  <2>1. /\ Rises(recent, customer, active) /\ s.todo \subseteq active
        /\ \A h \in active \ (s.todo \cup {f}) : Settled(h, customer, active, rules)
        /\ f \in active \ s.todo /\ ~Settled(f, customer, active, rules)
    BY <1>1, <1>4, <1>7, <1>10 DEF Applying
  <2> HIDE DEF f
  <2>2. Rises(recent', customer', active)
    <3>1. active \in SUBSET Known /\ Rises(recent, customer, active \ {f})
      BY <2>1, ToolFacts DEF Rises
    <3>2. QED
      BY <1>1, <1>4, <1>5, <3>1, AssignedRises
  <2>3. customer'[f] # None /\ \A g \in Files : g # f => customer'[g] = customer[g]
    BY <1>1, <1>4, <1>6, ToolFacts
  <2>4. active \subseteq Files
    BY ToolFacts
  <2>5. ASSUME NEW h \in active \ s.todo PROVE Settled(h, customer', active, rules)
    <3>1. CASE h = f
      BY <2>3, <3>1 DEF Settled
    <3>2. CASE h # f /\ customer[h] # None
      BY <2>3, <2>4, <3>2 DEF Settled
    <3>3. CASE h # f /\ customer[h] = None
      <4>1. Unruled(h, rules) /\ \A g \in active : KeyOf[g] = KeyOf[h] => customer[g] = None
        BY <2>1, <3>3 DEF Settled
      <4>2. KeyOf[h] # KeyOf[f]
        <5>1. ASSUME KeyOf[h] = KeyOf[f] PROVE Settled(f, customer, active, rules)
          <6>1. Unruled(f, rules)
            BY <4>1, <5>1 DEF Unruled
          <6>2. QED
            BY <4>1, <5>1, <6>1 DEF Settled
        <5>2. QED
          BY <2>1, <5>1
      <4>3. \A g \in active : KeyOf[g] = KeyOf[h] => customer'[g] = None
        BY <2>3, <2>4, <4>1, <4>2
      <4>4. QED
        BY <4>1, <4>3 DEF Settled
    <3>4. QED
      BY <3>1, <3>2, <3>3
  <2>6. Applying(t, recent', customer', active', rules)
    <3>1. \A h \in active' \ (t.todo \cup Current(t)) : Settled(h, customer', active', rules)
      BY <1>1, <1>3, <1>7, <2>5
    <3>2. QED
      BY <1>1, <1>3, <2>1, <2>2, <3>1 DEF Applying
  <2>7. ToolOK(t, recent', customer', active', Known', rules)
    BY <1>3, <1>10, <2>6, ApplyingOK
  <2>8. QED
    BY <1>2, <2>7, ToolFacts, ToolMoves
<1>11. QED
  BY <1>4, <1>9, <1>10

LEMMA ToolEndsPass ==
  ASSUME RightInv, RowsInv, ToolNow, SyncNext("tool"), EndPass("tool")
  PROVE  AssignInv'
<1> DEFINE s == sync["tool"]
           upserts == s.pass = "upsert"
           more == [s EXCEPT !.at = "deactivate"]
           t == IF upserts THEN more ELSE Idle
<1>1. /\ s.at = "next" /\ s.todo = {} /\ sync' = [sync EXCEPT !["tool"] = t]
      /\ UNCHANGED <<ids, recent, active, customer>>
  BY DEF EndPass, rows
<1>2. s \in SyncState /\ sync'["tool"] = t
  BY <1>1, ToolFacts
<1>3. more.at = "deactivate" /\ more.todo = s.todo /\ more.pass = s.pass /\ more.found = s.found
  BY <1>2, Zenon DEF SyncState
<1>4. /\ Upserting(s, recent, customer, active, Known) /\ Applying(s, recent, customer, active, rules)
      /\ s.pass \in {"upsert", "apply"}
  BY <1>1 DEF ToolNow, ToolOK, Passes
<1> HIDE DEF s, more
<1>5. Known' = Known
  BY <1>1 DEF Known
<1>6. CASE upserts
  <2>1. t = more
    BY <1>6
  <2>2. Handled(more) = Handled(s) /\ Current(more) = {} /\ Current(s) = {}
    BY <1>1, <1>3 DEF Handled, Current
  <2>3. Upserting(more, recent', customer', active', Known')
    BY <1>1, <1>3, <1>4, <1>5, <1>6, <2>2 DEF Upserting
  <2>4. ToolOK(more, recent', customer', active', Known', rules)
    BY <1>3, <1>6, <2>3, UpsertingOK
  <2>5. QED
    BY <1>2, <2>1, <2>4, ToolFacts, ToolMoves
<1>7. CASE ~upserts
  <2>1. t = Idle /\ s.pass = "apply" /\ Current(s) = {}
    BY <1>1, <1>4, <1>7 DEF Current
  <2>2. \A f \in active : Settled(f, customer, active, rules)
    BY <1>1, <1>4, <2>1 DEF Applying
  <2>3. ToolOK(Idle, recent', customer', active', Known', rules)
    BY <1>1, <2>2 DEF ToolOK, Idle, Passes, Upserting, Applying
  <2>4. QED
    BY <1>2, <2>1, <2>3, ToolFacts, ToolMoves
<1>8. QED
  BY <1>6, <1>7

LEMMA ToolDeactivates ==
  ASSUME RightInv, RowsInv, ToolNow, SyncNext("tool"), DeactivateMissing
  PROVE  AssignInv'
<1> DEFINE s == sync["tool"]
           missing == active \ s.found
           t == [Idle EXCEPT !.at = "list"]
<1>1. /\ s.at = "deactivate" /\ active' = active \ missing
      /\ recent' = Only(recent, Files \ missing) \o Only(ids, missing)
      /\ sync' = [sync EXCEPT !["tool"] = t] /\ UNCHANGED <<ids, customer>>
  BY DEF DeactivateMissing
<1>2. sync'["tool"] = t
  BY <1>1, ToolFacts
<1>3. t.at = "list" /\ t.pass = "none"
  BY RestingSyncs DEF SyncState, Idle
<1>4. Upserting(s, recent, customer, active, Known) /\ s.pass = "upsert"
  BY <1>1 DEF ToolNow, ToolOK, Passes
<1> HIDE DEF s, t
<1>5. Handled(s) = s.found /\ Current(s) = {} /\ Rises(recent, customer, (Handled(s) \ Current(s)) \cap active)
  BY <1>1, <1>4 DEF Upserting, Handled, Current
<1>6. Rises(recent, customer, active')
  BY <1>1, <1>5 DEF Rises
<1>7. active' \subseteq ToSet(recent) \ missing
  BY <1>1, ToolFacts
<1> HIDE DEF missing
<1>8. \A g, h \in ToSet(recent) \ missing : Ahead(recent', g, h) <=> Ahead(recent, g, h)
  <2>1. ids \in Seq(Files) /\ Distinct(ids) /\ ToSet(ids) = ToSet(recent)
    BY DEF RowsInv, OrderOK, Known
  <2>2. QED
    BY <1>1, <2>1, ToolFacts, Sunk
<1>9. Rises(recent', customer', active')
  BY <1>1, <1>6, <1>7, <1>8 DEF Rises
<1>10. ToolOK(t, recent', customer', active', Known', rules)
  BY <1>3, <1>9 DEF ToolOK, Passes, Upserting, Applying
<1>11. QED
  BY <1>2, <1>10, ToolFacts, ToolMoves

LEMMA ToolLists ==
  ASSUME RightInv, RowsInv, ToolNow, SyncNext("tool"), ListActive("tool")
  PROVE  AssignInv'
<1> DEFINE s == sync["tool"]
           t == [s EXCEPT !.at = "next", !.pass = "apply", !.todo = active]
<1>1. s.at = "list" /\ sync' = [sync EXCEPT !["tool"] = t] /\ UNCHANGED <<ids, recent, active, customer>>
  BY DEF ListActive, rows
<1>2. s \in SyncState /\ sync'["tool"] = t
  BY <1>1, ToolFacts
<1>3. t.at = "next" /\ t.pass = "apply" /\ t.todo = active
  BY <1>2, Zenon DEF SyncState
<1>4. Rises(recent, customer, active)
  BY <1>1 DEF ToolNow, ToolOK
<1> HIDE DEF s, t
<1>5. Applying(t, recent', customer', active', rules)
  BY <1>1, <1>3, <1>4 DEF Applying
<1>6. ToolOK(t, recent', customer', active', Known', rules)
  BY <1>3, <1>5, ApplyingOK
<1>7. QED
  BY <1>2, <1>6, ToolFacts, ToolMoves

LEMMA ToolApplies ==
  ASSUME RightInv, RowsInv, ToolNow, SyncNext("tool"), ApplyNext("tool")
  PROVE  AssignInv'
<1> DEFINE s == sync["tool"]
<1>1. PICK f \in s.todo : /\ s.at = "next" /\ s.pass = "apply" /\ sync' = [sync EXCEPT !["tool"] = Decided(s, f)]
                          /\ UNCHANGED <<ids, recent, active, customer>>
  BY DEF ApplyNext, rows
<1> DEFINE t == Decided(s, f)
<1>2. s \in SyncState /\ sync'["tool"] = t
  BY <1>1, ToolFacts
<1>3. /\ t.pass = s.pass /\ t.todo = s.todo \ {f} /\ t.found = s.found
      /\ Decision(f) = None => t.at = "next"
      /\ Decision(f) # None => t.at = "assign" /\ t.file = f /\ t.value = Decision(f)
  BY <1>2, DecidedFields
<1>4. Applying(s, recent, customer, active, rules)
  BY DEF ToolNow, ToolOK
<1> HIDE DEF s, t
<1>5. /\ Rises(recent, customer, active) /\ s.todo \subseteq active
      /\ \A h \in active \ s.todo : Settled(h, customer, active, rules)
  BY <1>1, <1>4 DEF Applying, Current
<1>6. f \in active /\ f \in Files /\ active \subseteq Known
  BY <1>5, ToolFacts
<1>7. CASE Decision(f) # None
  <2>1. ~Settled(f, customer, active, rules)
    BY <1>7, SomeFound DEF Settled
  <2>2. \A h \in active \ (t.todo \cup Current(t)) : Settled(h, customer, active, rules)
    BY <1>3, <1>5, <1>7 DEF Current
  <2>3. Applying(t, recent', customer', active', rules)
    BY <1>1, <1>3, <1>5, <1>6, <1>7, <2>1, <2>2 DEF Applying
  <2>4. ToolOK(t, recent', customer', active', Known', rules)
    BY <1>1, <1>3, <1>7, <2>3, ApplyingOK
  <2>5. QED
    BY <1>2, <2>4, ToolFacts, ToolMoves
<1>8. CASE Decision(f) = None
  <2>1. Settled(f, customer, active, rules)
    <3>1. CASE customer[f] # None
      BY <3>1 DEF Settled
    <3>2. CASE customer[f] = None
      <4> DEFINE S == SameKey(f)
      <4>1. S \in SUBSET SameKey(f) /\ \A h \in S, x \in SameKey(f) \ S : Ahead(recent, x, h)
        OBVIOUS
      <4>2. Rises(recent, customer, S)
        BY <1>5 DEF Rises, SameKey
      <4> HIDE DEF S
      <4>3. Unruled(f, rules) /\ \A x \in S : customer[x] = None
        BY <1>6, <1>8, <3>2, <4>1, <4>2, NoneBefore
      <4>4. \A g \in active : KeyOf[g] = KeyOf[f] => g \in S \/ g = f
        BY DEF S, SameKey
      <4>5. QED
        BY <3>2, <4>3, <4>4 DEF Settled
    <3>3. QED
      BY <3>1, <3>2
  <2>2. \A h \in active \ (t.todo \cup Current(t)) : Settled(h, customer, active, rules)
    BY <1>3, <1>5, <1>8, <2>1 DEF Current
  <2>3. Applying(t, recent', customer', active', rules)
    BY <1>1, <1>3, <1>5, <1>8, <2>2 DEF Applying
  <2>4. ToolOK(t, recent', customer', active', Known', rules)
    BY <1>1, <1>3, <1>8, <2>3, ApplyingOK
  <2>5. QED
    BY <1>2, <2>4, ToolFacts, ToolMoves
<1>9. QED
  BY <1>7, <1>8

LEMMA AssignNext == RightInv /\ RowsInv /\ AssignInv /\ [Next]_vars => AssignInv'
<1> SUFFICES ASSUME RightInv, RowsInv, AssignInv, [Next]_vars, quiet' PROVE AssignInv'
  BY DEF AssignInv
<1>1. CASE SyncNext("tool")
  <2>1. SyncStep("tool") /\ (sync["tool"].at = "idle" \/ quiet)
    BY <1>1 DEF SyncNext
  <2>2. CASE Discover("tool")
    BY <1>1, <2>2, ToolDiscovers
  <2>3. CASE ~Discover("tool")
    <3>1. sync["tool"].at # "idle"
      BY <2>1, <2>3 DEF SyncStep, LookUp, WriteRow, Decide, Assign, EndPass, DeactivateMissing, ListActive, ApplyNext
    <3>2. ToolNow
      BY <2>1, <3>1 DEF AssignInv
    <3>3. QED
      BY <1>1, <2>1, <2>3, <3>2, ToolLooksUp, ToolWrites, ToolDecides, ToolAssigns, ToolEndsPass,
         ToolDeactivates, ToolLists, ToolApplies DEF SyncStep
  <2>4. QED
    BY <2>2, <2>3
<1>2. ASSUME UNCHANGED <<ids, recent, active, customer, rules, sync, quiet>> PROVE AssignInv'
  <2>1. ToolOK(sync["tool"], recent', customer', active', Known', rules)
    <3>1. Known' = Known
      BY <1>2 DEF Known
    <3>2. QED
      BY <1>2, <3>1 DEF AssignInv, ToolNow
  <2>2. QED
    BY <1>2, <2>1, ToolMoves
<1>3. CASE FilesNext
  BY <1>2, <1>3 DEF FilesNext, rows, access
<1>4. CASE UNCHANGED vars
  BY <1>2, <1>4 DEF vars, rows, access
<1>5. CASE MergeNext \/ AdminNext
  BY <1>5 DEF MergeNext, AdminNext
<1>6. ASSUME NEW a \in Syncers, a # "tool", SyncNext(a) PROVE FALSE
  BY <1>6 DEF SyncNext
<1>7. QED
  BY <1>1, <1>3, <1>4, <1>5, <1>6 DEF Next

\* When a sync of sync_devices.py has run to its end undisturbed, every shown device
\* has the customer that a rule for its key or another shown device with its key
\* gives, for any number of devices, keys and rules, whatever the order of the
\* rows: upsert_device(), deactivate_missing_receiver_devices() and
\* apply_customer_device_rules_to_existing().
THEOREM SyncAssignsCorrect == Spec => []SyncAssigns
<1>1. Init => RightInv /\ RowsInv /\ AssignInv
  BY RightInit, RowsInit DEF Init, AssignInv
<1>2. RightInv /\ RowsInv /\ AssignInv /\ [Next]_vars => (RightInv /\ RowsInv /\ AssignInv)'
  BY RightNext, RowsNext, AssignNext
<1>3. AssignInv => SyncAssigns
  <2>1. \A f : Unruled(f, rules) => Matching(f) = {}
    BY DEF Unruled, Matching
  <2>2. QED
    BY <2>1 DEF AssignInv, ToolNow, ToolOK, Settled, SyncAssigns
<1>4. QED
  BY <1>1, <1>2, <1>3, PTL DEF Spec
=============================================================================
