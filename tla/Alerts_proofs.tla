--------------------------- MODULE Alerts_proofs ---------------------------
(***************************************************************************)
(* Proofs about Alerts, for any devices, components, thresholds and periods *)
(* of silence, any clock and any number of checks, faults and kills.        *)
(***************************************************************************)
EXTENDS Alerts, TLAPS, SequenceTheorems, FiniteSetTheorems

TestNames == {Tests[i] : i \in DOMAIN Tests}
CheckState ==
  [at : {"idle", "next", "test", "update", "insert", "mail", "mark"}, todo : SUBSET Devices,
   device : Devices \cup {Never}, tests : Seq(TestNames), bad : SUBSET Fingerprints]
Times == (0 .. MaxTime) \cup {Never}

\* A checker that is testing has a device and a test, ...
Busy(s) == s.at \notin {"idle", "next"}
CurrentOf(s) == <<s.device, Head(s.tests)>>
Testable(s) == Busy(s) => s.device \in Devices /\ s.tests # << >>

\* ... and one that has found the row of a fingerprint does not lose it.
Found(s, table_rows) == s.at \in {"update", "mail", "mark"} => CurrentOf(s) \in table_rows

\* The strengthening of AlertsTypeOK.
ClockOK == now \in 0 .. MaxTime
WorldOK == last \in [Devices -> [Channels -> Times]] /\ listed \subseteq Devices
TableOK ==
  /\ alerts \in Seq(Fingerprints) /\ IsFiniteSet(Rows) /\ Len(alerts) = Cardinality(Rows)
  /\ open \subseteq Rows /\ acked \subseteq Rows /\ unmarked \subseteq Rows
  /\ sentAt \in [Fingerprints -> Times]
ChecksOK ==
  /\ check \in [Checkers -> CheckState]
  /\ \A a \in Checkers : Testable(check[a]) /\ Found(check[a], Rows)
AlertsInv == ClockOK /\ WorldOK /\ TableOK /\ ChecksOK
-----------------------------------------------------------------------------
(* The states of a checker. *)

\* The names of the tests.
LEMMA TestsType == Tests \in Seq(TestNames) /\ Tests # << >>
<1>1. Tests \in Seq({"offline"} \cup Channels) /\ Len(Tests) = Len(Expected) + 1 /\ Len(Expected) \in Nat
  BY ChannelsAssumption DEF Tests
<1>2. \A i \in 1 .. Len(Tests) : Tests[i] \in TestNames
  BY <1>1 DEF TestNames
<1>3. Tests \in Seq(TestNames)
  BY <1>1, <1>2
<1>4. QED
  BY <1>1, <1>3

\* The test at hand has a fingerprint.
LEMMA CurrentType ==
  ASSUME NEW s \in CheckState, Testable(s), Busy(s)
  PROVE  CurrentOf(s) \in Fingerprints
<1>1. s.device \in Devices /\ s.tests \in Seq(TestNames) /\ s.tests # << >>
  BY DEF Testable, CheckState
<1>2. Head(s.tests) \in TestNames
  BY <1>1
<1>3. QED
  BY <1>1, <1>2 DEF CurrentOf, Fingerprints, TestNames

\* A checker at rest, and one that goes on to the next device.
LEMMA RestingState == Resting \in CheckState /\ ~Busy(Resting)
<1>1. Resting \in CheckState
  BY Zenon, EmptySeq DEF Resting, CheckState
<1>2. QED
  BY <1>1 DEF Resting, Busy

LEMMA NextDeviceState ==
  ASSUME NEW s \in CheckState
  PROVE  NextDevice(s) \in CheckState /\ ~Busy(NextDevice(s))
<1>1. << >> \in Seq(TestNames) /\ {} \in SUBSET Fingerprints
  OBVIOUS
<1>2. NextDevice(s) \in CheckState
  BY <1>1, Zenon DEF NextDevice, CheckState
<1>3. NextDevice(s).at = "next"
  BY Zenon DEF NextDevice, CheckState
<1>4. QED
  BY <1>2, <1>3 DEF Busy

\* The next test, or the next device behind the last test.
LEMMA NextTestState ==
  ASSUME NEW s \in CheckState, Testable(s), Busy(s)
  PROVE  /\ NextTest(s) \in CheckState /\ Testable(NextTest(s))
         /\ NextTest(s).at \notin {"update", "mail", "mark"}
<1>1. CASE Len(s.tests) = 1
  <2>1. NextTest(s) = NextDevice(s)
    BY <1>1 DEF NextTest
  <2>2. QED
    BY <2>1, NextDeviceState DEF Busy, Testable
<1>2. CASE Len(s.tests) # 1
  <2> DEFINE t == [s EXCEPT !.at = "test", !.tests = Tail(@)]
  <2>1. s.tests \in Seq(TestNames) /\ s.tests # << >> /\ s.device \in Devices
    BY DEF Testable, CheckState
  <2>2. Tail(s.tests) \in Seq(TestNames) /\ Tail(s.tests) # << >>
    <3>1. Len(s.tests) \in Nat /\ Len(s.tests) # 0
      BY <2>1
    <3>2. Tail(s.tests) \in Seq(TestNames) /\ Len(Tail(s.tests)) = Len(s.tests) - 1
      BY <2>1
    <3>3. Len(<< >>) = 0
      OBVIOUS
    <3>4. Len(Tail(s.tests)) # 0
      BY <1>2, <3>1, <3>2
    <3> DEFINE rest == Tail(s.tests)
    <3>5. rest # << >>
      <4>1. Len(rest) # 0 /\ Len(<< >>) = 0
        BY <3>3, <3>4
      <4> HIDE DEF rest
      <4>2. QED
        BY <4>1
    <3>6. QED
      BY <3>2, <3>5
  <2>3. t \in CheckState
    BY <2>2, Zenon DEF CheckState
  <2>4. t.at = "test" /\ t.device = s.device /\ t.tests = Tail(s.tests)
    BY Zenon DEF CheckState
  <2>5. NextTest(s) = t
    BY <1>2 DEF NextTest
  <2> HIDE DEF t
  <2>6. QED
    BY <2>1, <2>2, <2>3, <2>4, <2>5 DEF Testable
<1>3. QED
  BY <1>1, <1>2

\* A checker that only moves on.
LEMMA AtState ==
  ASSUME NEW s \in CheckState, NEW at \in {"idle", "next", "test", "update", "insert", "mail", "mark"}
  PROVE  LET t == [s EXCEPT !.at = at]
         IN t \in CheckState /\ t.at = at /\ t.device = s.device /\ t.tests = s.tests
BY Zenon DEF CheckState

\* Where an opened alert leads to.
LEMMA OpenedState ==
  ASSUME NEW s \in CheckState, NEW a \in Checkers, Testable(s), Busy(s)
  PROVE  /\ Opened(s, a) \in CheckState /\ Testable(Opened(s, a))
         /\ Opened(s, a).at \in {"update", "mail", "mark"} => CurrentOf(Opened(s, a)) = CurrentOf(s)
<1>1. CASE a = "worker"
  <2> DEFINE t == [s EXCEPT !.at = "mail"]
  <2>1. Opened(s, a) = t
    BY <1>1 DEF Opened
  <2>2. t \in CheckState /\ t.device = s.device /\ t.tests = s.tests
    BY AtState
  <2>3. s.device \in Devices /\ s.tests # << >>
    BY DEF Testable
  <2> HIDE DEF t
  <2>4. QED
    BY <2>1, <2>2, <2>3 DEF Testable, CurrentOf
<1>2. CASE a # "worker"
  BY <1>2, NextTestState DEF Opened
<1>3. QED
  BY <1>1, <1>2
-----------------------------------------------------------------------------
(* What the steps of a checker share. *)

\* One checker moves: the states of the checkers keep their type.
LEMMA CheckerMoves ==
  ASSUME AlertsInv, NEW a \in Checkers, NEW t \in CheckState, Testable(t),
         check' = [check EXCEPT ![a] = t], Rows \subseteq Rows', Found(t, Rows')
  PROVE  ChecksOK'
<1>1. check \in [Checkers -> CheckState]
  BY DEF AlertsInv, ChecksOK
<1>2. check' \in [Checkers -> CheckState]
  BY <1>1
<1>3. ASSUME NEW b \in Checkers
      PROVE  Testable(check'[b]) /\ Found(check'[b], Rows')
  <2>1. CASE b = a
    <3>1. check'[b] = t
      BY <1>1, <2>1
    <3>2. QED
      BY <3>1
  <2>2. CASE b # a
    <3>1. check'[b] = check[b]
      BY <1>1, <2>2
    <3>2. Testable(check[b]) /\ Found(check[b], Rows)
      BY DEF AlertsInv, ChecksOK
    <3>3. Found(check[b], Rows')
      BY <3>2 DEF Found
    <3>4. QED
      BY <3>1, <3>2, <3>3
  <2>3. QED
    BY <2>1, <2>2
<1>4. QED
  BY <1>2, <1>3 DEF ChecksOK

\* The table stays as it is.
LEMMA TableStays ==
  ASSUME AlertsInv, UNCHANGED table, UNCHANGED unmarked
  PROVE  TableOK' /\ Rows' = Rows
BY DEF AlertsInv, TableOK, Rows, table

\* The state of a checker that is busy.
LEMMA BusyChecker ==
  ASSUME AlertsInv, NEW a \in Checkers
  PROVE  /\ check[a] \in CheckState /\ Testable(check[a]) /\ Found(check[a], Rows)
         /\ Current(a) = CurrentOf(check[a])
         /\ Busy(check[a]) => Current(a) \in Fingerprints
<1>1. check[a] \in CheckState /\ Testable(check[a]) /\ Found(check[a], Rows)
  BY DEF AlertsInv, ChecksOK
<1>2. Current(a) = CurrentOf(check[a])
  BY DEF Current, CurrentOf
<1>3. QED
  BY <1>1, <1>2, CurrentType

\* A checker that is not busy, or on its way to the next test, has found nothing.
LEMMA NothingFound ==
  ASSUME NEW t, NEW table_rows, t.at \notin {"update", "mail", "mark"}
  PROVE  Found(t, table_rows)
BY DEF Found
LEMMA NotBusy ==
  ASSUME NEW t, ~Busy(t)
  PROVE  Testable(t) /\ t.at \notin {"update", "mail", "mark"}
BY DEF Busy, Testable
-----------------------------------------------------------------------------
(* The steps of a check keep the types of the table and of the checkers. *)

LEMMA StartStep ==
  ASSUME AlertsInv, NEW a \in Checkers, StartCheck(a), UNCHANGED unmarked
  PROVE  TableOK' /\ ChecksOK'
<1> DEFINE t == [Resting EXCEPT !.at = "next", !.todo = listed]
<1>1. listed \in SUBSET Devices
  BY DEF AlertsInv, WorldOK
<1>2. t \in CheckState
  BY <1>1, RestingState, Zenon DEF CheckState
<1>3. t.at = "next"
  BY RestingState, Zenon DEF CheckState
<1>4. check' = [check EXCEPT ![a] = t] /\ UNCHANGED table
  BY DEF StartCheck
<1> HIDE DEF t
<1>5. Testable(t) /\ Found(t, Rows')
  BY <1>3 DEF Testable, Found, Busy
<1>6. TableOK' /\ Rows' = Rows
  BY <1>4, TableStays
<1>7. QED
  BY <1>2, <1>4, <1>5, <1>6, CheckerMoves

LEMMA EndStep ==
  ASSUME AlertsInv, NEW a \in Checkers, EndCheck(a), UNCHANGED unmarked
  PROVE  TableOK' /\ ChecksOK'
<1>1. check' = [check EXCEPT ![a] = Resting] /\ UNCHANGED table
  BY DEF EndCheck
<1>2. Resting \in CheckState /\ Testable(Resting) /\ Found(Resting, Rows')
  BY RestingState, NotBusy, NothingFound
<1>3. TableOK' /\ Rows' = Rows
  BY <1>1, TableStays
<1>4. QED
  BY <1>1, <1>2, <1>3, CheckerMoves

LEMMA SummaryStep ==
  ASSUME AlertsInv, NEW a \in Checkers, Summary(a), UNCHANGED unmarked
  PROVE  TableOK' /\ ChecksOK'
<1>1. PICK d \in check[a].todo :
        check' = [check EXCEPT ![a] = Examined(check[a], d)] /\ UNCHANGED table
  BY DEF Summary
<1> DEFINE s == check[a]
           rest == s.todo \ {d}
           found == {fp \in Bad : fp[1] = d}
           t == Examined(s, d)
<1>2. s \in CheckState
  BY BusyChecker
<1>3. d \in Devices /\ rest \in SUBSET Devices
  BY <1>2 DEF CheckState
<1>4. found \in SUBSET Fingerprints
  BY DEF Bad
<1>5. Tests \in Seq(TestNames) /\ Tests # << >>
  BY TestsType
<1>6. check' = [check EXCEPT ![a] = t]
  BY <1>1
<1>7. t \in CheckState /\ t.at = "test" /\ t.device = d /\ t.tests = Tests
  <2> DEFINE u == [s EXCEPT !.at = "test", !.todo = rest, !.device = d, !.tests = Tests, !.bad = found]
  <2>0. t = u
    BY DEF Examined
  <2> HIDE DEF s, rest, found, t
  <2>1. u \in CheckState
    BY <1>2, <1>3, <1>4, <1>5, Zenon DEF CheckState
  <2>2. u.at = "test" /\ u.device = d /\ u.tests = Tests
    BY <1>2, Zenon DEF CheckState
  <2> HIDE DEF u
  <2>3. QED
    BY <2>0, <2>1, <2>2
<1> HIDE DEF t
<1>8. Testable(t) /\ Found(t, Rows')
  BY <1>3, <1>5, <1>7 DEF Testable, Found
<1>9. TableOK' /\ Rows' = Rows
  BY <1>1, TableStays
<1>10. QED
  BY <1>6, <1>7, <1>8, <1>9, CheckerMoves

LEMMA SummaryFailsStep ==
  ASSUME AlertsInv, NEW a \in Checkers, SummaryFails(a), UNCHANGED unmarked
  PROVE  TableOK' /\ ChecksOK'
<1>1. PICK d \in check[a].todo :
        check[a].at = "next" /\ check' = [check EXCEPT ![a].todo = @ \ {d}] /\ UNCHANGED table
  BY DEF SummaryFails
<1> DEFINE s == check[a]
           rest == s.todo \ {d}
           t == [s EXCEPT !.todo = rest]
<1>2. s \in CheckState
  BY BusyChecker
<1>3. rest \in SUBSET Devices
  BY <1>2 DEF CheckState
<1>4. check' = [check EXCEPT ![a] = t]
  BY <1>1
<1>5. t \in CheckState /\ t.at = "next"
  <2>1. s.at = "next"
    BY <1>1
  <2> HIDE DEF s, rest
  <2>2. t \in CheckState
    BY <1>2, <1>3, Zenon DEF CheckState
  <2>3. t.at = s.at
    BY <1>2, Zenon DEF CheckState
  <2>4. QED
    BY <2>1, <2>2, <2>3
<1> HIDE DEF t
<1>6. Testable(t) /\ Found(t, Rows')
  BY <1>5 DEF Testable, Found, Busy
<1>7. TableOK' /\ Rows' = Rows
  BY <1>1, TableStays
<1>8. QED
  BY <1>4, <1>5, <1>6, <1>7, CheckerMoves

LEMMA ResolveStep ==
  ASSUME AlertsInv, NEW a \in Checkers, Resolve(a), UNCHANGED unmarked
  PROVE  TableOK' /\ ChecksOK'
<1> DEFINE s == check[a]
<1>1. s \in CheckState /\ Testable(s) /\ Busy(s)
  BY BusyChecker DEF Resolve, Testing, Busy
<1>2. NextTest(s) \in CheckState /\ Testable(NextTest(s)) /\ Found(NextTest(s), Rows')
  BY <1>1, NextTestState, NothingFound
<1>3. check' = [check EXCEPT ![a] = NextTest(s)]
  BY DEF Resolve
<1>4. Rows' = Rows /\ TableOK'
  BY DEF AlertsInv, TableOK, Rows, Resolve
<1> HIDE DEF s
<1>5. QED
  BY <1>2, <1>3, <1>4, CheckerMoves

LEMMA FindStep ==
  ASSUME AlertsInv, NEW a \in Checkers, FindAlert(a), UNCHANGED unmarked
  PROVE  TableOK' /\ ChecksOK'
<1> DEFINE s == check[a]
           at == IF Current(a) \in Rows THEN "update" ELSE "insert"
           t == [s EXCEPT !.at = at]
<1>1. s \in CheckState /\ Testable(s) /\ Busy(s) /\ Current(a) = CurrentOf(s)
  BY BusyChecker DEF FindAlert, Testing, Busy
<1>2. check' = [check EXCEPT ![a] = t] /\ UNCHANGED table
  BY DEF FindAlert
<1>3. TableOK' /\ Rows' = Rows
  BY <1>2, TableStays
<1>4. at \in {"update", "insert"} /\ (at = "update" => Current(a) \in Rows)
  OBVIOUS
<1> HIDE DEF s, at
<1>5. t \in CheckState /\ t.at = at /\ t.device = s.device /\ t.tests = s.tests
  <2>1. at \in {"idle", "next", "test", "update", "insert", "mail", "mark"}
    BY <1>4
  <2>2. QED
    BY <1>1, <2>1, Zenon DEF CheckState
<1> HIDE DEF t
<1>6. Testable(t)
  BY <1>1, <1>5 DEF Testable
<1>7. Found(t, Rows')
  BY <1>1, <1>3, <1>4, <1>5 DEF Found, CurrentOf
<1>8. QED
  BY <1>2, <1>3, <1>5, <1>6, <1>7, CheckerMoves

LEMMA UpdateStep ==
  ASSUME AlertsInv, NEW a \in Checkers, UpdateAlert(a), UNCHANGED unmarked
  PROVE  TableOK' /\ ChecksOK'
<1> DEFINE s == check[a]
<1>1. /\ s \in CheckState /\ Testable(s) /\ Busy(s) /\ Found(s, Rows)
      /\ Current(a) = CurrentOf(s) /\ s.at = "update"
  BY BusyChecker DEF UpdateAlert, Busy
<1>2. Current(a) \in Rows
  BY <1>1 DEF Found
<1>3. check' = [check EXCEPT ![a] = Opened(s, a)]
  BY DEF UpdateAlert
<1>4. Rows' = Rows /\ TableOK'
  BY <1>2 DEF AlertsInv, TableOK, Rows, UpdateAlert
<1>5. Opened(s, a) \in CheckState /\ Testable(Opened(s, a)) /\ Found(Opened(s, a), Rows')
  BY <1>1, <1>2, <1>4, OpenedState DEF Found
<1> HIDE DEF s
<1>6. QED
  BY <1>3, <1>4, <1>5, CheckerMoves

LEMMA InsertStep ==
  ASSUME AlertsInv, NEW a \in Checkers, InsertAlert(a), UNCHANGED unmarked
  PROVE  TableOK' /\ ChecksOK'
<1> DEFINE s == check[a]
           c == Current(a)
<1>1. /\ s \in CheckState /\ Testable(s) /\ Busy(s)
      /\ c = CurrentOf(s) /\ c \in Fingerprints /\ c \notin Rows
  BY BusyChecker DEF InsertAlert, Busy
<1>2. /\ alerts' = Append(alerts, c) /\ open' = open \cup {c} /\ UNCHANGED <<acked, sentAt, unmarked>>
      /\ check' = [check EXCEPT ![a] = Opened(s, a)]
  BY DEF InsertAlert
<1> HIDE DEF s, c
<1>3. alerts \in Seq(Fingerprints) /\ IsFiniteSet(Rows) /\ Len(alerts) = Cardinality(Rows)
  BY DEF AlertsInv, TableOK
<1>4. Rows' = Rows \cup {c}
  <2>1. /\ Len(alerts') = Len(alerts) + 1 /\ DOMAIN alerts' = 1 .. Len(alerts) + 1
        /\ \A i \in 1 .. Len(alerts) : alerts'[i] = alerts[i]
        /\ alerts'[Len(alerts) + 1] = c
        /\ Len(alerts) \in Nat /\ DOMAIN alerts = 1 .. Len(alerts)
    BY <1>1, <1>2, <1>3
  <2>2. QED
    BY <2>1 DEF Rows
<1>5. alerts' \in Seq(Fingerprints) /\ Len(alerts') = Len(alerts) + 1
  BY <1>1, <1>2, <1>3
<1>6. IsFiniteSet(Rows') /\ Cardinality(Rows') = Cardinality(Rows) + 1
  BY <1>1, <1>3, <1>4, FS_AddElement
<1>7. TableOK'
  <2>1. Len(alerts') = Cardinality(Rows')
    BY <1>3, <1>5, <1>6
  <2>2. open' \subseteq Rows' /\ acked' \subseteq Rows' /\ unmarked' \subseteq Rows'
    BY <1>2, <1>4 DEF AlertsInv, TableOK
  <2>3. sentAt' \in [Fingerprints -> Times]
    BY <1>2 DEF AlertsInv, TableOK
  <2>4. QED
    BY <1>5, <1>6, <2>1, <2>2, <2>3 DEF TableOK
<1>8. Opened(s, a) \in CheckState /\ Testable(Opened(s, a)) /\ Found(Opened(s, a), Rows')
  BY <1>1, <1>4, OpenedState DEF Found
<1>9. QED
  BY <1>2, <1>4, <1>7, <1>8, CheckerMoves

\* The steps that pass the rest of the device, or of the check, over.
LEMMA PassedOver ==
  ASSUME AlertsInv, NEW a \in Checkers, NEW t \in CheckState, ~Busy(t),
         check' = [check EXCEPT ![a] = t], UNCHANGED table, UNCHANGED unmarked
  PROVE  TableOK' /\ ChecksOK'
<1>1. TableOK' /\ Rows' = Rows
  BY TableStays
<1>2. Testable(t) /\ Found(t, Rows')
  BY NotBusy, NothingFound
<1>3. QED
  BY <1>1, <1>2, CheckerMoves

LEMMA InsertFailsStep ==
  ASSUME AlertsInv, NEW a \in Checkers, InsertFails(a), UNCHANGED unmarked
  PROVE  TableOK' /\ ChecksOK'
<1>1. check' = [check EXCEPT ![a] = NextDevice(check[a])] /\ UNCHANGED table
  BY DEF InsertFails
<1>2. check[a] \in CheckState
  BY BusyChecker
<1>3. QED
  BY <1>1, <1>2, NextDeviceState, PassedOver

LEMMA RaisesStep ==
  ASSUME AlertsInv, NEW a \in Checkers, CheckRaises(a), UNCHANGED unmarked
  PROVE  TableOK' /\ ChecksOK'
<1>1. check' = [check EXCEPT ![a] = NextDevice(check[a])] /\ UNCHANGED table
  BY DEF CheckRaises
<1>2. check[a] \in CheckState
  BY BusyChecker
<1>3. QED
  BY <1>1, <1>2, NextDeviceState, PassedOver

LEMMA KilledStep ==
  ASSUME AlertsInv, WorkerKilled, UNCHANGED unmarked
  PROVE  TableOK' /\ ChecksOK'
<1>1. check' = [check EXCEPT !["worker"] = Resting] /\ UNCHANGED table /\ "worker" \in Checkers
  BY DEF WorkerKilled, Checkers
<1>2. QED
  BY <1>1, RestingState, PassedOver
-----------------------------------------------------------------------------
(* The worker's mails. *)

\* The clock reads a time.
LEMMA NowIsATime ==
  ASSUME AlertsInv
  PROVE  now \in Times /\ now \in Nat /\ now # Never
BY TimesAssumption DEF AlertsInv, ClockOK, Times

LEMMA SilentStep ==
  ASSUME AlertsInv, StaySilent
  PROVE  TableOK' /\ ChecksOK'
<1> DEFINE s == check["worker"]
<1>1. "worker" \in Checkers
  BY DEF Checkers
<1>2. s \in CheckState /\ Testable(s) /\ Busy(s)
  BY <1>1, BusyChecker DEF StaySilent, Busy
<1>3. NextTest(s) \in CheckState /\ Testable(NextTest(s)) /\ Found(NextTest(s), Rows')
  BY <1>2, NextTestState, NothingFound
<1>4. check' = [check EXCEPT !["worker"] = NextTest(s)] /\ UNCHANGED table /\ UNCHANGED unmarked
  BY DEF StaySilent
<1>5. TableOK' /\ Rows' = Rows
  BY <1>4, TableStays
<1> HIDE DEF s
<1>6. QED
  BY <1>1, <1>3, <1>4, <1>5, CheckerMoves

LEMMA SendStep ==
  ASSUME AlertsInv, SendMail
  PROVE  TableOK' /\ ChecksOK'
<1> DEFINE s == check["worker"]
           t == [s EXCEPT !.at = "mark"]
<1>1. "worker" \in Checkers
  BY DEF Checkers
<1>2. /\ s \in CheckState /\ Testable(s) /\ Busy(s) /\ Found(s, Rows) /\ s.at = "mail"
      /\ Current("worker") = CurrentOf(s)
  BY <1>1, BusyChecker DEF SendMail, Busy
<1>3. check' = [check EXCEPT !["worker"] = t] /\ UNCHANGED table /\ unmarked' = unmarked \cup {CurrentOf(s)}
  BY <1>2 DEF SendMail
<1>4. CurrentOf(s) \in Rows
  BY <1>2 DEF Found
<1>5. Rows' = Rows
  BY <1>3 DEF table, Rows
<1>6. TableOK'
  BY <1>3, <1>4, <1>5 DEF AlertsInv, TableOK, table
<1> HIDE DEF s
<1>7. t \in CheckState /\ t.at = "mark" /\ t.device = s.device /\ t.tests = s.tests
  BY <1>2, Zenon DEF CheckState
<1> HIDE DEF t
<1>8. Testable(t) /\ Found(t, Rows')
  BY <1>2, <1>4, <1>5, <1>7 DEF Testable, Found, CurrentOf
<1>9. QED
  BY <1>1, <1>3, <1>5, <1>6, <1>7, <1>8, CheckerMoves

LEMMA MarkStep ==
  ASSUME AlertsInv, MarkSent
  PROVE  TableOK' /\ ChecksOK'
<1> DEFINE s == check["worker"]
<1>1. "worker" \in Checkers
  BY DEF Checkers
<1>2. s \in CheckState /\ Testable(s) /\ Busy(s) /\ Current("worker") \in Fingerprints
  BY <1>1, BusyChecker DEF MarkSent, Busy
<1>3. NextTest(s) \in CheckState /\ Testable(NextTest(s)) /\ Found(NextTest(s), Rows')
  BY <1>2, NextTestState, NothingFound
<1>4. /\ check' = [check EXCEPT !["worker"] = NextTest(s)]
      /\ UNCHANGED <<alerts, open, acked>> /\ unmarked' = unmarked \ {Current("worker")}
      /\ sentAt' = [sentAt EXCEPT ![Current("worker")] = now]
  BY DEF MarkSent
<1>5. Rows' = Rows
  BY <1>4 DEF Rows
<1>6. sentAt' \in [Fingerprints -> Times]
  BY <1>4, NowIsATime DEF AlertsInv, TableOK
<1>7. TableOK'
  BY <1>4, <1>5, <1>6 DEF AlertsInv, TableOK
<1> HIDE DEF s
<1>8. QED
  BY <1>1, <1>3, <1>4, <1>5, <1>7, CheckerMoves
-----------------------------------------------------------------------------
(* Every step. *)

LEMMA CheckStep ==
  ASSUME AlertsInv, NEW a \in Checkers, CheckNext(a)
  PROVE  AlertsInv'
<1>1. TableOK' /\ ChecksOK'
  <2>1. CASE /\ \/ StartCheck(a) \/ EndCheck(a) \/ Summary(a) \/ SummaryFails(a)
                \/ Resolve(a) \/ FindAlert(a) \/ UpdateAlert(a) \/ InsertAlert(a) \/ InsertFails(a)
                \/ CheckRaises(a) \/ (a = "worker" /\ WorkerKilled)
             /\ UNCHANGED <<mailedAt, unmarked>>
    BY <2>1, StartStep, EndStep, SummaryStep, SummaryFailsStep, ResolveStep, FindStep, UpdateStep,
       InsertStep, InsertFailsStep, RaisesStep, KilledStep
  <2>2. CASE StaySilent \/ SendMail \/ MarkSent
    BY <2>2, SilentStep, SendStep, MarkStep
  <2>3. QED
    BY <2>1, <2>2 DEF CheckNext
<1>2. UNCHANGED world
  BY DEF CheckNext
<1>3. ClockOK' /\ WorldOK'
  BY <1>2 DEF world, AlertsInv, ClockOK, WorldOK
<1>4. QED
  BY <1>1, <1>3 DEF AlertsInv

\* Time, records, devices and users leave the checks alone.
LEMMA WorldStep ==
  ASSUME AlertsInv, WorldNext
  PROVE  AlertsInv'
<1>1. UNCHANGED <<alerts, open, sentAt, check, mailedAt, unmarked>> /\ Rows' = Rows
  BY DEF WorldNext, Rows
<1>2. ChecksOK'
  BY <1>1 DEF AlertsInv, ChecksOK
<1>3. ASSUME acked' \subseteq Rows' PROVE TableOK'
  BY <1>1, <1>3 DEF AlertsInv, TableOK
<1>4. acked \subseteq Rows'
  BY <1>1 DEF AlertsInv, TableOK
<1>5. ASSUME NEW d \in Devices, NEW c \in Channels, RecordArrives(d, c)
      PROVE  AlertsInv'
  <2>1. UNCHANGED <<now, listed, acked>>
    BY <1>5 DEF RecordArrives
  <2>2. last' \in [Devices -> [Channels -> Times]]
    <3>1. last \in [Devices -> [Channels -> Times]] /\ last' = [last EXCEPT ![d][c] = now] /\ now \in Times
      BY <1>5, NowIsATime DEF AlertsInv, WorldOK, RecordArrives
    <3>2. [last[d] EXCEPT ![c] = now] \in [Channels -> Times]
      BY <3>1
    <3>3. last' = [last EXCEPT ![d] = [last[d] EXCEPT ![c] = now]]
      BY <3>1
    <3>4. QED
      BY <3>1, <3>2, <3>3, Zenon
  <2>3. QED
    BY <1>2, <1>3, <1>4, <2>1, <2>2 DEF AlertsInv, ClockOK, WorldOK
<1>6. ASSUME NEW d \in Devices, ListingChanges(d)
      PROVE  AlertsInv'
  <2>1. UNCHANGED <<now, last, acked>>
    BY <1>6 DEF ListingChanges
  <2>2. listed' \subseteq Devices
    BY <1>6 DEF ListingChanges, AlertsInv, WorldOK
  <2>3. QED
    BY <1>2, <1>3, <1>4, <2>1, <2>2 DEF AlertsInv, ClockOK, WorldOK
<1>7. ASSUME Tick
      PROVE  AlertsInv'
  <2>1. UNCHANGED <<last, listed, acked>>
    BY <1>7 DEF Tick
  <2>2. now' \in 0 .. MaxTime
    BY <1>7, TimesAssumption DEF Tick, AlertsInv, ClockOK
  <2>3. QED
    BY <1>2, <1>3, <1>4, <2>1, <2>2 DEF AlertsInv, ClockOK, WorldOK
<1>8. ASSUME NEW fp \in Fingerprints, Acknowledge(fp)
      PROVE  AlertsInv'
  <2>1. UNCHANGED world
    BY <1>8 DEF Acknowledge
  <2>2. acked' \subseteq Rows'
    BY <1>1, <1>4, <1>8 DEF Acknowledge
  <2>3. QED
    BY <1>2, <1>3, <2>1, <2>2 DEF AlertsInv, ClockOK, WorldOK, world
<1>9. QED
  BY <1>5, <1>6, <1>7, <1>8 DEF WorldNext

LEMMA AlertsInitially == AlertsInit => AlertsInv
<1> SUFFICES ASSUME AlertsInit PROVE AlertsInv
  OBVIOUS
<1>1. ClockOK /\ WorldOK
  BY TimesAssumption DEF AlertsInit, ClockOK, WorldOK, Times
<1>2. alerts = << >> /\ Rows = {}
  BY DEF AlertsInit, Rows
<1>3. IsFiniteSet(Rows) /\ Cardinality(Rows) = 0
  BY <1>2, FS_EmptySet
<1>4. alerts \in Seq(Fingerprints) /\ Len(alerts) = 0
  BY <1>2
<1>5. TableOK
  BY <1>2, <1>3, <1>4 DEF AlertsInit, TableOK, Times
<1>6. ChecksOK
  <2>1. Resting \in CheckState /\ Testable(Resting) /\ Found(Resting, Rows)
    BY RestingState, NotBusy, NothingFound
  <2>2. check = [a \in Checkers |-> Resting]
    BY DEF AlertsInit
  <2>3. QED
    BY <2>1, <2>2 DEF ChecksOK
<1>7. QED
  BY <1>1, <1>5, <1>6 DEF AlertsInv

LEMMA AlertsStep == AlertsInv /\ [AlertsNext]_alertVars => AlertsInv'
<1> SUFFICES ASSUME AlertsInv, [AlertsNext]_alertVars PROVE AlertsInv'
  OBVIOUS
<1>1. CASE UNCHANGED alertVars
  BY <1>1 DEF alertVars, world, table, AlertsInv, ClockOK, WorldOK, TableOK, ChecksOK, Rows
<1>2. QED
  BY <1>1, CheckStep, WorldStep DEF AlertsNext

\* The variables have their types and the table has one row per fingerprint, however
\* the look-ups and insertions of the worker and of the web interleave: an alert is
\* opened, mailed or acknowledged only when it has a row.
THEOREM AlertsTypeCorrect == AlertsSpec => []AlertsTypeOK
<1>1. AlertsInv => AlertsTypeOK
  <2> SUFFICES ASSUME AlertsInv PROVE AlertsTypeOK
    OBVIOUS
  <2>1. Rows \subseteq Fingerprints
    BY DEF AlertsInv, TableOK, Rows
  <2>2. QED
    BY <2>1 DEF AlertsInv, ClockOK, WorldOK, TableOK, AlertsTypeOK, Times
<1>2. QED
  BY <1>1, AlertsInitially, AlertsStep, PTL DEF AlertsSpec
-----------------------------------------------------------------------------
(* The period of silence. *)

\* The strengthening of MailsSpaced: last_sent_at is not older than the last mail,
\* unless that mail has not been marked.
Marked(fp) ==
  \/ mailedAt[fp] = Never \/ fp \in unmarked
  \/ sentAt[fp] # Never /\ mailedAt[fp] <= sentAt[fp]
MailInv ==
  /\ mailedAt \in [Fingerprints -> Times]
  /\ \A fp \in Fingerprints : mailedAt[fp] # Never => mailedAt[fp] <= now
  /\ \A fp \in Fingerprints : Marked(fp)

\* The step of a mail and that of a mark are those of an alert that has a fingerprint.
LEMMA WorkerCurrent ==
  ASSUME AlertsInv, SendMail \/ MarkSent
  PROVE  Current("worker") \in Fingerprints
BY BusyChecker DEF SendMail, MarkSent, Busy, Checkers

LEMMA SendKeepsMailInv ==
  ASSUME AlertsInv, MailInv, SendMail, UNCHANGED world
  PROVE  MailInv'
<1> DEFINE c == Current("worker")
<1>1. c \in Fingerprints
  BY WorkerCurrent
<1>2. /\ mailedAt' = [mailedAt EXCEPT ![c] = now] /\ unmarked' = unmarked \cup {c}
      /\ sentAt' = sentAt /\ now' = now
  BY DEF SendMail, table, world
<1> HIDE DEF c
<1>3. now \in Times /\ now \in Nat
  BY NowIsATime
<1>4. mailedAt \in [Fingerprints -> Times]
  BY DEF MailInv
<1>5. mailedAt' \in [Fingerprints -> Times]
  BY <1>2, <1>3, <1>4
<1>6. ASSUME NEW fp \in Fingerprints
      PROVE  /\ mailedAt'[fp] # Never => mailedAt'[fp] <= now'
             /\ Marked(fp)'
  <2>1. CASE fp = c
    <3>1. mailedAt'[fp] = now /\ fp \in unmarked'
      BY <1>2, <1>4, <2>1
    <3>2. QED
      BY <1>2, <1>3, <3>1 DEF Marked
  <2>2. CASE fp # c
    <3>1. mailedAt'[fp] = mailedAt[fp] /\ (fp \in unmarked => fp \in unmarked')
      BY <1>2, <1>4, <2>2
    <3>2. QED
      BY <1>2, <3>1 DEF MailInv, Marked
  <2>3. QED
    BY <2>1, <2>2
<1>7. QED
  BY <1>5, <1>6 DEF MailInv

LEMMA MarkKeepsMailInv ==
  ASSUME AlertsInv, MailInv, MarkSent, UNCHANGED world
  PROVE  MailInv'
<1> DEFINE c == Current("worker")
<1>1. c \in Fingerprints
  BY WorkerCurrent
<1>2. /\ sentAt' = [sentAt EXCEPT ![c] = now] /\ unmarked' = unmarked \ {c}
      /\ mailedAt' = mailedAt /\ now' = now
  BY DEF MarkSent, world
<1> HIDE DEF c
<1>3. now # Never /\ sentAt \in [Fingerprints -> Times]
  BY NowIsATime DEF AlertsInv, TableOK
<1>4. ASSUME NEW fp \in Fingerprints
      PROVE  Marked(fp)'
  <2>1. CASE fp = c
    <3>1. sentAt'[fp] = now
      BY <1>2, <1>3, <2>1
    <3>2. QED
      BY <1>2, <1>3, <3>1 DEF MailInv, Marked
  <2>2. CASE fp # c
    <3>1. sentAt'[fp] = sentAt[fp] /\ (fp \in unmarked => fp \in unmarked')
      BY <1>2, <1>3, <2>2
    <3>2. QED
      BY <1>2, <3>1 DEF MailInv, Marked
  <2>3. QED
    BY <2>1, <2>2
<1>5. QED
  BY <1>2, <1>4 DEF MailInv

\* No other step touches last_sent_at or sends a mail.
LEMMA OtherSteps ==
  ASSUME AlertsInv, [AlertsNext]_alertVars, ~(UNCHANGED world /\ (SendMail \/ MarkSent))
  PROVE  UNCHANGED <<sentAt, mailedAt, unmarked>> /\ (now' = now \/ now' = now + 1)
<1>1. CASE UNCHANGED alertVars
  BY <1>1 DEF alertVars, world, table
<1>2. ASSUME NEW a \in Checkers, CheckNext(a)
      PROVE  UNCHANGED <<sentAt, mailedAt, unmarked>> /\ now' = now
  <2>1. now' = now
    BY <1>2 DEF CheckNext, world
  <2>2. CASE StaySilent
    BY <2>1, <2>2 DEF StaySilent, table
  <2>3. CASE UNCHANGED <<mailedAt, unmarked>> /\ ~StaySilent
    <3>1. sentAt' = sentAt
      BY <1>2, <2>3 DEF CheckNext, StartCheck, EndCheck, Summary, SummaryFails, Resolve, FindAlert,
         UpdateAlert, InsertAlert, InsertFails, CheckRaises, WorkerKilled, table
    <3>2. QED
      BY <2>1, <2>3, <3>1
  <2>4. QED
    BY <1>2, <2>2, <2>3 DEF CheckNext
<1>3. CASE WorldNext
  BY <1>3 DEF WorldNext, RecordArrives, ListingChanges, Tick, Acknowledge, world
<1>4. QED
  BY <1>1, <1>2, <1>3 DEF AlertsNext

LEMMA MailStep == AlertsInv /\ MailInv /\ [AlertsNext]_alertVars => MailInv'
<1> SUFFICES ASSUME AlertsInv, MailInv, [AlertsNext]_alertVars PROVE MailInv'
  OBVIOUS
<1>1. CASE UNCHANGED world /\ (SendMail \/ MarkSent)
  BY <1>1, SendKeepsMailInv, MarkKeepsMailInv
<1>2. CASE ~(UNCHANGED world /\ (SendMail \/ MarkSent))
  <2>1. UNCHANGED <<sentAt, mailedAt, unmarked>> /\ (now' = now \/ now' = now + 1)
    BY <1>2, OtherSteps
  <2>2. now \in Nat
    BY NowIsATime
  <2>3. \A fp \in Fingerprints : mailedAt[fp] # Never => mailedAt[fp] \in Nat
    BY DEF MailInv, Times
  <2>4. \A fp \in Fingerprints : Marked(fp)'
    BY <2>1 DEF MailInv, Marked
  <2>5. QED
    BY <2>1, <2>2, <2>3, <2>4 DEF MailInv
<1>3. QED
  BY <1>1, <1>2

\* Two mails of one alert are apart by the period of silence, over resolving and
\* opening it again and over the checks of the web, unless the tool was killed or
\* failed between sending the mail and marking it as sent.
THEOREM MailsSpacedCorrect == AlertsSpec => MailsSpaced
<1> DEFINE Spaced == \A fp \in Fingerprints : mailedAt'[fp] # mailedAt[fp] =>
                        \/ mailedAt[fp] = Never \/ fp \in unmarked
                        \/ mailedAt'[fp] - mailedAt[fp] >= Silence
<1>1. AlertsInit => MailInv
  BY TimesAssumption DEF AlertsInit, MailInv, Marked, Times
<1>2. AlertsInv /\ MailInv /\ [AlertsNext]_alertVars => [Spaced]_alertVars
  <2> SUFFICES ASSUME AlertsInv, MailInv, [AlertsNext]_alertVars PROVE Spaced
    OBVIOUS
  <2>1. CASE UNCHANGED world /\ (SendMail \/ MarkSent)
    <3>1. CASE MarkSent
      BY <3>1 DEF MarkSent
    <3>2. CASE SendMail
      <4> DEFINE c == Current("worker")
      <4>1. c \in Fingerprints /\ mailedAt' = [mailedAt EXCEPT ![c] = now] /\ Due(c)
        BY <3>2, WorkerCurrent DEF SendMail
      <4> HIDE DEF c
      <4>2. mailedAt \in [Fingerprints -> Times] /\ sentAt \in [Fingerprints -> Times]
        BY DEF AlertsInv, TableOK, MailInv
      <4>3. ASSUME NEW fp \in Fingerprints, mailedAt'[fp] # mailedAt[fp],
                   mailedAt[fp] # Never, fp \notin unmarked
            PROVE  mailedAt'[fp] - mailedAt[fp] >= Silence
        <5>1. fp = c /\ mailedAt'[fp] = now
          BY <4>1, <4>2, <4>3
        <5>2. sentAt[fp] # Never /\ mailedAt[fp] <= sentAt[fp]
          BY <4>3 DEF MailInv, Marked
        <5>3. now - sentAt[fp] >= Silence
          BY <4>1, <5>1, <5>2 DEF Due
        <5>4. now \in Nat /\ sentAt[fp] \in Nat /\ mailedAt[fp] \in Nat /\ Silence \in Nat
          BY <4>2, <4>3, <5>2, NowIsATime, TimesAssumption DEF Times
        <5>5. QED
          BY <5>1, <5>2, <5>3, <5>4
      <4>4. QED
        BY <4>3
    <3>3. QED
      BY <2>1, <3>1, <3>2
  <2>2. CASE ~(UNCHANGED world /\ (SendMail \/ MarkSent))
    <3>1. mailedAt' = mailedAt
      BY <2>2, OtherSteps
    <3>2. QED
      BY <3>1
  <2>3. QED
    BY <2>1, <2>2
<1>3. QED
  BY <1>1, <1>2, AlertsInitially, AlertsStep, MailStep, PTL DEF AlertsSpec, MailsSpaced
=============================================================================
