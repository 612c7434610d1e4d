------------------------------- MODULE Alerts -------------------------------
(***************************************************************************)
(* The portal's alerts (app/stage2.py): tools/check_alerts.py, started by a *)
(* timer, and POST /alerts/check-now go through the listed devices, compare *)
(* the age of their latest records with two thresholds, and open, repeat or *)
(* resolve one alert for each device and each expected component.  The tool *)
(* also sends mails, not more often than a period of silence allows.        *)
(* Each query and each update of the database is a step.                    *)
(***************************************************************************)
EXTENDS Integers, Sequences, FiniteSets

CONSTANTS
  Devices,
  Channels,        \* the components that records come from
  Expected,        \* the expected components, in order: expected_components()
  OfflineSeconds,  \* thresholds of portal.ini
  MissingSeconds,
  Silence,         \* repeat_silence_seconds
  MaxTime,         \* bound: the clock
  MaxFaults,       \* bound: web checks, faults, kills, devices hidden or shown, acknowledgements
  Never

Checkers == {"worker", "web"}
\* A fingerprint: the device and what is tested.
Tests == <<"offline">> \o Expected
Fingerprints == Devices \X {Tests[i] : i \in DOMAIN Tests}

ASSUME ChannelsAssumption == Expected \in Seq(Channels) /\ "offline" \notin Channels
ASSUME TimesAssumption ==
  /\ OfflineSeconds \in Nat /\ MissingSeconds \in Nat /\ Silence \in Nat
  /\ MaxTime \in Nat /\ MaxFaults \in Nat /\ Never \notin Nat

VARIABLES
  now,      \* the clock
  last,     \* per device and component: the start of its latest record
  listed,   \* the devices list_devices() returns to an administrator
  alerts,   \* the rows of the table: a sequence of fingerprints
  open,     \* the fingerprints whose alert is open
  acked,    \* the fingerprints whose alert has been acknowledged
  sentAt,   \* per fingerprint: last_sent_at
  check,    \* per checker: where it is and what it has read
  faults,   \* number of bounded events so far
  mailedAt, \* history, per fingerprint: when the last mail was sent
  unmarked  \* history: the fingerprints mailed, but not marked as sent

table     == <<alerts, open, acked, sentAt>>
world     == <<now, last, listed>>
alertVars == <<world, table, check, faults, mailedAt, unmarked>>

Rows == {alerts[i] : i \in DOMAIN alerts}
Resting == [at |-> "idle", todo |-> {}, device |-> Never, tests |-> << >>, bad |-> {}]

AlertsInit ==
  /\ now = 0 /\ last = [d \in Devices |-> [c \in Channels |-> Never]]
  /\ listed \in SUBSET Devices
  /\ alerts = << >> /\ open = {} /\ acked = {}
  /\ sentAt = [fp \in Fingerprints |-> Never]
  /\ check = [a \in Checkers |-> Resting]
  /\ faults = 0
  /\ mailedAt = [fp \in Fingerprints |-> Never] /\ unmarked = {}

Fault == faults < MaxFaults /\ faults' = faults + 1
-----------------------------------------------------------------------------
(* check_devices_once()                                                     *)

\* The tests a device fails: age_seconds is that of its latest record.
Old(t, limit) == t = Never \/ now - t > limit
Fails(d, test) ==
  IF test = "offline" THEN \A c \in Channels : Old(last[d][c], OfflineSeconds)
  ELSE Old(last[d][test], MissingSeconds)
Bad == {fp \in Fingerprints : Fails(fp[1], fp[2])}

\* The tool lists the devices whenever its timer fires, an administrator whenever
\* he asks for a check.
StartCheck(a) ==
  /\ check[a].at = "idle"
  /\ IF a = "web" THEN Fault ELSE UNCHANGED faults
  /\ check' = [check EXCEPT ![a] = [Resting EXCEPT !.at = "next", !.todo = listed]]
  /\ UNCHANGED table

NextDevice(s) == [s EXCEPT !.at = "next", !.device = Never, !.tests = << >>, !.bad = {}]
EndCheck(a) ==
  /\ check[a].at = "next" /\ check[a].todo = {}
  /\ check' = [check EXCEPT ![a] = Resting]
  /\ UNCHANGED <<table, faults>>

\* receiver_basic_summary() reads the device's file once, for all its tests.
Examined(s, d) ==
  [s EXCEPT !.at = "test", !.todo = @ \ {d}, !.device = d, !.tests = Tests, !.bad = {fp \in Bad : fp[1] = d}]
Summary(a) ==
  \E d \in check[a].todo :
    /\ check[a].at = "next"
    /\ check' = [check EXCEPT ![a] = Examined(@, d)]
    /\ UNCHANGED <<table, faults>>

\* The file cannot be opened: the device is passed over.
SummaryFails(a) ==
  \E d \in check[a].todo :
    /\ check[a].at = "next" /\ Fault
    /\ check' = [check EXCEPT ![a].todo = @ \ {d}]
    /\ UNCHANGED table

Current(a) == <<check[a].device, Head(check[a].tests)>>
NextTest(s) == IF Len(s.tests) = 1 THEN NextDevice(s) ELSE [s EXCEPT !.at = "test", !.tests = Tail(@)]
Testing(a) == check[a].at = "test"

\* Mutation of Resolve: a resolved alert forgets its last mail.
ResolveForgetting(a) ==
  /\ Testing(a) /\ Current(a) \notin check[a].bad
  /\ open' = open \ {Current(a)}
  /\ sentAt' = [sentAt EXCEPT ![Current(a)] = Never]
  /\ check' = [check EXCEPT ![a] = NextTest(@)]
  /\ UNCHANGED <<alerts, acked, faults>>

\* resolve_alert()
Resolve(a) ==
  /\ Testing(a) /\ Current(a) \notin check[a].bad
  /\ open' = open \ {Current(a)}
  /\ check' = [check EXCEPT ![a] = NextTest(@)]
  /\ UNCHANGED <<alerts, acked, sentAt, faults>>

\* upsert_alert() looks for the row ...
FindAlert(a) ==
  /\ Testing(a) /\ Current(a) \in check[a].bad
  /\ check' = [check EXCEPT ![a].at = IF Current(a) \in Rows THEN "update" ELSE "insert"]
  /\ UNCHANGED <<table, faults>>

Opened(s, a) == IF a = "worker" THEN [s EXCEPT !.at = "mail"] ELSE NextTest(s)
\* Mutation of UpdateAlert: a resolved alert is counted, but not opened again.
UpdateAlertCounting(a) ==
  /\ check[a].at = "update"
  /\ check' = [check EXCEPT ![a] = Opened(@, a)]
  /\ UNCHANGED <<table, faults>>

UpdateAlert(a) ==
  /\ check[a].at = "update"
  /\ open' = open \cup {Current(a)}
  /\ check' = [check EXCEPT ![a] = Opened(@, a)]
  /\ UNCHANGED <<alerts, acked, sentAt, faults>>

\* Mutation of InsertAlert: the fingerprint is not UNIQUE.
InsertAlertTwice(a) ==
  /\ check[a].at = "insert"
  /\ alerts' = Append(alerts, Current(a))
  /\ open' = open \cup {Current(a)}
  /\ check' = [check EXCEPT ![a] = Opened(@, a)]
  /\ UNCHANGED <<acked, sentAt, faults>>

InsertAlert(a) ==
  /\ check[a].at = "insert" /\ Current(a) \notin Rows
  /\ alerts' = Append(alerts, Current(a))
  /\ open' = open \cup {Current(a)}
  /\ check' = [check EXCEPT ![a] = Opened(@, a)]
  /\ UNCHANGED <<acked, sentAt, faults>>

\* ... which another check may have inserted meanwhile: the UNIQUE fingerprint
\* raises, and the rest of the device is passed over.
InsertFails(a) ==
  /\ check[a].at = "insert" /\ Current(a) \in Rows
  /\ check' = [check EXCEPT ![a] = NextDevice(@)]
  /\ UNCHANGED <<table, faults>>

\* should_send_email()
Due(fp) == sentAt[fp] # Never => now - sentAt[fp] >= Silence
StaySilent ==
  /\ check["worker"].at = "mail" /\ ~ Due(Current("worker"))
  /\ check' = [check EXCEPT !["worker"] = NextTest(@)]
  /\ UNCHANGED <<table, faults, mailedAt, unmarked>>

SendMail ==
  /\ check["worker"].at = "mail" /\ Due(Current("worker"))
  /\ mailedAt' = [mailedAt EXCEPT ![Current("worker")] = now]
  /\ unmarked' = unmarked \cup {Current("worker")}
  /\ check' = [check EXCEPT !["worker"].at = "mark"]
  /\ UNCHANGED <<table, faults>>

\* The mail server refuses or does not answer, or the database is locked: the rest
\* of the device is passed over.
CheckRaises(a) ==
  /\ check[a].at \notin {"idle", "next"} /\ Fault
  /\ check' = [check EXCEPT ![a] = NextDevice(@)]
  /\ UNCHANGED table

MarkSent ==
  /\ check["worker"].at = "mark"
  /\ sentAt' = [sentAt EXCEPT ![Current("worker")] = now]
  /\ unmarked' = unmarked \ {Current("worker")}
  /\ check' = [check EXCEPT !["worker"] = NextTest(@)]
  /\ UNCHANGED <<alerts, open, acked, faults, mailedAt>>

\* A request that is killed never goes on: it needs no step.
WorkerKilled ==
  /\ check["worker"].at # "idle" /\ Fault
  /\ check' = [check EXCEPT !["worker"] = Resting]
  /\ UNCHANGED table

CheckNext(a) ==
  /\ \/ /\ \/ StartCheck(a) \/ EndCheck(a) \/ Summary(a) \/ SummaryFails(a)
           \/ Resolve(a) \/ FindAlert(a) \/ UpdateAlert(a) \/ InsertAlert(a) \/ InsertFails(a)
           \/ CheckRaises(a) \/ (a = "worker" /\ WorkerKilled)
        /\ UNCHANGED <<mailedAt, unmarked>>
     \/ a = "worker" /\ (StaySilent \/ SendMail \/ MarkSent)
  /\ UNCHANGED world
-----------------------------------------------------------------------------
(* Records, devices, time and users.                                        *)

RecordArrives(d, c) ==
  /\ last' = [last EXCEPT ![d][c] = now]
  /\ UNCHANGED <<now, listed, acked, faults>>

\* A sync or the merge tool hides a device or shows it again.
ListingChanges(d) ==
  /\ Fault
  /\ listed' = IF d \in listed THEN listed \ {d} ELSE listed \cup {d}
  /\ UNCHANGED <<now, last, acked>>

Tick ==
  /\ now < MaxTime
  /\ now' = now + 1
  /\ UNCHANGED <<last, listed, acked, faults>>

\* ack_alert(); nothing takes an acknowledgement back.
Acknowledge(fp) ==
  /\ fp \in Rows /\ Fault
  /\ acked' = acked \cup {fp}
  /\ UNCHANGED world

WorldNext ==
  /\ \/ \E d \in Devices, c \in Channels : RecordArrives(d, c)
     \/ \E d \in Devices : ListingChanges(d)
     \/ Tick
     \/ \E fp \in Fingerprints : Acknowledge(fp)
  /\ UNCHANGED <<alerts, open, sentAt, check, mailedAt, unmarked>>

AlertsNext == (\E a \in Checkers : CheckNext(a)) \/ WorldNext
AlertsSpec == AlertsInit /\ [][AlertsNext]_alertVars /\ WF_alertVars(CheckNext("worker"))
-----------------------------------------------------------------------------
(* Properties.                                                              *)

\* The variables have their types, and there is one row per fingerprint, although
\* two checks look for it before they insert it.
AlertsTypeOK ==
  /\ now \in 0 .. MaxTime
  /\ last \in [Devices -> [Channels -> (0 .. MaxTime) \cup {Never}]] /\ listed \subseteq Devices
  /\ Rows \subseteq Fingerprints /\ Len(alerts) = Cardinality(Rows)
  /\ open \subseteq Rows /\ acked \subseteq Rows /\ unmarked \subseteq Rows
  /\ sentAt \in [Fingerprints -> (0 .. MaxTime) \cup {Never}]

\* When records, devices and time stand still, the open alerts of the listed
\* devices are in the end those of the tests they fail: no alert stays open for a
\* device that has recovered, none is missing, whatever faults, kills and checks
\* that have read an older state came in between.
AlertsSettle == <>[](\A fp \in Fingerprints : fp[1] \in listed => (fp \in open <=> fp \in Bad))

\* Two mails of one alert are apart by the period of silence, over resolving and
\* opening again, unless the tool was killed or failed between sending and marking.
MailsSpaced ==
  [][\A fp \in Fingerprints : mailedAt'[fp] # mailedAt[fp] =>
       \/ mailedAt[fp] = Never \/ fp \in unmarked
       \/ mailedAt'[fp] - mailedAt[fp] >= Silence]_alertVars
=============================================================================
