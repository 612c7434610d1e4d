------------------------------ MODULE MCPortal ------------------------------
(* The instance of Alerts, HistoryReader and LiveView for TLC.  They share no      *)
(* state, so running them side by side adds nothing: in each behaviour one of them *)
(* acts, and no device is listed for alerts that do not act.                       *)
EXTENDS Alerts, HistoryReader, LiveView

VARIABLE acting
vars == <<alertVars, readerVars, pageVars, acting>>

\* One device, offline after two ticks, its component missing after one.
OneComponent == <<"Z">>

\* Two files; a stream with records in both layouts, one of them untimed.
TwoFiles == <<"own", "member">>
TwoStreams == <<"N", "Z">>
Component == [N |-> "N", Z |-> "Z"]
TenValues == [t \in 0 .. 9 |-> <<2, 5, 1, -3, 0, -4, 4, 2, 6, 1>>[t + 1]]
Early   == [start |-> 1, npts |-> 3, end |-> 3]
Late    == [start |-> 4, npts |-> 3, end |-> 6]
Newest  == [start |-> 7, npts |-> 2, end |-> 8]
NoEnd   == [start |-> 2, npts |-> 2, end |-> -1]
UpTo(n, S) == UNION {[1 .. k -> S] : k \in 0 .. n}
Group(index, legacy) == [index |-> index, legacy |-> legacy]
Some ==
  {[own    |-> [N |-> Group(n, << >>), Z |-> Group(index, legacy)],
    member |-> [N |-> Group(<< >>, << >>), Z |-> Group(z, << >>)]] :
     n \in UpTo(1, {Early}), index \in UpTo(2, {Early, Late, NoEnd}),
     legacy \in UpTo(1, {Early, Late}), z \in UpTo(1, {Newest, Early})}
OneArriving == {Late}
ThreeWindows == {<<0, 9>>, <<3, 4>>, <<5, 8>>}

\* A device with two components, one with one, and one without.
ThreeDevices == [P |-> <<"Z", "N">>, Q |-> <<"O">>, R |-> << >>]

Init ==
  /\ AlertsInit /\ ReaderInit /\ PageInit
  /\ acting \in {"alerts", "reader", "page"}
  /\ listed = IF acting = "alerts" THEN Devices ELSE {}
  /\ acting # "reader" => disk = CHOOSE contents \in Some : TRUE
  /\ acting # "page" => selected = CHOOSE d \in Options : TRUE
AlertsAct(A) == acting = "alerts" /\ A /\ UNCHANGED <<readerVars, pageVars, acting>>
ReaderActs(A) == acting = "reader" /\ A /\ UNCHANGED <<alertVars, pageVars, acting>>
PageActs(A) == acting = "page" /\ A /\ UNCHANGED <<alertVars, readerVars, acting>>
Next == AlertsAct(AlertsNext) \/ ReaderActs(ReaderNext) \/ PageActs(PageNext)
Spec ==
  /\ Init /\ [][Next]_vars
  /\ WF_vars(AlertsAct(CheckNext("worker")))
  /\ \A n \in Calls : WF_vars(PageActs(AnswerComes(n)))
  /\ WF_vars(PageActs(TimerNext))
=============================================================================
