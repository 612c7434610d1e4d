------------------------------ MODULE LiveView ------------------------------
(***************************************************************************)
(* The portal's live page (app/static/js/waveform.js): a choice of devices, *)
(* boxes for the device's components, and a chart that a timer refreshes.   *)
(* Each refresh awaits one request per component, and nothing keeps a       *)
(* second one, for another device perhaps, from starting meanwhile: answers *)
(* come in any order.  Between two answers a handler is not interrupted.    *)
(***************************************************************************)
EXTENDS Naturals, Sequences

CONSTANTS
  Options,      \* the devices to choose from
  ComponentsOf, \* what /api/components says of each, sorted
  MaxChecked,   \* how many boxes are checked at first
  MaxInFlight,  \* bound: refreshes and reloads under way
  MaxActs,      \* bound: what the user does, and failing requests
  Nothing

ASSUME OptionsAssumption == \A d \in Options : ComponentsOf[d] \in Seq(STRING)
ASSUME PageAssumption ==
  MaxChecked \in Nat /\ MaxInFlight \in Nat /\ MaxActs \in Nat /\ Nothing \notin Options

VARIABLES
  selected,  \* deviceSelect.value
  checked,   \* the checked components
  paused,    \* state.paused
  timer,     \* scheduleLive() has been called
  flight,    \* what is under way: calls of updateLive() and of reloadComponents()
  chart,     \* the device whose data the chart shows
  acts       \* number of bounded events so far

pageVars == <<selected, checked, paused, timer, flight, chart, acts>>

Calls == 1 .. MaxInFlight
Free == [at |-> "free", device |-> Nothing, todo |-> << >>, data |-> FALSE, first |-> FALSE]

\* initLive() begins with a reload, and sets the timer when that has ended.
PageInit ==
  /\ selected \in Options /\ chart = Nothing /\ checked = << >>
  /\ paused = FALSE /\ timer = FALSE /\ acts = 0
  /\ flight = [n \in Calls |->
       IF n = 1 THEN [Free EXCEPT !.at = "components", !.device = selected, !.first = TRUE] ELSE Free]

Act == acts < MaxActs /\ acts' = acts + 1
-----------------------------------------------------------------------------
\* A call ends; the first one sets the timer.
End(n) ==
  /\ flight' = [flight EXCEPT ![n] = Free]
  /\ timer' = (timer \/ flight[n].first)

\* Mutation of Update: the chart is left as it is if no component is checked.
UpdateKeeping(n, device, components) ==
  IF paused \/ components = << >> THEN End(n) /\ UNCHANGED chart
  ELSE /\ flight' = [flight EXCEPT ![n] =
            [@ EXCEPT !.at = "waveform", !.device = device, !.todo = components]]
       /\ UNCHANGED <<chart, timer>>

\* updateLive() up to its first request: nothing while the page is paused, an empty
\* chart without components.
Update(n, device, components) ==
  IF paused THEN End(n) /\ UNCHANGED chart
  ELSE IF components = << >> THEN End(n) /\ chart' = Nothing
  ELSE /\ flight' = [flight EXCEPT ![n] =
            [@ EXCEPT !.at = "waveform", !.device = device, !.todo = components]]
       /\ UNCHANGED <<chart, timer>>

\* One component's data comes; with the last one, the chart is drawn.
WaveformComes(n) ==
  LET call == flight[n]
      data == call.data \/ \E i \in DOMAIN ComponentsOf[call.device] :
                             ComponentsOf[call.device][i] = Head(call.todo)
  IN /\ call.at = "waveform"
     /\ IF Len(call.todo) > 1
        THEN /\ flight' = [flight EXCEPT ![n].todo = Tail(@), ![n].data = data]
             /\ UNCHANGED <<chart, timer>>
        ELSE End(n) /\ chart' = (IF data THEN call.device ELSE Nothing)
     /\ UNCHANGED <<selected, checked, paused, acts>>

\* reloadComponents(): the boxes are those of the device the answer is about, and the
\* update is for the device selected now.
ComponentsCome(n) ==
  LET all == ComponentsOf[flight[n].device]
  IN /\ flight[n].at = "components"
     /\ checked' = SubSeq(all, 1, IF Len(all) < MaxChecked THEN Len(all) ELSE MaxChecked)
     /\ Update(n, selected, checked')
     /\ UNCHANGED <<selected, paused, acts>>

\* fetchJSON() throws: the call ends, and with the first one initLive(), without a timer.
Throws(n) ==
  /\ flight[n].at # "free" /\ Act
  /\ flight' = [flight EXCEPT ![n] = Free]
  /\ UNCHANGED <<selected, checked, paused, timer, chart>>

TimerFires(n) ==
  /\ timer /\ flight[n].at = "free"
  /\ Update(n, selected, checked)
  /\ UNCHANGED <<selected, checked, paused, acts>>

Choose(n, device) ==
  /\ flight[n].at = "free" /\ Act
  /\ selected' = device
  /\ flight' = [flight EXCEPT ![n] = [Free EXCEPT !.at = "components", !.device = device]]
  /\ UNCHANGED <<checked, paused, timer, chart>>

\* A box is checked or cleared, or the length of the window changed.
Check(n, components) ==
  /\ flight[n].at = "free" /\ Act
  /\ checked' = components
  /\ Update(n, selected, components)
  /\ UNCHANGED <<selected, paused>>

Pause ==
  /\ Act
  /\ paused' = ~ paused
  /\ UNCHANGED <<selected, checked, timer, flight, chart>>

\* The user may set the length of the interval as often as he likes.
ChangeRefresh ==
  /\ timer' = TRUE
  /\ UNCHANGED <<selected, checked, paused, flight, chart, acts>>

AnswerComes(n) == WaveformComes(n) \/ ComponentsCome(n)
TimerNext == \E n \in Calls : TimerFires(n)
UserNext ==
  \/ \E n \in Calls, d \in Options : Choose(n, d)
  \/ \E n \in Calls, d \in Options :
       \E k \in 0 .. Len(ComponentsOf[d]) : Check(n, SubSeq(ComponentsOf[d], 1, k))
  \/ Pause \/ ChangeRefresh

PageNext ==
  \/ \E n \in Calls : AnswerComes(n) \/ Throws(n)
  \/ TimerNext \/ UserNext

\* Requests are answered, or fail, and the browser's timer fires.
PageSpec ==
  /\ PageInit /\ [][PageNext]_pageVars
  /\ \A n \in Calls : WF_pageVars(AnswerComes(n))
  /\ WF_pageVars(TimerNext)
-----------------------------------------------------------------------------
\* What is late does not stay: although an answer for a device no longer selected
\* may be drawn over a newer one, a running page shows in the end the data of the
\* selected device, or none.
ChartSettles == <>[](timer /\ ~ paused => chart \in {selected, Nothing})
=============================================================================
