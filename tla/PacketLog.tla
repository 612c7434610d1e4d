------------------------------ MODULE PacketLog ------------------------------
(***************************************************************************)
(* What a write pipeline promises to the connections that feed it, without *)
(* queues, shards, workers or markers: each device has a log of accepted   *)
(* packets, and a prefix of that log has been settled (stored, recognised   *)
(* as a duplicate, quarantined, or given up with a log line).  A log whose  *)
(* next packet is lost to an unhandled exception stops there.               *)
(***************************************************************************)
EXTENDS Integers, Sequences, Functions

CONSTANTS
  Devices,
  Packets   \* records with a connection conn, a number no and a device dev

VARIABLES
  phase,    \* "open", "stopping", and at the end "drained", "expired" or "killed"
  arrived,  \* per device, the accepted packets in the order of acceptance
  settled,  \* per device, the settled ones in the order they were settled
  late,     \* packets accepted after the pipeline was told to stop
  lost      \* packets an unhandled exception has taken out of the pipeline

vars == <<phase, arrived, settled, late, lost>>

Init ==
  /\ phase = "open"
  /\ arrived = [d \in Devices |-> << >>]
  /\ settled = [d \in Devices |-> << >>]
  /\ late = {}
  /\ lost = {}

Running == phase \in {"open", "stopping"}

\* A packet is accepted once, after the earlier packets of its connection for
\* the device; a connection gets at most one packet in after the stop.
Accept(p) ==
  /\ Running
  /\ \A q \in Range(arrived[p.dev]) : q.conn = p.conn => q.no < p.no
  /\ phase = "stopping" => \A q \in late : q.conn # p.conn
  /\ arrived' = [arrived EXCEPT ![p.dev] = Append(@, p)]
  /\ late' = IF phase = "stopping" THEN late \cup {p} ELSE late
  /\ UNCHANGED <<phase, settled, lost>>

\* The oldest packet of a device that is not settled yet.
NextOf(d) == arrived[d][Len(settled[d]) + 1]

\* The device has an unsettled packet, and its log has not stopped at a lost one.
Pending(d) == Len(settled[d]) < Len(arrived[d]) /\ NextOf(d) \notin lost

Settle(d) ==
  /\ Running
  /\ Pending(d)
  /\ settled' = [settled EXCEPT ![d] = Append(@, NextOf(d))]
  /\ UNCHANGED <<phase, arrived, late, lost>>

\* The packet is neither settled nor kept, and the device's log stops at it.
Lose(d) ==
  /\ Running
  /\ Pending(d)
  /\ lost' = lost \cup {NextOf(d)}
  /\ UNCHANGED <<phase, arrived, settled, late>>

Stop ==
  /\ phase = "open"
  /\ phase' = "stopping"
  /\ UNCHANGED <<arrived, settled, late, lost>>

\* The deadline was met: nothing accepted before the stop is left over but what
\* was lost before.
EndDrained ==
  /\ phase = "stopping"
  /\ \A d \in Devices : \A i \in Len(settled[d]) + 1 .. Len(arrived[d]) :
       arrived[d][i] \in late \cup lost
  /\ phase' = "drained"
  /\ UNCHANGED <<arrived, settled, late, lost>>

\* The deadline was missed: what is not settled is gone with the process.
EndExpired ==
  /\ phase = "stopping"
  /\ phase' = "expired"
  /\ UNCHANGED <<arrived, settled, late, lost>>

\* The process is killed, told to stop or not.
Kill ==
  /\ Running
  /\ phase' = "killed"
  /\ UNCHANGED <<arrived, settled, late, lost>>

Next ==
  \/ \E p \in Packets : Accept(p)
  \/ \E d \in Devices : Settle(d) \/ Lose(d)
  \/ Stop \/ EndDrained \/ EndExpired \/ Kill

Spec == Init /\ [][Next]_vars
=============================================================================
