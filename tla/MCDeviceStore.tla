--------------------------- MODULE MCDeviceStore ---------------------------
(* Instances of DeviceStore for TLC. *)
EXTENDS DeviceStore

Timed(seq, start, npts) ==
  [seq |-> seq, timed |-> TRUE, start |-> start, npts |-> npts, copy |-> 0]

\* In a row: p1, p2 (whose number has wrapped), a gap of two samples, p3; and
\* far, which starts too late for its gap to be filled.
p1 == Timed(3, 1, 2)
p2 == Timed(0, 3, 1)
p3 == Timed(1, 6, 1)
far == Timed(2, 12, 1)

\* A packet stored with the fallback header.
untimed == [seq |-> 2, timed |-> FALSE, start |-> -1, npts |-> 0, copy |-> 0]

\* A packet with a rate and no samples: it has no end.
empty == Timed(1, 5, 0)

SixPackets == {p1, p2, p3, far, untimed, empty}

\* The packet after far.
farther == Timed(3, 13, 1)

JumpingPackets == {p1, far, farther}
=============================================================================
