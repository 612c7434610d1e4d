-------------------------- MODULE MCDeviceRegistry --------------------------
(* The instance of DeviceRegistry for TLC. *)
EXTENDS DeviceRegistry

\* Three files of one instrument and one of another.
FourFiles == 1 .. 4
TwoKeys == <<"A", "A", "A", "B">>
\* Files 1 and 2 do not overlap, 3 overlaps with 2 and grows behind it.
FewArrivals == <<<<1>>, <<3>>, <<3, 5>>, <<1>>>>
AtStart == <<1, 1, 1, 1>>
OneRule == {[customer |-> "c", keys |-> {"A"}]}
FewForms == {[active |-> TRUE, admin |-> FALSE, customer |-> "c"],
             [active |-> TRUE, admin |-> TRUE, customer |-> None]}
=============================================================================
