----------------------------- MODULE MCReceiver -----------------------------
(* Instances of Receiver for TLC. *)
EXTENDS Receiver

CONSTANTS c1, c2

\* A record of three bytes; one of four that cannot be decoded; a header without
\* a valid length, which takes three bytes to see.
StartKinds == {"good", "undecodable", "lengthless"}
Lengths == [good |-> 3, undecodable |-> 4, lengthless |-> 0]
BytesNeeded == [good |-> 2, undecodable |-> 3, lengthless |-> 3]
Decoded == {"good"}

\* Streams of n bytes with at most h headers.  None starts at the last byte, where
\* no buffer could hold it.
Bytes(n, h) ==
  {s \in [1 .. n -> StartKinds \cup {None}] :
     s[n] = None /\ Cardinality({i \in 1 .. n : s[i] # None}) <= h}

\* What one client sends; the other one sends nothing.
OneTalks == [c \in Clients |-> IF c = c1 THEN Bytes(6, 2) \cup Bytes(4, 3) ELSE {<< >>}]

Settings == {[buffer |-> 6, scan |-> 6], [buffer |-> 3, scan |-> 1]}
=============================================================================
