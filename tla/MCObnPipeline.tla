--------------------------- MODULE MCObnPipeline ---------------------------
(* Instances of ObnPipeline for TLC. *)
EXTENDS ObnPipeline, TLC

CONSTANTS h1, h2, i1

\* h1 and h2 are an old and a new connection of instrument i1.
OldAndNew == (h1 :> i1) @@ (h2 :> i1)

OneCrc32 == i1 :> 6

ThreePackets == (h1 :> 2) @@ (h2 :> 1)

\* One row of a version that did not store raw packets.
OldWithoutRaw == {[rows |-> 1, raw |-> FALSE]}
=============================================================================
