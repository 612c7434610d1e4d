-------------------------- MODULE MCWritePipeline --------------------------
(* Instances of WritePipeline for TLC. *)
EXTENDS WritePipeline, TLC

CONSTANTS h1, h2, h3, d1, d2, d3

\* d1 and d2 share shard 0 of two, d3 has shard 1 for itself.  Only the remainder
\* of a checksum matters: equal ones make d1 and d2 interchangeable.
Crc32Of == (d1 :> 4) @@ (d2 :> 4) @@ (d3 :> 7)

TwoDevicesCrc32 == (d1 :> 4) @@ (d3 :> 7)

Symmetry == Permutations(Handlers) \cup Permutations({d1, d2})
=============================================================================
