--------------------------- MODULE MCEventStream ---------------------------
(* EventStream for TLC: producers are interchangeable.                     *)
EXTENDS EventStream, TLC

ProducerSymmetry == Permutations(Producers)
=============================================================================
