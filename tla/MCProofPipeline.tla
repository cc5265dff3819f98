--------------------------- MODULE MCProofPipeline ----------------------------
(* Model values for ProofPipeline: events and runs are interchangeable.      *)
EXTENDS ProofPipeline, TLC

Interchangeable == Permutations(Event) \cup Permutations(Run)
===============================================================================
