-------------------------- MODULE MCIngestPipeline --------------------------
(* Instances of IngestPipeline for TLC. *)
EXTENDS IngestPipeline, TLC

\* Drains are interchangeable, and so are contents.
Symmetry == Permutations(Drains) \cup Permutations(Contents)
=============================================================================
