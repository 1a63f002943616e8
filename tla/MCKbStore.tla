------------------------------ MODULE MCKbStore ------------------------------
(* Instances of KbStore for TLC. *)
EXTENDS KbStore, TLC

\* Servers, tools and embedders are interchangeable.
Symmetry == Permutations(Servers) \cup Permutations(Tools) \cup Permutations(Embedders)
=============================================================================
