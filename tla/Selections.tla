------------------------------ MODULE Selections ------------------------------
(***************************************************************************)
(* [item for item in s if ...]: the entries of a sequence at some of its   *)
(* positions, in their order.  Without an operator for the condition and   *)
(* without recursion, so that proofs can speak about it.                   *)
(***************************************************************************)
EXTENDS Naturals, Sequences, FiniteSets

\* How many positions of the set positions are not beyond i.
Rank(i, positions) == Cardinality({j \in positions : j <= i})

\* positions is a set of positions of s.
Selected(s, positions) ==
  [n \in 1 .. Cardinality(positions) |-> s[CHOOSE i \in positions : Rank(i, positions) = n]]
===============================================================================
