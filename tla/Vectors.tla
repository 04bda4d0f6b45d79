------------------------------ MODULE Vectors ------------------------------
(***************************************************************************)
(* What the standard library's algorithms do to the vectors of actions and *)
(* mods, which the components keep as sequences.                           *)
(***************************************************************************)
EXTENDS Integers, Sequences, FiniteSets, Functions

\* std::erase_if, and erase after remove_if: the elements outside D, in order.
Without(q, D) ==
  LET kept == {i \in DOMAIN q : q[i] \notin D}
      Rank(i) == Cardinality({j \in kept : j <= i})
  IN  [n \in 1 .. Cardinality(kept) |-> q[CHOOSE i \in kept : Rank(i) = n]]
=============================================================================
